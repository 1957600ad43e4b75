------------------------- MODULE IngestPipelineProofs -------------------------
(***************************************************************************)
(* What holds of the ingest pipeline for every configuration, batch size,  *)
(* queue size and number of samples.                                       *)
(***************************************************************************)
EXTENDS IngestPipeline, FiniteSetTheorems, TLAPS

(* The helpers stay in their types.                                         *)

\* float(value), int(value) and the value a filtered tag remembers are values.
LEMMA FloatTyped ==
  ASSUME NEW v \in Value, NEW type
  PROVE  FloatOf(v, type) \in Value
<1>1. CASE type = "float" /\ ParsesAsFloat(v)
  BY <1>1 DEF FloatOf, Value, Kinds, ParsesAsFloat
<1>2. CASE ~ (type = "float" /\ ParsesAsFloat(v)) /\ type = "int" /\ ParsesAsInt(v)
  <2>1. Truncated(v.n) \in Int
    BY DEF Truncated, Value
  <2>2. FloatOf(v, type) = Number(Truncated(v.n))
    BY <1>2 DEF FloatOf
  <2> QED
    BY <2>1, <2>2 DEF Number, Value, Kinds
<1>3. CASE ~ (type = "float" /\ ParsesAsFloat(v)) /\ ~ (type = "int" /\ ParsesAsInt(v))
  BY <1>3 DEF FloatOf, Null, Value, Kinds
<1> QED
  BY <1>1, <1>2, <1>3

\* A dict updated with another dict of the same type keeps the type.
LEMMA OverrideTyped ==
  ASSUME NEW S, NEW T, NEW f, NEW g, Partial(f, S, T), Partial(g, S, T)
  PROVE  Partial(Override(f, g), S, T)
BY DEF Partial, Override

-----------------------------------------------------------------------------
(* Type correctness.                                                        *)

Drop == [id : SampleIds, why : Reason]
ConsumerPc == {"load", "get", "journal", "flush", "final", "done"}

\* The part of TypeOK the loop of the consumer and its finally block write.
LoopOK ==
  /\ pc \in ConsumerPc
  /\ IF pc = "journal" THEN WorkOK(work) ELSE work = NoWork
  /\ batch \subseteq Row /\ buffer \subseteq Row /\ flBatch \subseteq Row /\ rows \subseteq Row
  /\ flusher \in {"none", "sleep", "commit", "cancelled", "dead"}
  /\ dropped \subseteq Drop

LEMMA LoopTyped == TypeOK => LoopOK
BY DEF TypeOK, LoopOK, ConsumerPc, Drop

LEMMA LostTyped ==
  ASSUME NEW R \in SUBSET Row, NEW why \in Reason
  PROVE  Lost(R, why) \subseteq Drop
BY DEF Lost, Without, Drop, Row

LEMMA WithoutTyped ==
  ASSUME NEW ids \in SUBSET SampleIds, NEW why \in Reason
  PROVE  Without(ids, why) \subseteq Drop
BY DEF Without, Drop

LEMMA UnwindTyped ==
  ASSUME LoopOK, NEW b \in SUBSET Row, NEW r \in SUBSET Row, NEW d \in SUBSET Drop,
         Unwind(b, r, d)
  PROVE  LoopOK'
<1>1. Lost(flBatch, "interrupted") \subseteq Drop
  BY LostTyped DEF LoopOK, Reason
<1> QED
  BY <1>1 DEF Unwind, LoopOK, ConsumerPc

LEMMA LoopHeadTyped ==
  ASSUME LoopOK, NEW b \in SUBSET Row, NEW r \in SUBSET Row, NEW d \in SUBSET Drop,
         LoopHead(b, r, d)
  PROVE  LoopOK'
<1>1. CASE Unwind(b, r, d)
  BY <1>1, UnwindTyped
<1>2. CASE ~ Unwind(b, r, d)
  BY <1>2 DEF LoopHead, LoopOK, ConsumerPc, flushVars
<1> QED
  BY <1>1, <1>2

LEMMA AfterHandlingTyped ==
  ASSUME LoopOK, NEW b \in SUBSET Row, NEW d \in SUBSET Drop, AfterHandling(b, d)
  PROVE  LoopOK'
<1>1. CASE Full(b)
  BY <1>1 DEF AfterHandling, LoopOK, ConsumerPc, flushVars
<1>2. CASE ~ Full(b)
  <2>1. LoopHead(b, rows, d)
    BY <1>2 DEF AfterHandling
  <2> QED
    BY <2>1, LoopHeadTyped DEF LoopOK
<1> QED
  BY <1>1, <1>2

\* The end of _handle_sample leaves everything it writes typed.
LEMMA ArchiveTyped ==
  ASSUME TypeOK, NEW s \in Sample, s.tag \in Tags, NEW m \in TagMeta, Archive(s, m)
  PROVE  LoopOK' /\ last' \in [Tags -> Value]
<1> DEFINE Gone(why) == dropped \cup Without({s.id}, why)
<1>0. /\ LoopOK /\ buffer \in SUBSET Row /\ rows \in SUBSET Row /\ dropped \in SUBSET Drop
      /\ last \in [Tags -> Value]
  BY LoopTyped DEF LoopOK, TypeOK
<1>1. \A why \in Reason : Gone(why) \in SUBSET Drop
  BY <1>0, WithoutTyped DEF Sample
<1>2. FloatOf(s.value, m.type) \in Value
  BY FloatTyped DEF Sample
<1>3. CASE Unarchived(s, m)
  <2>1. AfterHandling(buffer, Gone("disabled")) /\ last' = last
    BY <1>3 DEF Unarchived
  <2> QED
    BY <2>1, <1>0, <1>1, AfterHandlingTyped DEF Reason
<1>4. CASE DeadbandCheckRaises(s, m)
  <2>1. Unwind(buffer, rows, Gone("raised")) /\ last' = last
    BY <1>4 DEF DeadbandCheckRaises
  <2> QED
    BY <2>1, <1>0, <1>1, UnwindTyped DEF Reason
<1>5. CASE Filtered(s, m)
  <2>1. AfterHandling(buffer, Gone("deadband")) /\ last' = last
    BY <1>5 DEF Filtered
  <2> QED
    BY <2>1, <1>0, <1>1, AfterHandlingTyped DEF Reason
<1>6. CASE Stored(s, m)
  <2> DEFINE row == [id |-> s.id, tag |-> s.tag, float |-> FloatOf(s.value, m.type)]
  <2>1. /\ AfterHandling(buffer \cup {row}, dropped)
        /\ last' = [last EXCEPT ![s.tag] = Remembered(s.value, FloatOf(s.value, m.type))]
    BY <1>6 DEF Stored
  <2>2. buffer \cup {row} \in SUBSET Row
    BY <1>0, <1>2 DEF Row, Sample
  <2>3. Remembered(s.value, FloatOf(s.value, m.type)) \in Value
    BY <1>2 DEF Remembered, Sample
  <2> QED
    BY <2>1, <2>2, <2>3, <1>0, AfterHandlingTyped
<1> QED
  BY <1>3, <1>4, <1>5, <1>6 DEF Archive

\* Flipping an alarm of the work at hand keeps the consumer at a typed alarm event.
LEMMA FlipTyped ==
  ASSUME TypeOK, NEW w, w.sample \in Sample, w.sample.tag \in Tags, w.meta \in TagMeta,
         Partial(w.states, Alarms, Runtime), w.cursor \in Nat, w.detached \in BOOLEAN,
         w = [sample |-> w.sample, meta |-> w.meta, states |-> w.states,
              cursor |-> w.cursor, detached |-> w.detached],
         Flip(w)
  PROVE  LoopOK' /\ last' \in [Tags -> Value] /\ Partial(alarms', Alarms, Runtime)
<1>1. PICK a \in Changed(w) :
        /\ work' = [w EXCEPT !.states = Flipped(w, a), !.cursor = a]
        /\ alarms' = IF w.detached THEN alarms ELSE Override(alarms, Flipped(w, a))
        /\ pc' = "journal"
        /\ UNCHANGED <<batch, buffer, last, flushVars, rows, dropped>>
  BY DEF Flip
<1>2. a \in DOMAIN w.states
  BY DEF Changed
<1>3. Partial(Flipped(w, a), Alarms, Runtime) /\ DOMAIN Flipped(w, a) = DOMAIN w.states
  <2>1. w.states \in [DOMAIN w.states -> Runtime] /\ w.states[a] \in Runtime
    BY <1>2 DEF Partial
  <2>2. [w.states[a] EXCEPT !.active = ~ w.states[a].active] \in Runtime
    BY <2>1 DEF Runtime
  <2>3. Flipped(w, a)
          = [w.states EXCEPT ![a] = [w.states[a] EXCEPT !.active = ~ w.states[a].active]]
    BY <2>1 DEF Flipped, Runtime
  <2> HIDE DEF Runtime
  <2> QED
    BY <2>1, <2>2, <2>3 DEF Partial
<1>4. WorkOK(work')
  <2>1. /\ work'.sample = w.sample /\ work'.meta = w.meta
        /\ work'.states = Flipped(w, a) /\ work'.cursor = a
        /\ work'.detached = w.detached
        /\ work' = [sample |-> w.sample, meta |-> w.meta, states |-> Flipped(w, a),
                    cursor |-> a, detached |-> w.detached]
    BY <1>1
  <2> QED
    BY <2>1, <1>2, <1>3 DEF WorkOK
<1>5. Partial(alarms', Alarms, Runtime)
  BY <1>1, <1>3, OverrideTyped DEF TypeOK
<1> QED
  BY <1>1, <1>4, <1>5, LoopTyped DEF LoopOK, TypeOK, ConsumerPc, flushVars

LEMMA EvaluateTyped ==
  ASSUME TypeOK, NEW w, w.sample \in Sample, w.sample.tag \in Tags, w.meta \in TagMeta,
         Partial(w.states, Alarms, Runtime), w.cursor \in Nat, w.detached \in BOOLEAN,
         w = [sample |-> w.sample, meta |-> w.meta, states |-> w.states,
              cursor |-> w.cursor, detached |-> w.detached],
         Evaluate(w)
  PROVE  LoopOK' /\ last' \in [Tags -> Value] /\ Partial(alarms', Alarms, Runtime)
<1>1. CASE Flip(w)
  BY <1>1, FlipTyped
<1>2. CASE Archive(w.sample, w.meta) /\ UNCHANGED alarms
  BY <1>2, ArchiveTyped DEF TypeOK
<1> QED
  BY <1>1, <1>2 DEF Evaluate

\* The alarms of a tag, as _evaluate_alarms reads them.
LEMMA StatesTyped ==
  ASSUME NEW tag, Partial(alarms, Alarms, Runtime)
  PROVE  Partial(StatesOf(tag), Alarms, Runtime) /\ DOMAIN StatesOf(tag) \subseteq DOMAIN alarms
BY DEF StatesOf, Partial

\* What is neither the loop's nor written by the alarm evaluation.
RestOK ==
  /\ queue \in Seq(Sample) /\ Len(queue) <= QueueMax
  /\ emitted \in 0 .. MaxSamples
  /\ live \in [Tags -> Sample \cup {NoSample}]
  /\ Partial(meta, Tags, TagMeta) /\ Partial(dbTags, Tags, TagMeta)
  /\ Partial(dbAlarms, Alarms, AlarmDef)
  /\ DOMAIN loader = Loaders /\ \A l \in Loaders : LoaderOK(loader[l])
  /\ journal \in Seq(Event)
  /\ failures \in 0 .. MaxDbFailures
  /\ stop \in BOOLEAN

LEMMA TypeParts ==
  TypeOK <=> LoopOK /\ last \in [Tags -> Value] /\ Partial(alarms, Alarms, Runtime) /\ RestOK
BY DEF TypeOK, LoopOK, RestOK, ConsumerPc, Drop

LEMMA TypePartsNext ==
  LoopOK' /\ last' \in [Tags -> Value] /\ Partial(alarms', Alarms, Runtime) /\ RestOK'
    => TypeOK'
BY DEF TypeOK, LoopOK, RestOK, ConsumerPc, Drop

LEMMA TakeTyped ==
  ASSUME TypeOK, Take
  PROVE  TypeOK'
<1> DEFINE s == Head(queue)
<1>0. /\ LoopOK /\ buffer \in SUBSET Row /\ rows \in SUBSET Row /\ dropped \in SUBSET Drop
      /\ RestOK /\ last \in [Tags -> Value] /\ Partial(alarms, Alarms, Runtime)
  BY TypeParts DEF LoopOK
<1>1. s \in Sample /\ queue' \in Seq(Sample) /\ Len(queue') <= QueueMax
  BY <1>0, PipelineAssumption DEF Take, RestOK
<1>2. \A why \in Reason : dropped \cup Without({s.id}, why) \in SUBSET Drop
  BY <1>0, <1>1, WithoutTyped DEF Sample
<1>3. CASE TakeUnknown(s)
  <2>1. LoopOK'
    BY <1>3, <1>0, <1>2, AfterHandlingTyped DEF TakeUnknown, Reason
  <2> QED
    BY <2>1, <1>0, <1>1, <1>3, TypePartsNext DEF Take, TakeUnknown, RestOK, dbVars
<1>4. CASE TakeUncoercible(s)
  <2>1. LoopOK'
    BY <1>4, <1>0, <1>2, UnwindTyped DEF TakeUncoercible, Reason
  <2> QED
    BY <2>1, <1>0, <1>1, <1>4, TypePartsNext DEF Take, TakeUncoercible, RestOK, dbVars
<1>5. CASE TakeKnown(s)
  <2> DEFINE w == [sample |-> s, meta |-> meta[s.tag], states |-> StatesOf(s.tag),
                   cursor |-> 0, detached |-> FALSE]
  <2>1. s.tag \in Tags /\ meta[s.tag] \in TagMeta
    BY <1>5, <1>0 DEF TakeKnown, RestOK, Partial
  <2>2. Partial(StatesOf(s.tag), Alarms, Runtime)
    BY <1>0, StatesTyped
  <2>3. Evaluate(w)
    BY <1>5 DEF TakeKnown
  <2>4. /\ w.sample = s /\ w.meta = meta[s.tag] /\ w.states = StatesOf(s.tag)
        /\ w.cursor = 0 /\ w.detached = FALSE
    OBVIOUS
  <2> HIDE DEF w
  <2>5. w = [sample |-> w.sample, meta |-> w.meta, states |-> w.states,
             cursor |-> w.cursor, detached |-> w.detached]
    BY DEF w
  <2>6. LoopOK' /\ last' \in [Tags -> Value] /\ Partial(alarms', Alarms, Runtime)
    <3>1. /\ w.sample \in Sample /\ w.sample.tag \in Tags /\ w.meta \in TagMeta
          /\ Partial(w.states, Alarms, Runtime) /\ w.cursor \in Nat
      BY <2>1, <2>2, <2>4, <1>1
    <3>2. w.detached \in BOOLEAN
      BY <2>4, Zenon
    <3> QED
      BY <3>1, <3>2, <2>3, <2>5, EvaluateTyped
  <2>7. live' \in [Tags -> Sample \cup {NoSample}]
    BY <1>5, <1>0, <1>1 DEF TakeKnown, RestOK
  <2> QED
    BY <2>6, <2>7, <1>0, <1>1, TypePartsNext DEF Take, RestOK, dbVars
<1> QED
  BY <1>3, <1>4, <1>5 DEF Take

\* The journal entry of the work at hand.
LEMMA EventTyped ==
  ASSUME TypeOK, pc = "journal"
  PROVE  EventOf(work) \in Event
<1>1. WorkOK(work)
  BY DEF TypeOK
<1>2. work.cursor \in Alarms
  BY <1>1 DEF WorkOK, Partial
<1> QED
  BY <1>2 DEF EventOf, Event

\* Each of the consumer's other steps.
LEMMA ConsumerTyped ==
  ASSUME TypeOK, Consumer
  PROVE  TypeOK'
<1>0. /\ LoopOK /\ buffer \in SUBSET Row /\ rows \in SUBSET Row /\ batch \in SUBSET Row
      /\ dropped \in SUBSET Drop
      /\ RestOK /\ last \in [Tags -> Value] /\ Partial(alarms, Alarms, Runtime)
  BY TypeParts DEF LoopOK
<1>1. CASE Take
  BY <1>1, TakeTyped
<1>2. CASE JournalWritten
  <2>1. WorkOK(work) /\ Evaluate(work) /\ pc = "journal"
    BY <1>2 DEF JournalWritten, TypeOK
  <2>2. work.cursor \in Nat
    BY <2>1, PipelineAssumption DEF WorkOK, Partial
  <2>3. LoopOK' /\ last' \in [Tags -> Value] /\ Partial(alarms', Alarms, Runtime)
    BY <2>1, <2>2, EvaluateTyped DEF WorkOK
  <2>4. journal' \in Seq(Event)
    BY <1>2, <1>0, <2>1, EventTyped DEF JournalWritten, RestOK
  <2> QED
    BY <2>3, <2>4, <1>2, <1>0, TypePartsNext DEF JournalWritten, RestOK, connVars, dbVars
<1>3. CASE JournalFailed
  <2>1. work.sample.id \in SampleIds
    BY <1>3 DEF JournalFailed, TypeOK, WorkOK, Sample
  <2>2. dropped \cup Without({work.sample.id}, "failed") \in SUBSET Drop
    BY <2>1, <1>0, WithoutTyped DEF Reason
  <2>3. LoopOK'
    BY <1>3, <1>0, <2>2, UnwindTyped DEF JournalFailed
  <2> QED
    BY <2>3, <1>3, <1>0, TypePartsNext, PipelineAssumption
    DEF JournalFailed, RestOK, connVars, defVars, dbVars, Fails
<1>4. CASE FlushCommitted
  <2>1. LoopOK'
    BY <1>4, <1>0, LoopHeadTyped DEF FlushCommitted
  <2> QED
    BY <2>1, <1>4, <1>0, TypePartsNext DEF FlushCommitted, RestOK, connVars, defVars, dbVars
<1>5. CASE FlushFailed
  <2>1. dropped \cup Lost(batch, "failed") \in SUBSET Drop
    BY <1>0, LostTyped DEF Reason
  <2>2. LoopOK'
    BY <1>5, <1>0, <2>1, UnwindTyped DEF FlushFailed
  <2> QED
    BY <2>2, <1>5, <1>0, TypePartsNext, PipelineAssumption
    DEF FlushFailed, RestOK, connVars, defVars, dbVars, Fails
<1>6. CASE FinalCommitted
  BY <1>6, <1>0, TypePartsNext
  DEF FinalCommitted, LoopOK, ConsumerPc, RestOK, connVars, flushVars, defVars, dbVars
<1>7. CASE FinalFailed
  <2>1. dropped \cup Lost(batch, "failed") \in SUBSET Drop
    BY <1>0, LostTyped DEF Reason
  <2> QED
    BY <1>7, <1>0, <2>1, TypePartsNext, PipelineAssumption
    DEF FinalFailed, LoopOK, ConsumerPc, RestOK, connVars, flushVars, defVars, dbVars, Fails
<1> QED
  BY <1>1, <1>2, <1>3, <1>4, <1>5, <1>6, <1>7 DEF Consumer

LEMMA EmitTyped ==
  ASSUME TypeOK, Emit
  PROVE  TypeOK'
<1>1. emitted + 1 \in SampleIds
  BY PipelineAssumption DEF Emit, TypeOK, SampleIds
<1>2. PICK in \in Inputs :
        IF HasRoom
        THEN /\ queue' = Append(queue, [id |-> emitted + 1, tag |-> in.tag,
                                        value |-> in.value, quality |-> in.quality])
             /\ UNCHANGED dropped
        ELSE /\ dropped' = dropped \cup Without({emitted + 1}, "full")
             /\ UNCHANGED queue
  BY DEF Emit
<1>3. [id |-> emitted + 1, tag |-> in.tag, value |-> in.value, quality |-> in.quality] \in Sample
  BY <1>1, PipelineAssumption DEF Sample
<1>4. queue' \in Seq(Sample) /\ Len(queue') <= QueueMax
  <2>1. queue \in Seq(Sample) /\ Len(queue) <= QueueMax /\ QueueMax \in Nat
    BY PipelineAssumption DEF TypeOK
  <2>2. CASE HasRoom
    BY <1>2, <1>3, <2>1, <2>2 DEF HasRoom
  <2>3. CASE ~ HasRoom
    BY <1>2, <2>1, <2>3
  <2> QED
    BY <2>2, <2>3
<1>5. dropped' \subseteq Drop
  BY <1>1, <1>2, WithoutTyped DEF TypeOK, Drop, Reason
<1> QED
  BY <1>1, <1>4, <1>5
  DEF Emit, TypeOK, Drop, SampleIds, taskVars, flushVars, defVars, dbVars

LEMMA FlusherTyped ==
  ASSUME TypeOK, Flusher
  PROVE  TypeOK'
<1>1. CASE FlusherWakes
  BY <1>1 DEF FlusherWakes, TypeOK, connVars, defVars, dbVars
<1>2. CASE FlusherCommitted
  BY <1>2 DEF FlusherCommitted, TypeOK, connVars, taskVars, defVars, dbVars
<1>3. CASE FlusherFailed
  <2>1. dropped \cup Lost(flBatch, "failed") \subseteq Drop
    BY LostTyped DEF TypeOK, Drop, Reason
  <2> QED
    BY <1>3, <2>1, PipelineAssumption
    DEF FlusherFailed, TypeOK, Drop, connVars, taskVars, defVars, dbVars, Fails
<1> QED
  BY <1>1, <1>2, <1>3 DEF Flusher

\* Calls of load_metadata keep their locals typed.
LoadersOK == DOMAIN loader = Loaders /\ \A l \in Loaders : LoaderOK(loader[l])

LEMMA EmptyTyped ==
  ASSUME NEW S, NEW T
  PROVE  Partial(<<>>, S, T)
BY DEF Partial

LEMMA CallTyped ==
  ASSUME NEW where \in LoaderPc, NEW c, IsConfig(c), NEW active \in SUBSET Alarms,
         NEW tags, Partial(tags, Tags, TagMeta), NEW defs, Partial(defs, Alarms, AlarmDef)
  PROVE  LoaderOK(Call(where, c, active, tags, defs))
BY DEF LoaderOK, Call

LEMMA NoCallTyped ==
  ASSUME NEW where \in LoaderPc
  PROVE  LoaderOK(NoCall(where))
BY CallTyped, EmptyTyped, PipelineAssumption DEF NoCall

LEMMA GoesTyped ==
  ASSUME LoadersOK, NEW l \in Loaders, NEW rec, LoaderOK(rec), Goes(l, rec)
  PROVE  LoadersOK'
BY DEF LoadersOK, Goes

\* A step of one call that only moves its loader.
LEMMA LoaderMoves ==
  ASSUME TypeOK, LoadersOK',
         UNCHANGED <<connVars, taskVars, flushVars, defVars, dbVars, rows, journal, dropped,
                     failures, stop>>
  PROVE  TypeOK'
BY DEF TypeOK, LoadersOK, connVars, taskVars, flushVars, defVars, dbVars

LEMMA ReloadTyped ==
  ASSUME TypeOK, NEW l \in Loaders, ReloadRequested(l) \/ SyncCommitted(l)
  PROVE  TypeOK'
<1>0. LoadersOK /\ LoaderOK(loader[l])
  BY DEF TypeOK, LoadersOK
<1>1. CASE ReloadRequested(l)
  <2>1. PICK c \in Configs : Goes(l, Call("sync", c, {}, <<>>, <<>>))
    BY <1>1 DEF ReloadRequested
  <2>2. IsConfig(c)
    BY PipelineAssumption
  <2>3. LoaderOK(Call("sync", c, {}, <<>>, <<>>))
    BY <2>2, CallTyped, EmptyTyped DEF LoaderPc
  <2> QED
    BY <1>0, <1>1, <2>1, <2>3, GoesTyped, LoaderMoves DEF ReloadRequested
<1>2. CASE SyncCommitted(l)
  <2>1. LoaderOK(NoCall("begin"))
    BY NoCallTyped DEF LoaderPc
  <2>2. LoadersOK'
    BY <1>0, <1>2, <2>1, GoesTyped DEF SyncCommitted
  <2>3. Partial(dbTags', Tags, TagMeta) /\ Partial(dbAlarms', Alarms, AlarmDef)
    BY <1>0, <1>2, OverrideTyped DEF SyncCommitted, TypeOK, LoaderOK, IsConfig
  <2> QED
    BY <1>2, <2>2, <2>3 DEF SyncCommitted, TypeOK, LoadersOK, connVars, taskVars, flushVars,
       defVars
<1> QED
  BY <1>1, <1>2

\* The consumer waits for its own first load, and only for that one.
RunLoads == pc = "load" <=> loader["run"].pc \notin {"done", "failed"}

\* The swap of the alarms: the rebuilt states are typed, the work at hand is detached.
LEMMA AlarmsAppliedTyped ==
  ASSUME TypeOK, RunLoads, NEW l \in Loaders, AlarmsApplied(l)
  PROVE  TypeOK'
<1>0. LoadersOK /\ LoaderOK(loader[l])
  BY DEF TypeOK, LoadersOK
<1>1. LoadersOK'
  BY <1>0, NoCallTyped, GoesTyped DEF AlarmsApplied, LoaderPc
<1>2. Partial(alarms', Alarms, Runtime)
  <2>1. Partial(loader[l].alarms, Alarms, AlarmDef)
    BY <1>0 DEF LoaderOK
  <2>2. \A a \in Known(l) : a \in Alarms /\ loader[l].alarms[a] \in AlarmDef
    BY <2>1 DEF Known, Partial
  <2>3. \A a \in Known(l) :
          [def |-> loader[l].alarms[a], active |-> a \in loader[l].active] \in Runtime
    BY <2>2 DEF Runtime
  <2> HIDE DEF Runtime
  <2> QED
    BY <2>2, <2>3 DEF AlarmsApplied, Rebuilt, Partial
<1>3. work = NoWork => work' = NoWork
  BY DEF AlarmsApplied, NoWork
<1>4. WorkOK(work) => WorkOK(work')
  BY DEF AlarmsApplied, WorkOK
<1>5. IF pc' = "journal" THEN WorkOK(work') ELSE work' = NoWork
  <2>1. CASE l = "run"
    BY <2>1, <1>3 DEF AlarmsApplied, RunLoads, TypeOK, At
  <2>2. CASE l # "run"
    BY <2>2, <1>3, <1>4 DEF AlarmsApplied, TypeOK
  <2> QED
    BY <2>1, <2>2
<1> QED
  BY <1>1, <1>2, <1>5 DEF AlarmsApplied, TypeOK, LoadersOK, connVars, dbVars

LEMMA LoadTyped ==
  ASSUME TypeOK, RunLoads, NEW l \in Loaders, Load(l)
  PROVE  TypeOK'
<1>0. LoadersOK /\ LoaderOK(loader[l])
  BY DEF TypeOK, LoadersOK
<1>1. CASE LoadBegins(l)
  <2>1. ActiveAlarms \subseteq Alarms
    BY DEF ActiveAlarms, TypeOK, Partial
  <2>2. LoaderOK(Call("tagsQuery", InitialConfig, ActiveAlarms, <<>>, <<>>))
    BY <2>1, CallTyped, EmptyTyped, PipelineAssumption DEF LoaderPc
  <2> QED
    BY <1>0, <1>1, <2>2, GoesTyped, LoaderMoves DEF LoadBegins
<1>2. CASE TagsRead(l)
  <2>1. LoaderOK(Call("tagsRead", InitialConfig, loader[l].active, dbTags, <<>>))
    BY <1>0, CallTyped, EmptyTyped, PipelineAssumption DEF LoaderOK, LoaderPc, TypeOK
  <2> QED
    BY <1>0, <1>2, <2>1, GoesTyped, LoaderMoves DEF TagsRead
<1>3. CASE TagsApplied(l)
  <2>1. LoaderOK(Call("alarmsQuery", InitialConfig, loader[l].active, loader[l].tags, <<>>))
    BY <1>0, CallTyped, EmptyTyped, PipelineAssumption DEF LoaderOK, LoaderPc
  <2>2. LoadersOK' /\ Partial(meta', Tags, TagMeta)
    BY <1>0, <1>3, <2>1, GoesTyped DEF TagsApplied, LoaderOK
  <2> QED
    BY <1>3, <2>2 DEF TagsApplied, TypeOK, LoadersOK, connVars, taskVars, flushVars, dbVars
<1>4. CASE AlarmsRead(l)
  <2>1. LoaderOK(Call("alarmsRead", InitialConfig, loader[l].active, loader[l].tags, dbAlarms))
    BY <1>0, CallTyped, PipelineAssumption DEF LoaderOK, LoaderPc, TypeOK
  <2> QED
    BY <1>0, <1>4, <2>1, GoesTyped, LoaderMoves DEF AlarmsRead
<1>5. CASE AlarmsApplied(l)
  BY <1>5, AlarmsAppliedTyped
<1> QED
  BY <1>1, <1>2, <1>3, <1>4, <1>5 DEF Load

LEMMA LoadFailedTyped ==
  ASSUME TypeOK, RunLoads, NEW l \in Loaders, LoadFailed(l)
  PROVE  TypeOK'
<1>1. LoadersOK'
  BY NoCallTyped, GoesTyped DEF LoadFailed, LoadersOK, LoaderPc, TypeOK
<1>2. IF pc' = "journal" THEN WorkOK(work') ELSE work' = NoWork
  BY DEF LoadFailed, RunLoads, TypeOK
<1> QED
  BY <1>1, <1>2, PipelineAssumption
  DEF LoadFailed, Fails, TypeOK, LoadersOK, connVars, flushVars, defVars, dbVars

LEMMA ShutdownTyped ==
  ASSUME TypeOK, Shutdown
  PROVE  TypeOK'
<1>0. /\ LoopOK /\ buffer \in SUBSET Row /\ rows \in SUBSET Row /\ batch \in SUBSET Row
      /\ dropped \in SUBSET Drop
      /\ RestOK /\ last \in [Tags -> Value] /\ Partial(alarms, Alarms, Runtime)
      /\ stop' \in BOOLEAN
  BY TypeParts DEF LoopOK, Shutdown
<1>1. CASE ShutdownLoading
  <2>1. LoadersOK'
    BY <1>0, <1>1, NoCallTyped, GoesTyped DEF ShutdownLoading, LoadersOK, Loaders, RestOK, LoaderPc
  <2> QED
    BY <2>1, <1>0, <1>1, TypePartsNext
    DEF Shutdown, ShutdownLoading, LoopOK, ConsumerPc, RestOK, LoadersOK, connVars, flushVars,
        defVars, dbVars
<1>2. CASE ShutdownWaiting
  <2>1. LoopOK'
    <3>1. CASE Unwind(buffer, rows, dropped)
      BY <3>1, <1>0, UnwindTyped
    <3>2. CASE UNCHANGED <<pc, work, batch, buffer, flushVars, rows, dropped>>
      BY <3>2, <1>0 DEF LoopOK, flushVars
    <3> QED
      BY <1>2, <3>1, <3>2 DEF ShutdownWaiting
  <2> QED
    BY <2>1, <1>0, <1>2, TypePartsNext
    DEF Shutdown, ShutdownWaiting, RestOK, connVars, defVars, dbVars
<1>3. CASE ShutdownJournalling
  <2>1. work.sample.id \in SampleIds /\ EventOf(work) \in Event
    BY <1>3, EventTyped DEF ShutdownJournalling, TypeOK, WorkOK, Sample
  <2>2. dropped \cup Without({work.sample.id}, "interrupted") \in SUBSET Drop
    BY <2>1, <1>0, WithoutTyped DEF Reason
  <2>3. LoopOK'
    BY <1>3, <1>0, <2>2, UnwindTyped DEF ShutdownJournalling
  <2>4. journal' \in Seq(Event)
    BY <1>3, <1>0, <2>1 DEF ShutdownJournalling, RestOK
  <2> QED
    BY <2>3, <2>4, <1>0, <1>3, TypePartsNext
    DEF Shutdown, ShutdownJournalling, RestOK, connVars, defVars, dbVars
<1>4. CASE ShutdownFlushing
  <2>1. dropped \cup Lost(batch, "interrupted") \in SUBSET Drop
    BY <1>0, LostTyped DEF Reason
  <2>2. LoopOK'
    BY <1>4, <1>0, <2>1, UnwindTyped DEF ShutdownFlushing
  <2> QED
    BY <2>2, <1>0, <1>4, TypePartsNext
    DEF Shutdown, ShutdownFlushing, RestOK, connVars, defVars, dbVars
<1>5. CASE ShutdownDead
  BY <1>0, <1>5, TypePartsNext
  DEF Shutdown, ShutdownDead, LoopOK, RestOK, connVars, flushVars, defVars, dbVars
<1> QED
  BY <1>1, <1>2, <1>3, <1>4, <1>5 DEF Shutdown

LEMMA InitTyped == Init => TypeOK
<1> SUFFICES ASSUME Init PROVE TypeOK
  OBVIOUS
<1>1. LoopOK
  BY DEF Init, LoopOK, ConsumerPc
<1>2. last \in [Tags -> Value]
  BY DEF Init, Null, Value, Kinds
<1>3. Partial(alarms, Alarms, Runtime) /\ Partial(meta, Tags, TagMeta)
  BY EmptyTyped DEF Init
<1>4. LoadersOK
  BY NoCallTyped DEF Init, LoadersOK, LoaderPc
<1>5. Partial(dbTags, Tags, TagMeta) /\ Partial(dbAlarms, Alarms, AlarmDef)
  BY PipelineAssumption DEF Init, IsConfig
<1>6. RestOK
  <2>1. queue \in Seq(Sample) /\ Len(queue) <= QueueMax /\ journal \in Seq(Event)
    BY PipelineAssumption DEF Init
  <2>2. emitted \in 0 .. MaxSamples /\ failures \in 0 .. MaxDbFailures
    BY PipelineAssumption DEF Init
  <2>3. live \in [Tags -> Sample \cup {NoSample}] /\ stop \in BOOLEAN
    BY DEF Init
  <2> QED
    BY <1>3, <1>4, <1>5, <2>1, <2>2, <2>3 DEF RestOK, LoadersOK
<1> QED
  BY <1>1, <1>2, <1>3, <1>6, TypeParts

-----------------------------------------------------------------------------
(* The consumer's first load.                                               *)

LEMMA RunIsLoader == "run" \in Loaders /\ "run" \notin Reloads
BY PipelineAssumption DEF Loaders

\* No step of the consumer returns to the first load.
LEMMA UnwindNotLoading ==
  ASSUME NEW b, NEW r, NEW d, Unwind(b, r, d)
  PROVE  pc' \in {"done", "final"}
BY DEF Unwind

LEMMA LoopNotLoading ==
  ASSUME NEW b, NEW r, NEW d, LoopHead(b, r, d) \/ AfterHandling(b, d)
  PROVE  pc' \in {"get", "flush", "done", "final"}
<1>1. ASSUME NEW x, NEW y, NEW z, LoopHead(x, y, z)
      PROVE  pc' \in {"get", "done", "final"}
  BY <1>1, UnwindNotLoading DEF LoopHead
<1> QED
  BY <1>1 DEF AfterHandling

LEMMA EvaluateNotLoading ==
  ASSUME NEW w, Evaluate(w)
  PROVE  pc' \in {"get", "journal", "flush", "done", "final"}
<1>1. ASSUME NEW s, NEW m, Archive(s, m)
      PROVE  pc' \in {"get", "flush", "done", "final"}
  BY <1>1, LoopNotLoading, UnwindNotLoading
  DEF Archive, Unarchived, DeadbandCheckRaises, Filtered, Stored
<1> QED
  BY <1>1 DEF Evaluate, Flip

LEMMA ConsumerNotLoading ==
  ASSUME Consumer
  PROVE  pc # "load" /\ pc' # "load" /\ loader' = loader
<1>1. CASE Take
  BY <1>1, LoopNotLoading, UnwindNotLoading, EvaluateNotLoading
  DEF Take, TakeUnknown, TakeUncoercible, TakeKnown
<1>2. CASE JournalWritten
  BY <1>2, EvaluateNotLoading DEF JournalWritten
<1>3. CASE JournalFailed
  BY <1>3, UnwindNotLoading DEF JournalFailed
<1>4. CASE FlushCommitted
  BY <1>4, LoopNotLoading DEF FlushCommitted
<1>5. CASE FlushFailed
  BY <1>5, UnwindNotLoading DEF FlushFailed
<1>6. CASE FinalCommitted \/ FinalFailed
  BY <1>6 DEF FinalCommitted, FinalFailed
<1> QED
  BY <1>1, <1>2, <1>3, <1>4, <1>5, <1>6 DEF Consumer

LEMMA RunLoadsKept ==
  ASSUME TypeOK, RunLoads, [Next]_vars
  PROVE  RunLoads'
<1> USE RunIsLoader DEF RunLoads
<1>0. DOMAIN loader = Loaders
  BY DEF TypeOK
<1>1. CASE Consumer
  BY <1>1, ConsumerNotLoading
<1>2. CASE Emit \/ Flusher
  BY <1>2 DEF Emit, Flusher, FlusherWakes, FlusherCommitted, FlusherFailed, taskVars
<1>3. ASSUME NEW l \in Loaders, Load(l) PROVE RunLoads'
  <2>1. CASE AlarmsApplied(l)
    BY <1>0, <2>1 DEF AlarmsApplied, Goes, NoCall, Call
  <2>2. CASE LoadBegins(l) \/ TagsRead(l) \/ TagsApplied(l) \/ AlarmsRead(l)
    BY <1>0, <2>2
    DEF LoadBegins, TagsRead, TagsApplied, AlarmsRead, At, Goes, Call, taskVars
  <2> QED
    BY <1>3, <2>1, <2>2 DEF Load
<1>4. ASSUME NEW l \in Loaders, LoadFailed(l) PROVE RunLoads'
  BY <1>0, <1>4 DEF LoadFailed, Goes, NoCall, Call
<1>5. ASSUME NEW l \in Reloads, ReloadRequested(l) \/ SyncCommitted(l) PROVE RunLoads'
  BY <1>0, <1>5 DEF ReloadRequested, SyncCommitted, Goes, taskVars
<1>6. CASE Shutdown
  BY <1>0, <1>6, UnwindNotLoading
  DEF Shutdown, ShutdownLoading, ShutdownWaiting, ShutdownJournalling, ShutdownFlushing,
      ShutdownDead, Goes, NoCall, Call
<1>7. CASE UNCHANGED vars
  BY <1>7 DEF vars, taskVars
<1> QED
  BY <1>1, <1>2, <1>3, <1>4, <1>5, <1>6, <1>7 DEF Next

LEMMA NextTyped ==
  ASSUME TypeOK, RunLoads, [Next]_vars
  PROVE  TypeOK'
<1>1. CASE Emit
  BY <1>1, EmitTyped
<1>2. CASE Consumer
  BY <1>2, ConsumerTyped
<1>3. CASE Flusher
  BY <1>3, FlusherTyped
<1>4. ASSUME NEW l \in Loaders, Load(l) \/ LoadFailed(l) PROVE TypeOK'
  BY <1>4, LoadTyped, LoadFailedTyped
<1>5. ASSUME NEW l \in Reloads, ReloadRequested(l) \/ SyncCommitted(l) PROVE TypeOK'
  BY <1>5, ReloadTyped DEF Loaders
<1>6. CASE Shutdown
  BY <1>6, ShutdownTyped
<1>7. CASE UNCHANGED vars
  BY <1>7 DEF TypeOK, vars, connVars, taskVars, flushVars, defVars, dbVars
<1> QED
  BY <1>1, <1>2, <1>3, <1>4, <1>5, <1>6, <1>7 DEF Next

LEMMA Typed == Spec => [](TypeOK /\ RunLoads)
<1>1. Init => TypeOK /\ RunLoads
  BY InitTyped, RunIsLoader DEF Init, RunLoads, NoCall, Call
<1>2. TypeOK /\ RunLoads /\ [Next]_vars => (TypeOK /\ RunLoads)'
  BY NextTyped, RunLoadsKept
<1> QED
  BY <1>1, <1>2, PTL DEF Spec

\* Type correctness (TypeOK): in particular the queue never exceeds its bound, and the
\* consumer holds a sample exactly while it writes an alarm event.
THEOREM TypeCorrect == Spec => []TypeOK
BY Typed, PTL

-----------------------------------------------------------------------------
(* Batches.                                                                 *)

LEMMA BatchSizeIs == BatchSize \in Nat \ {0}
BY PipelineAssumption

Sized ==
  /\ IsFiniteSet(buffer) /\ Cardinality(buffer) < BatchSize
  /\ IsFiniteSet(flBatch) /\ Cardinality(flBatch) < BatchSize
  /\ IsFiniteSet(batch) /\ Cardinality(batch) <= BatchSize

\* A finite set that holds at most n elements.
AtMost(b, n) == IsFiniteSet(b) /\ Cardinality(b) <= n

LEMMA UnwindSized ==
  ASSUME NEW b, NEW r, NEW d, AtMost(b, BatchSize), Unwind(b, r, d)
  PROVE  Sized'
BY FS_EmptySet, BatchSizeIs DEF Unwind, Sized, AtMost

LEMMA LoopHeadSized ==
  ASSUME Sized, NEW b, NEW r, NEW d, AtMost(b, BatchSize), ~ Full(b), LoopHead(b, r, d)
  PROVE  Sized'
<1>1. CASE Unwind(b, r, d)
  BY <1>1, UnwindSized
<1>2. CASE ~ Unwind(b, r, d)
  <2>1. Cardinality(b) \in Nat
    BY FS_CardinalityType DEF AtMost
  <2> QED
    BY <1>2, <2>1, FS_EmptySet, BatchSizeIs DEF LoopHead, Sized, AtMost, Full, flushVars
<1> QED
  BY <1>1, <1>2

LEMMA AfterHandlingSized ==
  ASSUME Sized, NEW b, NEW d, AtMost(b, BatchSize), AfterHandling(b, d)
  PROVE  Sized'
<1>1. CASE Full(b)
  BY <1>1, FS_EmptySet, BatchSizeIs DEF AfterHandling, Sized, AtMost, flushVars
<1>2. CASE ~ Full(b)
  BY <1>2, LoopHeadSized DEF AfterHandling
<1> QED
  BY <1>1, <1>2

LEMMA SizedBuffer ==
  ASSUME Sized
  PROVE  /\ AtMost(buffer, BatchSize)
         /\ \A row : AtMost(buffer \cup {row}, BatchSize)
<1>1. Cardinality(buffer) \in Nat
  BY FS_CardinalityType DEF Sized
<1>2. ASSUME NEW row PROVE AtMost(buffer \cup {row}, BatchSize)
  <2>1. /\ IsFiniteSet(buffer \cup {row})
        /\ Cardinality(buffer \cup {row})
             = IF row \in buffer THEN Cardinality(buffer) ELSE Cardinality(buffer) + 1
    BY FS_AddElement DEF Sized
  <2> QED
    BY <1>1, <2>1, BatchSizeIs DEF Sized, AtMost
<1>3. AtMost(buffer, BatchSize)
  BY <1>1, BatchSizeIs DEF Sized, AtMost
<1> QED
  BY <1>2, <1>3

LEMMA EvaluateSized ==
  ASSUME Sized, NEW w, Evaluate(w)
  PROVE  Sized'
<1>1. CASE Flip(w)
  BY <1>1 DEF Flip, Sized, flushVars
<1>2. ASSUME NEW s, NEW m, Archive(s, m) PROVE Sized'
  BY <1>2, SizedBuffer, AfterHandlingSized, UnwindSized
  DEF Archive, Unarchived, DeadbandCheckRaises, Filtered, Stored
<1> QED
  BY <1>1, <1>2 DEF Evaluate

LEMMA NextSized ==
  ASSUME Sized, [Next]_vars
  PROVE  Sized'
<1>0. AtMost(buffer, BatchSize) /\ ~ Full(buffer)
  <2>1. Cardinality(buffer) \in Nat
    BY FS_CardinalityType DEF Sized
  <2> QED
    BY <2>1, SizedBuffer, BatchSizeIs DEF Sized, Full
<1>1. CASE Take
  BY <1>0, <1>1, AfterHandlingSized, UnwindSized, EvaluateSized
  DEF Take, TakeUnknown, TakeUncoercible, TakeKnown
<1>2. CASE JournalWritten
  BY <1>2, EvaluateSized DEF JournalWritten
<1>3. CASE JournalFailed \/ FlushFailed
  BY <1>0, <1>3, UnwindSized DEF JournalFailed, FlushFailed
<1>4. CASE FlushCommitted
  BY <1>0, <1>4, LoopHeadSized DEF FlushCommitted
<1>5. CASE FinalCommitted \/ FinalFailed
  BY <1>5, FS_EmptySet, BatchSizeIs DEF FinalCommitted, FinalFailed, Sized, flushVars
<1>6. CASE Flusher
  BY <1>6, FS_EmptySet, BatchSizeIs
  DEF Flusher, FlusherWakes, FlusherCommitted, FlusherFailed, Sized, taskVars
<1>7. CASE Emit \/ UNCHANGED vars
  BY <1>7 DEF Emit, vars, Sized, taskVars, flushVars
<1>8. ASSUME NEW l, Load(l) \/ LoadFailed(l) \/ ReloadRequested(l) \/ SyncCommitted(l)
      PROVE  Sized'
  <2>1. UNCHANGED <<buffer, flBatch, batch>>
    BY <1>8
    DEF Load, LoadBegins, TagsRead, TagsApplied, AlarmsRead, AlarmsApplied, LoadFailed,
        ReloadRequested, SyncCommitted, taskVars, flushVars
  <2> QED
    BY <2>1 DEF Sized
<1>9. CASE Shutdown
  <2>1. CASE ShutdownLoading \/ ShutdownDead
    BY <2>1 DEF ShutdownLoading, ShutdownDead, Sized, flushVars
  <2>2. CASE ShutdownWaiting
    BY <1>0, <2>2, UnwindSized DEF ShutdownWaiting, Sized, flushVars
  <2>3. CASE ShutdownJournalling \/ ShutdownFlushing
    BY <1>0, <2>3, UnwindSized DEF ShutdownJournalling, ShutdownFlushing
  <2> QED
    BY <1>9, <2>1, <2>2, <2>3 DEF Shutdown
<1> QED
  BY <1>1, <1>2, <1>3, <1>4, <1>5, <1>6, <1>7, <1>8, <1>9 DEF Next, Consumer

\* BatchesBounded: whatever the interleaving of the two tasks that flush, a failure or a
\* shutdown, no commit writes more than ingest_batch_size rows.
THEOREM BatchesAreBounded == Spec => []BatchesBounded
<1>1. Init => Sized
  BY FS_EmptySet, PipelineAssumption DEF Init, Sized
<1>2. Sized /\ [Next]_vars => Sized'
  BY NextSized
<1>3. Sized => BatchesBounded
  BY DEF Sized, BatchesBounded
<1> QED
  BY <1>1, <1>2, <1>3, PTL DEF Spec

-----------------------------------------------------------------------------
(* Conservation.  Moving samples from one place to another keeps a          *)
(* partition; every step of the pipeline is one or two such moves.          *)

LEMMA HandMoves ==
  ASSUME NEW Q, NEW H, NEW B, NEW C, NEW F, NEW R, NEW D, NEW n,
         Partition(Q, H, B, C, F, R, D, n)
  PROVE  /\ Partition(Q, {}, B \cup H, C, F, R, D, n)
         /\ Partition(Q, {}, B, C, F, R, D \cup H, n)
BY DEF Partition

LEMMA BatchMoves ==
  ASSUME NEW Q, NEW H, NEW B, NEW C, NEW F, NEW R, NEW D, NEW n,
         Partition(Q, H, B, C, F, R, D, n)
  PROVE  /\ Partition(Q, H, B, {}, F, R \cup C, D, n)
         /\ Partition(Q, H, B, {}, F, R, D \cup C, n)
BY DEF Partition

LEMMA FlBatchMoves ==
  ASSUME NEW Q, NEW H, NEW B, NEW C, NEW F, NEW R, NEW D, NEW n,
         Partition(Q, H, B, C, F, R, D, n)
  PROVE  /\ Partition(Q, H, B, C, {}, R \cup F, D, n)
         /\ Partition(Q, H, B, C, {}, R, D \cup F, n)
BY DEF Partition

LEMMA BufferMoves ==
  ASSUME NEW Q, NEW H, NEW B, NEW C, NEW F, NEW R, NEW D, NEW n,
         Partition(Q, H, B, C, F, R, D, n)
  PROVE  /\ C = {} => Partition(Q, H, {}, B, F, R, D, n)
         /\ F = {} => Partition(Q, H, {}, C, B, R, D, n)
BY DEF Partition

LEMMA QueueMoves ==
  ASSUME NEW Q, NEW B, NEW C, NEW F, NEW R, NEW D, NEW n,
         NEW T, NEW i, Q = T \cup {i}, i \notin T,
         Partition(Q, {}, B, C, F, R, D, n)
  PROVE  Partition(T, {i}, B, C, F, R, D, n)
BY DEF Partition

LEMMA Arrives ==
  ASSUME NEW Q, NEW H, NEW B, NEW C, NEW F, NEW R, NEW D, NEW n \in Nat,
         Partition(Q, H, B, C, F, R, D, n)
  PROVE  /\ Partition(Q \cup {n + 1}, H, B, C, F, R, D, n + 1)
         /\ Partition(Q, H, B, C, F, R, D \cup {n + 1}, n + 1)
<1>1. 1 .. n + 1 = (1 .. n) \cup {n + 1} /\ n + 1 \notin 1 .. n
  OBVIOUS
<1> QED
  BY <1>1 DEF Partition

\* The ids of what moves.
LEMMA IdsUnion ==
  ASSUME NEW A, NEW B
  PROVE  Ids(A \cup B) = Ids(A) \cup Ids(B)
BY DEF Ids

LEMMA IdsEmpty == Ids({}) = {}
BY DEF Ids

LEMMA IdsWithout ==
  ASSUME NEW ids, NEW why
  PROVE  Ids(Without(ids, why)) = ids
<1>1. ASSUME NEW i \in ids PROVE i \in Ids(Without(ids, why))
  <2>1. [id |-> i, why |-> why] \in Without(ids, why) /\ [id |-> i, why |-> why].id = i
    BY <1>1 DEF Without
  <2> QED
    BY <2>1 DEF Ids
<1>2. ASSUME NEW i \in Ids(Without(ids, why)) PROVE i \in ids
  BY <1>2 DEF Ids, Without
<1> QED
  BY <1>1, <1>2

LEMMA IdsLost ==
  ASSUME NEW R, NEW why
  PROVE  Ids(Lost(R, why)) = Ids(R)
<1>1. Ids(Lost(R, why)) = {r.id : r \in R}
  BY IdsWithout DEF Lost
<1> QED
  BY <1>1 DEF Ids

\* Where the samples are, those in the queue and in hand given apart.
Placed(Q, H, b, c, f, r, d) ==
  Partition(Q, H, Ids(b), Ids(c), Ids(f), Ids(r), Ids(d), emitted)

LEMMA UnwindKeeps ==
  ASSUME NEW Q, NEW b, NEW r, NEW d, Placed(Q, {}, b, {}, flBatch, r, d), Unwind(b, r, d)
  PROVE  Placed(Q, InHand', buffer', batch', flBatch', rows', dropped')
<1>1. Placed(Q, {}, {}, b, flBatch, r, d)
  BY BufferMoves, IdsEmpty DEF Placed
<1>2. /\ Placed(Q, {}, {}, b, {}, r \cup flBatch, d)
      /\ Placed(Q, {}, {}, b, {}, r, d \cup Lost(flBatch, "interrupted"))
  <2>1. Ids(r \cup flBatch) = Ids(r) \cup Ids(flBatch)
    BY IdsUnion
  <2>2. Ids(d \cup Lost(flBatch, "interrupted")) = Ids(d) \cup Ids(flBatch)
    BY IdsUnion, IdsLost
  <2>3. Partition(Q, {}, {}, Ids(b), Ids(flBatch), Ids(r), Ids(d), emitted)
    BY <1>1, IdsEmpty DEF Placed
  <2>4. /\ Partition(Q, {}, {}, Ids(b), {}, Ids(r) \cup Ids(flBatch), Ids(d), emitted)
        /\ Partition(Q, {}, {}, Ids(b), {}, Ids(r), Ids(d) \cup Ids(flBatch), emitted)
    BY <2>3, FlBatchMoves
  <2> QED
    BY <2>1, <2>2, <2>4, IdsEmpty DEF Placed
<1>3. InHand' = {}
  BY DEF Unwind, InHand
<1> QED
  BY <1>2, <1>3 DEF Unwind

LEMMA LoopHeadKeeps ==
  ASSUME NEW Q, NEW b, NEW r, NEW d, Placed(Q, {}, b, {}, flBatch, r, d), LoopHead(b, r, d)
  PROVE  Placed(Q, InHand', buffer', batch', flBatch', rows', dropped')
<1>1. CASE Unwind(b, r, d)
  BY <1>1, UnwindKeeps
<1>2. CASE ~ Unwind(b, r, d)
  BY <1>2 DEF LoopHead, InHand, flushVars
<1> QED
  BY <1>1, <1>2

LEMMA AfterHandlingKeeps ==
  ASSUME NEW Q, NEW b, NEW d, Placed(Q, {}, b, {}, flBatch, rows, d), AfterHandling(b, d)
  PROVE  Placed(Q, InHand', buffer', batch', flBatch', rows', dropped')
<1>1. CASE Full(b)
  <2>1. Placed(Q, {}, {}, b, flBatch, rows, d)
    BY BufferMoves, IdsEmpty DEF Placed
  <2>2. InHand' = {}
    BY <1>1 DEF AfterHandling, InHand
  <2> QED
    BY <1>1, <2>1, <2>2 DEF AfterHandling, flushVars
<1>2. CASE ~ Full(b)
  BY <1>2, LoopHeadKeeps DEF AfterHandling
<1> QED
  BY <1>1, <1>2

\* The sample the consumer has taken ends in the buffer or is dropped.
LEMMA HandSettles ==
  ASSUME NEW Q, NEW i, Placed(Q, {i}, buffer, {}, flBatch, rows, dropped)
  PROVE  /\ \A why : Placed(Q, {}, buffer, {}, flBatch, rows, dropped \cup Without({i}, why))
         /\ \A row : row.id = i => Placed(Q, {}, buffer \cup {row}, {}, flBatch, rows, dropped)
<1>1. ASSUME NEW why
      PROVE  Placed(Q, {}, buffer, {}, flBatch, rows, dropped \cup Without({i}, why))
  <2>1. Ids(dropped \cup Without({i}, why)) = Ids(dropped) \cup {i}
    BY IdsUnion, IdsWithout
  <2>2. Partition(Q, {i}, Ids(buffer), Ids({}), Ids(flBatch), Ids(rows), Ids(dropped), emitted)
    BY DEF Placed
  <2>3. Partition(Q, {}, Ids(buffer), Ids({}), Ids(flBatch), Ids(rows), Ids(dropped) \cup {i},
                  emitted)
    BY <2>2, HandMoves
  <2> QED
    BY <2>1, <2>3 DEF Placed
<1>2. ASSUME NEW row, row.id = i
      PROVE  Placed(Q, {}, buffer \cup {row}, {}, flBatch, rows, dropped)
  <2>1. Ids({row}) = {i}
    BY <1>2 DEF Ids
  <2>2. Ids(buffer \cup {row}) = Ids(buffer) \cup {i}
    BY <2>1, IdsUnion
  <2>3. Partition(Q, {i}, Ids(buffer), Ids({}), Ids(flBatch), Ids(rows), Ids(dropped), emitted)
    BY DEF Placed
  <2>4. Partition(Q, {}, Ids(buffer) \cup {i}, Ids({}), Ids(flBatch), Ids(rows), Ids(dropped),
                  emitted)
    BY <2>3, HandMoves
  <2> QED
    BY <2>2, <2>4 DEF Placed
<1> QED
  BY <1>1, <1>2

LEMMA ArchiveKeeps ==
  ASSUME NEW Q, NEW s, NEW m, Placed(Q, {s.id}, buffer, {}, flBatch, rows, dropped),
         Archive(s, m)
  PROVE  Placed(Q, InHand', buffer', batch', flBatch', rows', dropped')
<1>1. CASE Unarchived(s, m)
  BY <1>1, HandSettles, AfterHandlingKeeps DEF Unarchived
<1>2. CASE DeadbandCheckRaises(s, m)
  BY <1>2, HandSettles, UnwindKeeps DEF DeadbandCheckRaises
<1>3. CASE Filtered(s, m)
  BY <1>3, HandSettles, AfterHandlingKeeps DEF Filtered
<1>4. CASE Stored(s, m)
  <2> DEFINE row == [id |-> s.id, tag |-> s.tag, float |-> FloatOf(s.value, m.type)]
  <2>1. Placed(Q, {}, buffer \cup {row}, {}, flBatch, rows, dropped)
    BY HandSettles
  <2>2. AfterHandling(buffer \cup {row}, dropped)
    BY <1>4 DEF Stored
  <2> QED
    BY <2>1, <2>2, AfterHandlingKeeps
<1> QED
  BY <1>1, <1>2, <1>3, <1>4 DEF Archive

LEMMA EvaluateKeeps ==
  ASSUME NEW Q, NEW w, Placed(Q, {w.sample.id}, buffer, batch, flBatch, rows, dropped),
         batch = {}, Evaluate(w),
         w = [sample |-> w.sample, meta |-> w.meta, states |-> w.states,
              cursor |-> w.cursor, detached |-> w.detached]
  PROVE  Placed(Q, InHand', buffer', batch', flBatch', rows', dropped')
<1>1. CASE Flip(w)
  <2>1. InHand' = {w.sample.id}
    BY <1>1 DEF Flip, InHand
  <2> QED
    BY <1>1, <2>1 DEF Flip, flushVars
<1>2. CASE Archive(w.sample, w.meta)
  BY <1>2, ArchiveKeeps
<1> QED
  BY <1>1, <1>2 DEF Evaluate

\* The two tasks hold a batch only while they commit it.
Aside ==
  /\ pc = "load" => flusher = "none"
  /\ pc \in {"flush", "final"} \/ batch = {}
  /\ flusher = "commit" \/ flBatch = {}

LEMMA UnwindAside ==
  ASSUME NEW b, NEW r, NEW d, Unwind(b, r, d)
  PROVE  Aside'
BY DEF Unwind, Aside

LEMMA LoopAside ==
  ASSUME Aside, NEW b, NEW r, NEW d, LoopHead(b, r, d) \/ AfterHandling(b, d)
  PROVE  Aside'
<1>1. ASSUME NEW x, NEW y, NEW z, LoopHead(x, y, z)
      PROVE  Aside'
  <2>1. CASE Unwind(x, y, z)
    BY <2>1, UnwindAside
  <2>2. CASE ~ Unwind(x, y, z)
    BY <1>1, <2>2 DEF LoopHead, Aside, flushVars
  <2> QED
    BY <2>1, <2>2
<1>2. CASE Full(b) /\ AfterHandling(b, d)
  BY <1>2 DEF AfterHandling, Aside, flushVars
<1> QED
  BY <1>1, <1>2 DEF AfterHandling

LEMMA EvaluateAside ==
  ASSUME Aside, batch = {}, NEW w, Evaluate(w)
  PROVE  Aside'
<1>1. CASE Flip(w)
  BY <1>1 DEF Flip, Aside, flushVars
<1>2. ASSUME NEW s, NEW m, Archive(s, m) PROVE Aside'
  BY <1>2, LoopAside, UnwindAside
  DEF Archive, Unarchived, DeadbandCheckRaises, Filtered, Stored
<1> QED
  BY <1>1, <1>2 DEF Evaluate

LEMMA NextAside ==
  ASSUME RunLoads, Aside, [Next]_vars
  PROVE  Aside'
<1>1. CASE Take
  BY <1>1, LoopAside, UnwindAside, EvaluateAside
  DEF Take, TakeUnknown, TakeUncoercible, TakeKnown, Aside
<1>2. CASE JournalWritten
  BY <1>2, EvaluateAside DEF JournalWritten, Aside
<1>3. CASE JournalFailed \/ FlushFailed
  BY <1>3, UnwindAside DEF JournalFailed, FlushFailed
<1>4. CASE FlushCommitted
  BY <1>4, LoopAside DEF FlushCommitted
<1>5. CASE FinalCommitted \/ FinalFailed
  BY <1>5 DEF FinalCommitted, FinalFailed, Aside, flushVars
<1>6. CASE Flusher
  BY <1>6 DEF Flusher, FlusherWakes, FlusherCommitted, FlusherFailed, Aside, taskVars
<1>7. CASE Emit \/ UNCHANGED vars
  BY <1>7 DEF Emit, vars, Aside, taskVars, flushVars
<1>8. ASSUME NEW l, Load(l) \/ LoadFailed(l) \/ ReloadRequested(l) \/ SyncCommitted(l)
      PROVE  Aside'
  <2>1. /\ UNCHANGED <<flBatch, batch>>
        /\ UNCHANGED <<pc, flusher>> \/ (pc = "load" /\ pc' \in {"get", "done"})
    BY <1>8 DEF RunLoads, At, Load, LoadBegins, TagsRead, TagsApplied, AlarmsRead, AlarmsApplied, LoadFailed,
        ReloadRequested, SyncCommitted, taskVars, flushVars
  <2> QED
    BY <2>1 DEF Aside
<1>9. CASE Shutdown
  <2>1. CASE ShutdownLoading \/ ShutdownDead
    BY <2>1 DEF ShutdownLoading, ShutdownDead, Aside, flushVars
  <2>2. CASE ShutdownWaiting
    BY <2>2, UnwindAside DEF ShutdownWaiting, Aside, flushVars
  <2>3. CASE ShutdownJournalling \/ ShutdownFlushing
    BY <2>3, UnwindAside DEF ShutdownJournalling, ShutdownFlushing
  <2> QED
    BY <1>9, <2>1, <2>2, <2>3 DEF Shutdown
<1> QED
  BY <1>1, <1>2, <1>3, <1>4, <1>5, <1>6, <1>7, <1>8, <1>9 DEF Next, Consumer

\* The queue loses its head at a take, and gains the sample a connector emits.
LEMMA TailQueue ==
  ASSUME queue \in Seq(Sample), queue # <<>>, queue' = Tail(queue), Ordered(queue)
  PROVE  /\ Queued = Queued' \cup {Head(queue).id}
         /\ Head(queue).id \notin Queued'
         /\ Ordered(queue')
<1>1. /\ DOMAIN queue = 1 .. Len(queue) /\ Len(queue) \in Nat /\ Len(queue) >= 1
      /\ DOMAIN queue' = 1 .. Len(queue) - 1
      /\ \A i \in 1 .. Len(queue) - 1 : queue'[i] = queue[i + 1]
      /\ Head(queue) = queue[1]
  OBVIOUS
<1>2. \A i \in 1 .. Len(queue) : queue[i].id \in Nat
  <2>1. \A i \in 1 .. Len(queue) : queue[i] \in Sample
    BY <1>1
  <2> QED
    BY <2>1, PipelineAssumption DEF Sample, SampleIds
<1>3. Ordered(queue')
  BY <1>1 DEF Ordered
<1>4. Head(queue).id \notin Queued'
  <2>1. \A i \in DOMAIN queue' : queue[1].id < queue'[i].id
    BY <1>1 DEF Ordered
  <2> QED
    BY <2>1, <1>1, <1>2 DEF Queued
<1>5. Queued = Queued' \cup {Head(queue).id}
  <2>1. ASSUME NEW x \in Queued PROVE x \in Queued' \cup {Head(queue).id}
    <3>1. PICK i \in 1 .. Len(queue) : x = queue[i].id
      BY <1>1, <2>1 DEF Queued
    <3>2. CASE i # 1
      <4>1. i - 1 \in DOMAIN queue' /\ x = queue'[i - 1].id
        BY <1>1, <3>1, <3>2
      <4> QED
        BY <4>1 DEF Queued
    <3> QED
      BY <1>1, <3>1, <3>2
  <2>2. ASSUME NEW x \in Queued' PROVE x \in Queued
    <3>1. PICK i \in 1 .. Len(queue) - 1 : x = queue'[i].id
      BY <1>1, <2>2 DEF Queued
    <3>2. i + 1 \in DOMAIN queue /\ x = queue[i + 1].id
      BY <1>1, <3>1
    <3> QED
      BY <3>2 DEF Queued
  <2>3. Head(queue).id \in Queued
    BY <1>1 DEF Queued
  <2> QED
    BY <2>1, <2>2, <2>3
<1> QED
  BY <1>3, <1>4, <1>5

LEMMA GrowQueue ==
  ASSUME queue \in Seq(Sample), NEW s \in Sample, queue' = Append(queue, s), Ordered(queue),
         \A x \in Queued : x < s.id
  PROVE  Queued' = Queued \cup {s.id} /\ Ordered(queue')
<1>1. /\ DOMAIN queue = 1 .. Len(queue) /\ Len(queue) \in Nat
      /\ DOMAIN queue' = 1 .. Len(queue) + 1
      /\ \A i \in 1 .. Len(queue) : queue'[i] = queue[i]
      /\ queue'[Len(queue) + 1] = s
  OBVIOUS
<1>2. \A i \in 1 .. Len(queue) : queue[i].id < s.id
  BY <1>1 DEF Queued
<1>3. Ordered(queue')
  BY <1>1, <1>2 DEF Ordered
<1>4. ASSUME NEW x \in Queued' PROVE x \in Queued \cup {s.id}
  <2>1. PICK i \in 1 .. Len(queue) + 1 : x = queue'[i].id
    BY <1>1, <1>4 DEF Queued
  <2>2. CASE i \in 1 .. Len(queue)
    BY <1>1, <2>1, <2>2 DEF Queued
  <2> QED
    BY <1>1, <2>1, <2>2
<1>5. ASSUME NEW x \in Queued PROVE x \in Queued'
  <2>1. PICK i \in 1 .. Len(queue) : x = queue[i].id
    BY <1>1, <1>5 DEF Queued
  <2>2. i \in DOMAIN queue' /\ x = queue'[i].id
    BY <1>1, <2>1
  <2> QED
    BY <2>2 DEF Queued
<1>6. s.id \in Queued'
  <2>1. Len(queue) + 1 \in DOMAIN queue' /\ queue'[Len(queue) + 1].id = s.id
    BY <1>1
  <2> QED
    BY <2>1 DEF Queued
<1> QED
  BY <1>3, <1>4, <1>5, <1>6

\* The inductive invariant: the samples are partitioned, and what the partition needs of
\* the two tasks' batches.
Conserved == EachSampleInOnePlace /\ Aside

\* The batch of the consumer ends in the table or is dropped, and so does the flusher's.
LEMMA BatchSettles ==
  ASSUME NEW Q, NEW H, NEW b, NEW c, NEW f, NEW why, Placed(Q, H, b, c, f, rows, dropped)
  PROVE  /\ Placed(Q, H, b, {}, f, rows \cup c, dropped)
         /\ Placed(Q, H, b, {}, f, rows, dropped \cup Lost(c, why))
<1>1. /\ Ids(rows \cup c) = Ids(rows) \cup Ids(c)
      /\ Ids(dropped \cup Lost(c, why)) = Ids(dropped) \cup Ids(c)
  BY IdsUnion, IdsLost
<1>2. Partition(Q, H, Ids(b), Ids(c), Ids(f), Ids(rows), Ids(dropped), emitted)
  BY DEF Placed
<1>3. /\ Partition(Q, H, Ids(b), {}, Ids(f), Ids(rows) \cup Ids(c), Ids(dropped), emitted)
      /\ Partition(Q, H, Ids(b), {}, Ids(f), Ids(rows), Ids(dropped) \cup Ids(c), emitted)
  BY <1>2, BatchMoves
<1> QED
  BY <1>1, <1>3, IdsEmpty DEF Placed

LEMMA FlBatchSettles ==
  ASSUME NEW Q, NEW H, NEW b, NEW c, NEW f, NEW why, Placed(Q, H, b, c, f, rows, dropped)
  PROVE  /\ Placed(Q, H, b, c, {}, rows \cup f, dropped)
         /\ Placed(Q, H, b, c, {}, rows, dropped \cup Lost(f, why))
<1>1. /\ Ids(rows \cup f) = Ids(rows) \cup Ids(f)
      /\ Ids(dropped \cup Lost(f, why)) = Ids(dropped) \cup Ids(f)
  BY IdsUnion, IdsLost
<1>2. Partition(Q, H, Ids(b), Ids(c), Ids(f), Ids(rows), Ids(dropped), emitted)
  BY DEF Placed
<1>3. /\ Partition(Q, H, Ids(b), Ids(c), {}, Ids(rows) \cup Ids(f), Ids(dropped), emitted)
      /\ Partition(Q, H, Ids(b), Ids(c), {}, Ids(rows), Ids(dropped) \cup Ids(f), emitted)
  BY <1>2, FlBatchMoves
<1> QED
  BY <1>1, <1>3, IdsEmpty DEF Placed

\* A move of the consumer that leaves the queue alone.
LEMMA PlacedKept ==
  ASSUME Ordered(queue), UNCHANGED <<queue, emitted>>,
         Placed(Queued, InHand', buffer', batch', flBatch', rows', dropped')
  PROVE  EachSampleInOnePlace'
BY DEF EachSampleInOnePlace, Placed, Queued, Ordered

LEMMA TakeKeeps ==
  ASSUME TypeOK, Conserved, Take
  PROVE  EachSampleInOnePlace'
<1> DEFINE s == Head(queue)
<1>1. /\ Queued = Queued' \cup {s.id} /\ s.id \notin Queued'
      /\ Ordered(queue')
  BY TailQueue DEF Take, TypeOK, Conserved, EachSampleInOnePlace
<1>2. InHand = {} /\ batch = {}
  BY DEF Take, Conserved, Aside, InHand
<1>3. Placed(Queued, {}, buffer, {}, flBatch, rows, dropped)
  BY <1>2 DEF Conserved, EachSampleInOnePlace, Placed
<1>4. Placed(Queued', {s.id}, buffer, {}, flBatch, rows, dropped)
  BY <1>1, <1>3, QueueMoves DEF Placed
<1> SUFFICES Placed(Queued', InHand', buffer', batch', flBatch', rows', dropped')
  BY <1>1 DEF Placed, EachSampleInOnePlace, Take
<1>5. CASE TakeUnknown(s)
  BY <1>4, <1>5, HandSettles, AfterHandlingKeeps DEF TakeUnknown
<1>6. CASE TakeUncoercible(s)
  BY <1>4, <1>6, HandSettles, UnwindKeeps DEF TakeUncoercible
<1>7. CASE TakeKnown(s)
  <2> DEFINE w == [sample |-> s, meta |-> meta[s.tag], states |-> StatesOf(s.tag),
                   cursor |-> 0, detached |-> FALSE]
  <2>1. /\ w.sample = s /\ w.meta = meta[s.tag] /\ w.states = StatesOf(s.tag)
        /\ w.cursor = 0 /\ w.detached = FALSE
    OBVIOUS
  <2>2. Evaluate(w)
    BY <1>7 DEF TakeKnown
  <2>3. w = [sample |-> w.sample, meta |-> w.meta, states |-> w.states,
             cursor |-> w.cursor, detached |-> w.detached]
    OBVIOUS
  <2> HIDE DEF w
  <2> QED
    BY <2>1, <2>2, <2>3, <1>2, <1>4, EvaluateKeeps
<1> QED
  BY <1>5, <1>6, <1>7 DEF Take

LEMMA ConsumerKeeps ==
  ASSUME TypeOK, Conserved, Consumer
  PROVE  EachSampleInOnePlace'
<1>0. Placed(Queued, InHand, buffer, batch, flBatch, rows, dropped) /\ Ordered(queue)
  BY DEF Conserved, EachSampleInOnePlace, Placed
<1>1. CASE Take
  BY <1>1, TakeKeeps
<1>2. CASE JournalWritten
  <2>1. InHand = {work.sample.id} /\ batch = {}
    BY <1>2 DEF JournalWritten, InHand, Conserved, Aside
  <2>2. Evaluate(work) /\ WorkOK(work) /\ UNCHANGED <<queue, emitted>>
    BY <1>2 DEF JournalWritten, TypeOK, connVars
  <2>3. Placed(Queued, InHand', buffer', batch', flBatch', rows', dropped')
    BY <1>0, <2>1, <2>2, EvaluateKeeps DEF WorkOK
  <2> QED
    BY <1>0, <2>2, <2>3, PlacedKept
<1>3. CASE JournalFailed
  <2>1. InHand = {work.sample.id} /\ batch = {}
    BY <1>3 DEF JournalFailed, InHand, Conserved, Aside
  <2>2. Placed(Queued, InHand', buffer', batch', flBatch', rows', dropped')
    BY <1>0, <1>3, <2>1, HandSettles, UnwindKeeps DEF JournalFailed
  <2> QED
    BY <1>0, <1>3, <2>2, PlacedKept DEF JournalFailed, connVars
<1>4. CASE FlushCommitted \/ FlushFailed
  <2>1. InHand = {}
    BY <1>4 DEF FlushCommitted, FlushFailed, InHand
  <2>2. /\ Placed(Queued, {}, buffer, {}, flBatch, rows \cup batch, dropped)
        /\ Placed(Queued, {}, buffer, {}, flBatch, rows, dropped \cup Lost(batch, "failed"))
    BY <1>0, <2>1, BatchSettles
  <2>3. Placed(Queued, InHand', buffer', batch', flBatch', rows', dropped')
    BY <1>4, <2>2, LoopHeadKeeps, UnwindKeeps DEF FlushCommitted, FlushFailed
  <2> QED
    BY <1>0, <1>4, <2>3, PlacedKept DEF FlushCommitted, FlushFailed, connVars
<1>5. CASE FinalCommitted \/ FinalFailed
  <2>1. InHand = {} /\ InHand' = {}
    BY <1>5 DEF FinalCommitted, FinalFailed, InHand
  <2>2. /\ Placed(Queued, {}, buffer, {}, flBatch, rows \cup batch, dropped)
        /\ Placed(Queued, {}, buffer, {}, flBatch, rows, dropped \cup Lost(batch, "failed"))
    BY <1>0, <2>1, BatchSettles
  <2>3. Placed(Queued, InHand', buffer', batch', flBatch', rows', dropped')
    BY <1>5, <2>1, <2>2 DEF FinalCommitted, FinalFailed, flushVars
  <2> QED
    BY <1>0, <1>5, <2>3, PlacedKept DEF FinalCommitted, FinalFailed, connVars
<1> QED
  BY <1>1, <1>2, <1>3, <1>4, <1>5 DEF Consumer

LEMMA EmitKeeps ==
  ASSUME TypeOK, Conserved, Emit
  PROVE  EachSampleInOnePlace'
<1> DEFINE new(in) == [id |-> emitted + 1, tag |-> in.tag, value |-> in.value,
                       quality |-> in.quality]
<1>1. emitted \in Nat /\ emitted + 1 \in SampleIds /\ emitted' = emitted + 1
  BY PipelineAssumption DEF Emit, TypeOK, SampleIds
<1>2. /\ UNCHANGED <<pc, work, buffer, batch, flBatch, rows>>
      /\ InHand' = InHand
  BY DEF Emit, taskVars, flushVars, InHand
<1>3. Partition(Queued, InHand, Ids(buffer), Ids(batch), Ids(flBatch), Ids(rows), Ids(dropped),
                emitted)
  BY DEF Conserved, EachSampleInOnePlace
<1>4. /\ Partition(Queued \cup {emitted + 1}, InHand, Ids(buffer), Ids(batch), Ids(flBatch),
                   Ids(rows), Ids(dropped), emitted + 1)
      /\ Partition(Queued, InHand, Ids(buffer), Ids(batch), Ids(flBatch), Ids(rows),
                   Ids(dropped) \cup {emitted + 1}, emitted + 1)
  BY <1>1, <1>3, Arrives
<1>5. CASE HasRoom
  <2>1. PICK in \in Inputs : queue' = Append(queue, new(in)) /\ UNCHANGED dropped
    BY <1>5 DEF Emit
  <2>2. new(in) \in Sample /\ new(in).id = emitted + 1
    BY <1>1, PipelineAssumption DEF Sample
  <2> HIDE DEF new
  <2>3. \A x \in Queued : x < new(in).id
    BY <1>1, <1>3, <2>2 DEF Partition
  <2>4. Queued' = Queued \cup {emitted + 1} /\ Ordered(queue')
    BY <2>1, <2>2, <2>3, GrowQueue DEF TypeOK, Conserved, EachSampleInOnePlace
  <2> QED
    BY <1>1, <1>2, <1>4, <2>1, <2>4 DEF EachSampleInOnePlace
<1>6. CASE ~ HasRoom
  <2>1. dropped' = dropped \cup Without({emitted + 1}, "full") /\ UNCHANGED queue
    BY <1>6 DEF Emit
  <2>2. Ids(dropped') = Ids(dropped) \cup {emitted + 1} /\ Queued' = Queued
    BY <2>1, IdsUnion, IdsWithout DEF Queued
  <2> QED
    BY <1>1, <1>2, <1>4, <2>1, <2>2 DEF Conserved, EachSampleInOnePlace, Ordered
<1> QED
  BY <1>5, <1>6

LEMMA FlusherKeeps ==
  ASSUME TypeOK, Conserved, Flusher
  PROVE  EachSampleInOnePlace'
<1>0. /\ Placed(Queued, InHand, buffer, batch, flBatch, rows, dropped) /\ Ordered(queue)
      /\ UNCHANGED <<queue, emitted, batch>> /\ InHand' = InHand
  BY DEF Conserved, EachSampleInOnePlace, Placed, Flusher, FlusherWakes, FlusherCommitted,
         FlusherFailed, connVars, taskVars, InHand
<1>1. CASE FlusherWakes
  <2>1. flBatch = {}
    BY <1>1 DEF FlusherWakes, Conserved, Aside
  <2>2. Placed(Queued, InHand, {}, batch, buffer, rows, dropped)
    BY <1>0, <2>1, BufferMoves, IdsEmpty DEF Placed
  <2> QED
    BY <1>0, <1>1, <2>2, PlacedKept DEF FlusherWakes
<1>2. CASE FlusherCommitted
  <2>1. Placed(Queued, InHand, buffer, batch, {}, rows \cup flBatch, dropped)
    BY <1>0, FlBatchSettles
  <2> QED
    BY <1>0, <1>2, <2>1, PlacedKept DEF FlusherCommitted, taskVars
<1>3. CASE FlusherFailed
  <2>1. Placed(Queued, InHand, buffer, batch, {}, rows, dropped \cup Lost(flBatch, "failed"))
    BY <1>0, FlBatchSettles
  <2> QED
    BY <1>0, <1>3, <2>1, PlacedKept DEF FlusherFailed, taskVars
<1> QED
  BY <1>1, <1>2, <1>3 DEF Flusher

LEMMA ShutdownKeeps ==
  ASSUME TypeOK, Conserved, Shutdown
  PROVE  EachSampleInOnePlace'
<1>0. /\ Placed(Queued, InHand, buffer, batch, flBatch, rows, dropped) /\ Ordered(queue)
      /\ UNCHANGED <<queue, emitted>>
  BY DEF Conserved, EachSampleInOnePlace, Placed, Shutdown, connVars
<1> SUFFICES Placed(Queued, InHand', buffer', batch', flBatch', rows', dropped')
  BY <1>0, PlacedKept
<1>1. CASE ShutdownLoading \/ ShutdownDead
  BY <1>0, <1>1 DEF ShutdownLoading, ShutdownDead, InHand, flushVars
<1>2. CASE ShutdownWaiting
  <2>1. Placed(Queued, {}, buffer, {}, flBatch, rows, dropped) /\ InHand = {}
    BY <1>0, <1>2 DEF ShutdownWaiting, Conserved, Aside, InHand
  <2>2. CASE Unwind(buffer, rows, dropped)
    BY <2>1, <2>2, UnwindKeeps
  <2>3. CASE UNCHANGED <<pc, work, batch, buffer, flushVars, rows, dropped>>
    BY <1>0, <2>3 DEF InHand, flushVars
  <2> QED
    BY <1>2, <2>2, <2>3 DEF ShutdownWaiting
<1>3. CASE ShutdownJournalling
  <2>1. InHand = {work.sample.id} /\ batch = {}
    BY <1>3 DEF ShutdownJournalling, InHand, Conserved, Aside
  <2> QED
    BY <1>0, <1>3, <2>1, HandSettles, UnwindKeeps DEF ShutdownJournalling
<1>4. CASE ShutdownFlushing
  <2>1. InHand = {}
    BY <1>4 DEF ShutdownFlushing, InHand
  <2>2. /\ Placed(Queued, {}, buffer, {}, flBatch, rows \cup batch, dropped)
        /\ Placed(Queued, {}, buffer, {}, flBatch, rows, dropped \cup Lost(batch, "interrupted"))
    BY <1>0, <2>1, BatchSettles
  <2> QED
    BY <1>4, <2>2, UnwindKeeps DEF ShutdownFlushing
<1> QED
  BY <1>1, <1>2, <1>3, <1>4 DEF Shutdown

LEMMA NextKeeps ==
  ASSUME TypeOK, RunLoads, Conserved, [Next]_vars
  PROVE  Conserved'
<1>1. Aside'
  BY NextAside DEF Conserved
<1>2. CASE Emit \/ Consumer \/ Flusher \/ Shutdown
  BY <1>1, <1>2, EmitKeeps, ConsumerKeeps, FlusherKeeps, ShutdownKeeps DEF Conserved
<1>3. ASSUME NEW l \in Loaders,
             Load(l) \/ LoadFailed(l) \/ ReloadRequested(l) \/ SyncCommitted(l)
      PROVE  EachSampleInOnePlace'
  <2>1. UNCHANGED <<queue, emitted, buffer, batch, flBatch, rows, dropped>>
    BY <1>3
    DEF Load, LoadBegins, TagsRead, TagsApplied, AlarmsRead, AlarmsApplied, LoadFailed,
        ReloadRequested, SyncCommitted, connVars, taskVars, flushVars
  <2>2. InHand' = InHand
    <3>1. CASE AlarmsApplied(l)
      <4>1. pc = "journal" => work'.sample = work.sample
        BY <3>1 DEF AlarmsApplied, TypeOK, WorkOK
      <4>2. l = "run" => pc = "load"
        BY <3>1 DEF AlarmsApplied, At, RunLoads
      <4> QED
        BY <3>1, <4>1, <4>2 DEF AlarmsApplied, InHand
    <3>2. CASE LoadFailed(l)
      BY <3>2 DEF LoadFailed, InHand, RunLoads
    <3> QED
      BY <1>3, <3>1, <3>2
      DEF Load, LoadBegins, TagsRead, TagsApplied, AlarmsRead, ReloadRequested, SyncCommitted,
          taskVars, InHand
  <2> QED
    BY <2>1, <2>2 DEF Conserved, EachSampleInOnePlace, Queued, Ordered
<1>4. CASE UNCHANGED vars
  BY <1>4 DEF vars, connVars, taskVars, flushVars, Conserved, EachSampleInOnePlace, Queued,
              Ordered, InHand, Aside
<1> QED
  BY <1>1, <1>2, <1>3, <1>4 DEF Next, Conserved, Loaders

\* EachSampleInOnePlace: across both tasks that flush, failed and cancelled commits,
\* reloads and shutdown, no sample is archived twice or lost without a reason.
THEOREM SamplesAreConserved == Spec => []EachSampleInOnePlace
<1>1. Init => Conserved
  <2> SUFFICES ASSUME Init PROVE Conserved
    OBVIOUS
  <2>1. Queued = {} /\ InHand = {} /\ Ordered(queue)
    BY DEF Init, Queued, InHand, Ordered
  <2> QED
    BY <2>1, IdsEmpty DEF Init, Conserved, EachSampleInOnePlace, Partition, Aside
<1>2. TypeOK /\ RunLoads /\ Conserved /\ [Next]_vars => Conserved'
  BY NextKeeps
<1>3. Conserved => EachSampleInOnePlace
  BY DEF Conserved
<1> QED
  BY <1>1, <1>2, <1>3, Typed, PTL DEF Spec

-----------------------------------------------------------------------------
(* The pipeline implements the abstract historian.  That the samples a step*)
(* settles were pending follows from EachSampleInOnePlace; what is left is *)
(* that nothing that is settled is undone.                                 *)

\* What a step may do to the tables, and to the samples it drops.
Kept(r, d) == r \subseteq rows' /\ d \subseteq dropped'

Recorded == journal' = journal \/ \E e \in Event : journal' = Append(journal, e)

LEMMA UnwindGrows ==
  ASSUME NEW b, NEW r, NEW d, Unwind(b, r, d)
  PROVE  Kept(r, d)
BY DEF Unwind, Kept

LEMMA LoopHeadGrows ==
  ASSUME NEW b, NEW r, NEW d, LoopHead(b, r, d)
  PROVE  Kept(r, d)
BY UnwindGrows DEF LoopHead, Kept

LEMMA AfterHandlingGrows ==
  ASSUME NEW b, NEW d, AfterHandling(b, d)
  PROVE  Kept(rows, d)
BY LoopHeadGrows DEF AfterHandling, Kept

LEMMA EvaluateGrows ==
  ASSUME NEW w, Evaluate(w)
  PROVE  Kept(rows, dropped)
<1>1. CASE Flip(w)
  BY <1>1 DEF Flip, Kept
<1>2. ASSUME NEW s, NEW m, Archive(s, m) PROVE Kept(rows, dropped)
  <2>1. ASSUME NEW b, NEW D, AfterHandling(b, dropped \cup D) PROVE Kept(rows, dropped)
    BY <2>1, AfterHandlingGrows DEF Kept
  <2>2. ASSUME NEW b, NEW D, Unwind(b, rows, dropped \cup D) PROVE Kept(rows, dropped)
    BY <2>2, UnwindGrows DEF Kept
  <2>3. CASE Unarchived(s, m)
    BY <2>3, <2>1 DEF Unarchived
  <2>4. CASE DeadbandCheckRaises(s, m)
    BY <2>4, <2>2 DEF DeadbandCheckRaises
  <2>5. CASE Filtered(s, m)
    BY <2>5, <2>1 DEF Filtered
  <2>6. CASE Stored(s, m)
    BY <2>6, AfterHandlingGrows DEF Stored
  <2> QED
    BY <1>2, <2>3, <2>4, <2>5, <2>6 DEF Archive
<1> QED
  BY <1>1, <1>2 DEF Evaluate

\* The consumer's steps, which alone write alarm events while the program is up.
LEMMA ConsumerGrows ==
  ASSUME TypeOK, Consumer
  PROVE  Kept(rows, dropped) /\ Recorded /\ UNCHANGED <<emitted, stop>>
<1>1. CASE Take
  <2>1. ASSUME NEW s, TakeUnknown(s) PROVE Kept(rows, dropped)
    BY <2>1, AfterHandlingGrows DEF TakeUnknown, Kept
  <2>2. ASSUME NEW s, TakeUncoercible(s) PROVE Kept(rows, dropped)
    BY <2>2, UnwindGrows DEF TakeUncoercible, Kept
  <2>3. ASSUME NEW s, TakeKnown(s) PROVE Kept(rows, dropped)
    BY <2>3, EvaluateGrows DEF TakeKnown
  <2> QED
    BY <1>1, <2>1, <2>2, <2>3 DEF Take, Recorded
<1>2. CASE JournalWritten
  BY <1>2, EvaluateGrows, EventTyped DEF JournalWritten, Recorded, connVars
<1>3. CASE JournalFailed \/ FlushFailed
  BY <1>3, UnwindGrows DEF JournalFailed, FlushFailed, Kept, Recorded, connVars
<1>4. CASE FlushCommitted
  BY <1>4, LoopHeadGrows DEF FlushCommitted, Kept, Recorded, connVars
<1>5. CASE FinalCommitted \/ FinalFailed
  BY <1>5 DEF FinalCommitted, FinalFailed, Kept, Recorded, connVars
<1> QED
  BY <1>1, <1>2, <1>3, <1>4, <1>5 DEF Consumer

LEMMA ShutdownGrows ==
  ASSUME TypeOK, Shutdown
  PROVE  Kept(rows, dropped) /\ Recorded /\ emitted' = emitted /\ ~ stop /\ stop'
<1>1. emitted' = emitted /\ ~ stop /\ stop'
  BY DEF Shutdown, connVars
<1>2. CASE ShutdownLoading \/ ShutdownDead
  BY <1>1, <1>2 DEF ShutdownLoading, ShutdownDead, Kept, Recorded
<1>3. CASE ShutdownWaiting
  BY <1>1, <1>3, UnwindGrows DEF ShutdownWaiting, Kept, Recorded
<1>4. CASE ShutdownJournalling
  BY <1>1, <1>4, UnwindGrows, EventTyped DEF ShutdownJournalling, Kept, Recorded
<1>5. CASE ShutdownFlushing
  BY <1>1, <1>5, UnwindGrows DEF ShutdownFlushing, Kept, Recorded
<1> QED
  BY <1>2, <1>3, <1>4, <1>5 DEF Shutdown

\* Every other step, but Emit.
LEMMA OthersGrow ==
  ASSUME NEW l, \/ Flusher \/ UNCHANGED vars
                \/ Load(l) \/ LoadFailed(l) \/ ReloadRequested(l) \/ SyncCommitted(l)
  PROVE  Kept(rows, dropped) /\ UNCHANGED <<journal, emitted, stop>>
<1>1. CASE Flusher
  BY <1>1 DEF Flusher, FlusherWakes, FlusherCommitted, FlusherFailed, Kept, connVars
<1>2. CASE UNCHANGED vars
  BY <1>2 DEF vars, connVars, Kept
<1>3. CASE Load(l) \/ LoadFailed(l) \/ ReloadRequested(l) \/ SyncCommitted(l)
  BY <1>3 DEF Load, LoadBegins, TagsRead, TagsApplied, AlarmsRead, AlarmsApplied, LoadFailed,
              ReloadRequested, SyncCommitted, Kept, connVars
<1> QED
  BY <1>1, <1>2, <1>3

LEMMA EmitAccepts ==
  ASSUME Emit
  PROVE  /\ ~ stop /\ emitted' = emitted + 1
         /\ Ids(dropped') \in {Ids(dropped), Ids(dropped) \cup {emitted + 1}}
         /\ UNCHANGED <<rows, journal, stop>>
<1>1. dropped' = dropped \/ dropped' = dropped \cup Without({emitted + 1}, "full")
  BY DEF Emit
<1> QED
  BY <1>1, IdsUnion, IdsWithout DEF Emit

-----------------------------------------------------------------------------
(* Between two states in which every sample is in one place, a step that     *)
(* accepts nothing and undoes nothing settles samples that were pending.     *)

LEMMA GrowthSettles ==
  ASSUME EachSampleInOnePlace, EachSampleInOnePlace', Kept(rows, dropped), emitted' = emitted
  PROVE  Promised!Settle
<1> DEFINE A == Ids(rows') \ Ids(rows)
           D == Ids(dropped') \ Ids(dropped)
<1>1. /\ Ids(rows) \cup Ids(dropped) \subseteq 1 .. emitted
      /\ Ids(rows) \cap Ids(dropped) = {}
  BY DEF EachSampleInOnePlace, Partition
<1>2. /\ Ids(rows)' \cup Ids(dropped)' \subseteq 1 .. emitted'
      /\ Ids(rows)' \cap Ids(dropped)' = {}
  BY DEF EachSampleInOnePlace, Partition
<1>3. Ids(rows') = Ids(rows)' /\ Ids(dropped') = Ids(dropped)'
  BY DEF Ids
<1>4. Ids(rows) \subseteq Ids(rows') /\ Ids(dropped) \subseteq Ids(dropped')
  BY DEF Kept, Ids
<1>5. A \in SUBSET Promised!Pending /\ D \in SUBSET (Promised!Pending \ A)
  BY <1>1, <1>2, <1>3, <1>4 DEF Promised!Pending
<1>6. Ids(rows)' = Ids(rows) \cup A /\ Ids(dropped)' = Ids(dropped) \cup D
  BY <1>3, <1>4
<1> QED
  BY <1>5, <1>6 DEF Promised!Settle

\* Every step of the pipeline is a step of the historian.
LEMMA StepRefines ==
  ASSUME TypeOK, EachSampleInOnePlace, EachSampleInOnePlace', [Next]_vars
  PROVE  Promised!Next
<1>1. CASE Emit
  <2>1. Ids(dropped)' = Ids(dropped') /\ Ids(rows)' = Ids(rows')
    BY DEF Ids
  <2> QED
    BY <1>1, <2>1, EmitAccepts DEF Promised!Next, Promised!Accept
<1>2. CASE Shutdown
  BY <1>2, ShutdownGrows, GrowthSettles DEF Promised!Next, Promised!Close, Promised!Record, Recorded, TypeOK
<1>3. CASE Consumer
  BY <1>3, ConsumerGrows, GrowthSettles DEF Promised!Next, Promised!Proceed, Promised!Record, Recorded
<1>4. ASSUME NEW l, \/ Flusher \/ UNCHANGED vars
                    \/ Load(l) \/ LoadFailed(l) \/ ReloadRequested(l) \/ SyncCommitted(l)
      PROVE  Promised!Next
  BY <1>4, OthersGrow, GrowthSettles DEF Promised!Next, Promised!Proceed, Promised!Record
<1> QED
  BY <1>1, <1>2, <1>3, <1>4 DEF Next

\* ImplementsHistorian: under any interleaving of the consumer, the flusher, reloads,
\* failures and the shutdown, each sample is archived once or discarded, for good, the
\* journal only grows, and a pipeline that was shut down accepts nothing.
THEOREM PipelineRefinesHistorian == Spec => ImplementsHistorian
<1>1. Init => Promised!Init
  BY IdsEmpty DEF Init, Promised!Init
<1>2. TypeOK /\ EachSampleInOnePlace /\ EachSampleInOnePlace' /\ [Next]_vars => [Promised!Next]_(Promised!vars)
  BY StepRefines
<1> QED
  BY <1>1, <1>2, TypeCorrect, SamplesAreConserved, PTL DEF Spec, ImplementsHistorian, Promised!Spec
=============================================================================
