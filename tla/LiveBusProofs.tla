---------------------------- MODULE LiveBusProofs ----------------------------
(***************************************************************************)
(* The live bus, for every set of tags and subscribers, every capacity of  *)
(* their queues and any number of updates: a subscriber never shows an     *)
(* older value, and a server that is subscribed misses none.               *)
(*                                                                         *)
(* The argument does not look at registers.  What a client sees of a tag   *)
(* is Sight, one value for every kind of subscriber; that a Modbus master  *)
(* has such a value, whichever registers were written, is the first part.  *)
(***************************************************************************)
EXTENDS LiveBus, FiniteSetTheorems, TLAPS

LEMMA Assumed == RegisterMapAssumption /\ LiveBusAssumption
BY RegisterMapAssumption, LiveBusAssumption

-----------------------------------------------------------------------------
(* The registers of two tags are apart.                                      *)

LEMMA WidthOf == \A t : Width(t) \in {1, 2}
BY DEF Width

LEMMA EarlierFinite ==
  ASSUME NEW t \in Mapped
  PROVE  IsFiniteSet(Earlier(t)) /\ Cardinality(Earlier(t)) \in Nat
<1>1. Earlier(t) \subseteq Tags
  BY DEF Earlier, MappedIn, Mapped
<1>2. IsFiniteSet(Earlier(t))
  BY <1>1, Assumed, FS_Subset DEF RegisterMapAssumption
<1> QED
  BY <1>2, FS_CardinalityType

LEMMA AddressOf ==
  ASSUME NEW t \in Mapped
  PROVE  /\ Address[t] = Width(t) * Cardinality(Earlier(t))
         /\ Address[t] \in Nat
<1>1. Address[t] = Width(t) * Cardinality(Earlier(t))
  BY DEF Address
<1>2. PICK n \in Nat : n = Cardinality(Earlier(t))
  BY EarlierFinite
<1>3. CASE Width(t) = 1
  BY <1>1, <1>2, <1>3
<1>4. CASE Width(t) = 2
  BY <1>1, <1>2, <1>4
<1> QED
  BY <1>3, <1>4, WidthOf

\* The tag before t ends where t begins, or earlier.
LEMMA AddressesApart ==
  ASSUME NEW t \in Mapped, NEW u \in Mapped, Table(t) = Table(u), Position[u] < Position[t]
  PROVE  Width(u) = Width(t) /\ Address[u] + Width(u) <= Address[t]
<1>1. Width(u) = Width(t)
  BY DEF Table, Width
<1>2. Position \in [Tags -> Nat] /\ u \in Tags /\ t \in Tags
  BY Assumed DEF RegisterMapAssumption, Mapped
<1>3. u \notin Earlier(u) /\ u \in Earlier(t)
  BY <1>2 DEF Earlier, MappedIn
<1>4. Earlier(u) \cup {u} \subseteq Earlier(t)
  <2>1. ASSUME NEW x \in Earlier(u) PROVE x \in Earlier(t)
    <3>1. x \in MappedIn(Table(t)) /\ Position[x] < Position[u] /\ x \in Tags
      BY <2>1 DEF Earlier, MappedIn, Mapped
    <3>2. Position[x] < Position[t]
      BY <1>2, <3>1
    <3> QED
      BY <3>1, <3>2 DEF Earlier
  <2> QED
    BY <2>1, <1>3
<1>5. PICK n \in Nat : n = Cardinality(Earlier(u))
  BY EarlierFinite
<1>6. PICK m \in Nat : m = Cardinality(Earlier(t))
  BY EarlierFinite
<1>7. n + 1 <= m
  <2>1. Cardinality(Earlier(u) \cup {u}) = n + 1
    BY <1>3, <1>5, EarlierFinite, FS_AddElement
  <2> QED
    BY <2>1, <1>4, <1>6, EarlierFinite, FS_Subset
<1>8. PICK w \in {1, 2} : w = Width(t)
  BY WidthOf
<1>9. Address[u] = w * n /\ Address[t] = w * m
  BY <1>1, <1>5, <1>6, <1>8, AddressOf
<1>10. w * n + w <= w * m
  <2>1. CASE w = 1
    BY <2>1, <1>7
  <2>2. CASE w = 2
    BY <2>2, <1>7
  <2> QED
    BY <2>1, <2>2
<1> QED
  BY <1>1, <1>8, <1>9, <1>10

\* The last tag of a table ends where the table does.
LEMMA AddressInTable ==
  ASSUME NEW t \in Mapped
  PROVE  Size(Table(t)) \in Nat /\ Address[t] + Width(t) <= Size(Table(t))
<1> DEFINE M == MappedIn(Table(t))
<1>1. M \subseteq Tags /\ t \in M
  BY DEF MappedIn, Mapped
<1>2. IsFiniteSet(M)
  BY <1>1, Assumed, FS_Subset DEF RegisterMapAssumption
<1>3. t \notin Earlier(t) /\ Earlier(t) \cup {t} \subseteq M
  <2>1. Position[t] \in Nat
    BY <1>1, Assumed DEF RegisterMapAssumption
  <2> QED
    BY <1>1, <2>1 DEF Earlier
<1> HIDE DEF M
<1>4. PICK n \in Nat : n = Cardinality(Earlier(t))
  BY EarlierFinite
<1>5. PICK m \in Nat : m = Cardinality(M)
  BY <1>2, FS_CardinalityType
<1>6. n + 1 <= m
  <2>1. Cardinality(Earlier(t) \cup {t}) = n + 1
    BY <1>3, <1>4, EarlierFinite, FS_AddElement
  <2> QED
    BY <2>1, <1>2, <1>3, <1>5, FS_Subset
<1>7. Size(Table(t)) = IF Table(t) = "discrete_input" THEN m ELSE 2 * m
  BY <1>5, <1>6 DEF Size, M
<1>8. CASE Type[t] = "bool"
  <2>1. Width(t) = 1 /\ Size(Table(t)) = m
    BY <1>7, <1>8 DEF Width, Table
  <2>2. Address[t] = n
    BY <2>1, <1>4, AddressOf
  <2> QED
    BY <2>1, <2>2, <1>6
<1>9. CASE Type[t] # "bool"
  <2>1. Width(t) = 2 /\ Size(Table(t)) = 2 * m
    BY <1>7, <1>9 DEF Width, Table
  <2>2. Address[t] = 2 * n
    BY <2>1, <1>4, AddressOf
  <2> QED
    BY <2>1, <2>2, <1>6
<1> QED
  BY <1>8, <1>9

LEMMA WordsOf ==
  ASSUME NEW t \in Mapped
  PROVE  /\ Words[t] = Address[t] + 2 .. Address[t] + 1 + Width(t)
         /\ Address[t] + 2 \in Words[t]
         /\ Size(Table(t)) \in Nat
         /\ Words[t] \subseteq 2 .. Size(Table(t)) + 1
         /\ Part(t, Address[t] + 2) = 1
         /\ \A i \in Words[t] : i \in Nat /\ Part(t, i) \in 1 .. 2
<1>1. Words[t] = Address[t] + 2 .. Address[t] + 1 + Width(t)
  BY DEF Words
<1>2. PICK a \in Nat : a = Address[t]
  BY AddressOf
<1>3. PICK w \in {1, 2} : w = Width(t)
  BY WidthOf
<1>4. PICK z \in Nat : z = Size(Table(t)) /\ a + w <= z
  BY <1>2, <1>3, AddressInTable
<1>5. Words[t] = a + 2 .. a + 1 + w
  BY <1>1, <1>2, <1>3
<1> QED
  BY <1>2, <1>3, <1>4, <1>5 DEF Part

LEMMA IntervalsApart ==
  ASSUME NEW a \in Nat, NEW v \in Nat, NEW b \in Nat, NEW w \in Nat, a + v <= b
  PROVE  (a + 2 .. a + 1 + v) \cap (b + 2 .. b + 1 + w) = {}
OBVIOUS

LEMMA WordsApart ==
  ASSUME NEW t \in Mapped, NEW u \in Mapped, Table(t) = Table(u), t # u
  PROVE  Words[t] \cap Words[u] = {}
<1>1. Position[t] \in Nat /\ Position[u] \in Nat /\ Position[t] # Position[u]
  BY Assumed DEF RegisterMapAssumption, Mapped
<1>2. ASSUME NEW x \in Mapped, NEW y \in Mapped, Table(x) = Table(y), Position[x] < Position[y]
      PROVE  Words[x] \cap Words[y] = {}
  <2>1. Address[x] \in Nat /\ Address[y] \in Nat /\ Width(x) \in Nat /\ Width(y) \in Nat
    BY AddressOf, WidthOf
  <2>2. Address[x] + Width(x) <= Address[y]
    BY <1>2, AddressesApart
  <2>3. (Address[x] + 2 .. Address[x] + 1 + Width(x))
          \cap (Address[y] + 2 .. Address[y] + 1 + Width(y)) = {}
    BY <2>1, <2>2, IntervalsApart
  <2> QED
    BY <2>3, WordsOf
<1>3. CASE Position[u] < Position[t]
  BY <1>3, <1>2
<1>4. CASE Position[t] < Position[u]
  BY <1>4, <1>2
<1> QED
  BY <1>1, <1>3, <1>4

-----------------------------------------------------------------------------
(* What a master reads of registers that were written.                       *)

OnePerTag(V) == \A v, w \in V : v.tag = w.tag => v = w

RegisterOK(x) == x \in [value : LiveValue, part : 1 .. 2] \cup {Zero}

Blank(b, t) == \A i \in Words[t] \cap DOMAIN b[Table(t)] : b[Table(t)][i] = Zero

\* Each table has its length or one more, and a tag's words are those of one value or none.
BlocksOK(b) ==
  /\ \A table \in Tables :
       /\ DOMAIN b[table] \in {1 .. Size(table), 1 .. Size(table) + 1}
       /\ \A i \in DOMAIN b[table] : RegisterOK(b[table][i])
  /\ \A t \in Mapped : Blank(b, t) \/ \E v \in LiveValue : v.tag = t /\ Holds(b, t, v)

LEMMA ValuesAreSome == \A v \in LiveValue : v # Nothing /\ v.n \in Nat /\ v.n > 0 /\ v.tag \in Tags
BY Assumed DEF LiveValue, Nothing, LiveBusAssumption

LEMMA TableOf == \A t \in Mapped : Table(t) \in Tables /\ t \in Tags /\ t \in MappedIn(Table(t))
BY DEF Table, Tables, Mapped, MappedIn

\* A register with a part in it is not a blank one.
LEMMA PartIsNotZero ==
  ASSUME NEW v, NEW p \in 1 .. 2
  PROVE  [value |-> v, part |-> p] # Zero /\ [value |-> v, part |-> p].value = v
<1>1. [value |-> v, part |-> p].part = p /\ Zero.part = 0
  BY DEF Zero
<1> QED
  BY <1>1

LEMMA HeldIsRegistered ==
  ASSUME NEW b, NEW t, NEW v, Holds(b, t, v)
  PROVE  Registered(b, t) = v
<1>1. t \in Mapped /\ Readable(b, t)
  BY DEF Holds, Readable
<1>2. b[Table(t)][Address[t] + 2] = [value |-> v, part |-> 1]
  BY <1>1, WordsOf DEF Holds
<1> HIDE DEF Holds
<1> QED
  BY <1>1, <1>2, PartIsNotZero DEF Registered

LEMMA BlankIsNothing ==
  ASSUME NEW b, NEW t \in Mapped, Blank(b, t)
  PROVE  Registered(b, t) = Nothing
<1>1. CASE Readable(b, t)
  <2>1. b[Table(t)][Address[t] + 2] = Zero
    BY <1>1, WordsOf DEF Readable, Blank
  <2> QED
    BY <2>1 DEF Registered
<1>2. CASE ~ Readable(b, t)
  BY <1>2 DEF Registered
<1> QED
  BY <1>1, <1>2

LEMMA RegisteredIs ==
  ASSUME NEW b, BlocksOK(b), NEW t \in Tags
  PROVE  /\ Registered(b, t) \in LiveValue \cup {Nothing}
         /\ Registered(b, t) # Nothing => Registered(b, t).tag = t /\ Holds(b, t, Registered(b, t))
<1>1. CASE t \notin Mapped
  BY <1>1 DEF Registered, Readable
<1>2. CASE t \in Mapped
  BY <1>2, BlankIsNothing, HeldIsRegistered DEF BlocksOK
<1> QED
  BY <1>1, <1>2

\* The words of some values.
Covered(V) == UNION {Words[v.tag] : v \in V}

\* A block is the old one with these values written, and nothing else.
HasWritten(block, V, new) ==
  /\ DOMAIN new = DOMAIN block \cup Covered(V)
  /\ \A v \in V : \A i \in Words[v.tag] : new[i] = [value |-> v, part |-> Part(v.tag, i)]
  /\ \A i \in DOMAIN block : i \notin Covered(V) => new[i] = block[i]

LEMMA WrittenIs ==
  ASSUME NEW table \in Tables, NEW block, NEW V,
         \A v \in V : v.tag \in MappedIn(table), OnePerTag(V)
  PROVE  HasWritten(block, V, Written(block, V))
<1>1. DOMAIN Written(block, V) = DOMAIN block \cup Covered(V)
  BY DEF Written, Covered
<1>2. ASSUME NEW v \in V, NEW i \in Words[v.tag]
      PROVE  Written(block, V)[i] = [value |-> v, part |-> Part(v.tag, i)]
  <2>1. \A w \in V : i \in Words[w.tag] => w = v
    <3>1. ASSUME NEW w \in V, i \in Words[w.tag], w # v PROVE FALSE
      <4>1. w.tag # v.tag /\ w.tag \in Mapped /\ v.tag \in Mapped /\ Table(w.tag) = Table(v.tag)
        BY <3>1 DEF OnePerTag, MappedIn
      <4> QED
        BY <4>1, <3>1, WordsApart
    <3> QED
      BY <3>1
  <2>2. (CHOOSE w \in V : i \in Words[w.tag]) = v
    BY <2>1
  <2>3. i \in DOMAIN Written(block, V)
    BY <1>1 DEF Covered
  <2> QED
    BY <2>2, <2>3 DEF Written
<1>3. ASSUME NEW i \in DOMAIN block, i \notin Covered(V)
      PROVE  Written(block, V)[i] = block[i]
  BY <1>3 DEF Written, Covered
<1> QED
  BY <1>1, <1>2, <1>3 DEF HasWritten

LEMMA WriteIs ==
  ASSUME NEW b, NEW V \in SUBSET LiveValue, OnePerTag(V), NEW table \in Tables
  PROVE  HasWritten(b[table], In(table, V), Write(b, V)[table])
<1>1. Write(b, V)[table] = Written(b[table], In(table, V))
  BY DEF Write
<1>2. OnePerTag(In(table, V)) /\ \A v \in In(table, V) : v.tag \in MappedIn(table)
  BY DEF OnePerTag, In
<1>3. PICK W : W = In(table, V)
  OBVIOUS
<1>4. PICK block : block = b[table]
  OBVIOUS
<1>5. HasWritten(block, W, Written(block, W))
  BY <1>2, <1>3, WrittenIs
<1> QED
  BY <1>1, <1>3, <1>4, <1>5

\* What was written can be read ...
LEMMA WriteHolds ==
  ASSUME NEW b, NEW V \in SUBSET LiveValue, OnePerTag(V), NEW v \in V, v.tag \in Mapped
  PROVE  Holds(Write(b, V), v.tag, v)
<1>1. Table(v.tag) \in Tables /\ v \in In(Table(v.tag), V)
  BY TableOf DEF In
<1>2. Words[v.tag] \subseteq DOMAIN Write(b, V)[Table(v.tag)]
  BY <1>1, WriteIs DEF HasWritten, Covered
<1>3. \A i \in Words[v.tag] : Write(b, V)[Table(v.tag)][i] = [value |-> v, part |-> Part(v.tag, i)]
  BY <1>1, WriteIs DEF HasWritten
<1> QED
  BY <1>2, <1>3 DEF Holds, Readable

\* ... and the other tags are as they were.
LEMMA WriteSpares ==
  ASSUME NEW b, NEW V \in SUBSET LiveValue, OnePerTag(V), NEW t \in Mapped, \A v \in V : v.tag # t
  PROVE  LET old == b[Table(t)]
             new == Write(b, V)[Table(t)] IN
         /\ Words[t] \cap DOMAIN new = Words[t] \cap DOMAIN old
         /\ \A i \in Words[t] \cap DOMAIN old : new[i] = old[i]
<1>1. Table(t) \in Tables
  BY TableOf
<1>2. \A v \in In(Table(t), V) : Words[t] \cap Words[v.tag] = {}
  <2>1. ASSUME NEW v \in In(Table(t), V) PROVE Words[t] \cap Words[v.tag] = {}
    <3>1. v.tag # t /\ v.tag \in Mapped /\ Table(v.tag) = Table(t)
      BY <2>1 DEF In, MappedIn
    <3> QED
      BY <3>1, WordsApart
  <2> QED
    BY <2>1
<1>3. Words[t] \cap Covered(In(Table(t), V)) = {}
  BY <1>2 DEF Covered
<1> QED
  BY <1>1, <1>3, WriteIs DEF HasWritten

\* What a master reads after a write: these values, and what was there of the other tags.
Reads(new, V, b) ==
  /\ BlocksOK(new)
  /\ \A v \in V : v.tag \in Mapped => Registered(new, v.tag) = v
  /\ \A t \in Tags : (\A v \in V : v.tag # t) => Registered(new, t) = Registered(b, t)

LEMMA WriteKeeps ==
  ASSUME NEW b, BlocksOK(b), NEW V \in SUBSET LiveValue, OnePerTag(V)
  PROVE  Reads(Write(b, V), V, b)
<1> DEFINE c == Write(b, V)
<1>1. ASSUME NEW v \in V, v.tag \in Mapped
      PROVE  Holds(c, v.tag, v) /\ Registered(c, v.tag) = v
  BY <1>1, WriteHolds, HeldIsRegistered
<1>2. ASSUME NEW t \in Mapped, \A v \in V : v.tag # t
      PROVE  /\ Readable(c, t) <=> Readable(b, t)
             /\ \A i \in Words[t] \cap DOMAIN b[Table(t)] : c[Table(t)][i] = b[Table(t)][i]
             /\ Words[t] \cap DOMAIN c[Table(t)] = Words[t] \cap DOMAIN b[Table(t)]
  BY <1>2, WriteSpares DEF Readable
<1> HIDE DEF c
<1>3. ASSUME NEW t \in Mapped, \A v \in V : v.tag # t
      PROVE  /\ Blank(b, t) => Blank(c, t)
             /\ \A v : Holds(b, t, v) => Holds(c, t, v)
  BY <1>2, <1>3 DEF Blank, Holds, Readable
<1>4. \A t \in Mapped : Blank(c, t) \/ \E v \in LiveValue : v.tag = t /\ Holds(c, t, v)
  <2>1. ASSUME NEW t \in Mapped
        PROVE  Blank(c, t) \/ \E v \in LiveValue : v.tag = t /\ Holds(c, t, v)
    <3>1. CASE \E v \in V : v.tag = t
      BY <3>1, <1>1
    <3>2. CASE \A v \in V : v.tag # t
      BY <3>2, <1>3 DEF BlocksOK
    <3> QED
      BY <3>1, <3>2
  <2> QED
    BY <2>1
<1>5. ASSUME NEW t \in Tags, \A v \in V : v.tag # t
      PROVE  Registered(c, t) = Registered(b, t)
  <2>1. CASE t \notin Mapped
    BY <2>1 DEF Registered, Readable
  <2>2. CASE t \in Mapped
    <3>1. CASE Blank(b, t)
      BY <2>2, <3>1, <1>5, <1>3, BlankIsNothing
    <3>2. ASSUME NEW v, Holds(b, t, v) PROVE Registered(c, t) = Registered(b, t)
      BY <2>2, <3>2, <1>5, <1>3, HeldIsRegistered
    <3> QED
      BY <2>2, <3>1, <3>2 DEF BlocksOK
  <2> QED
    BY <2>1, <2>2
<1>6. ASSUME NEW table \in Tables
      PROVE  /\ DOMAIN c[table] \in {1 .. Size(table), 1 .. Size(table) + 1}
             /\ \A i \in DOMAIN c[table] : RegisterOK(c[table][i])
  <2> DEFINE W == Covered(In(table, V))
  <2>1. /\ DOMAIN c[table] = DOMAIN b[table] \cup W
        /\ \A v \in In(table, V) : \A i \in Words[v.tag] :
             c[table][i] = [value |-> v, part |-> Part(v.tag, i)]
        /\ \A i \in DOMAIN b[table] : i \notin W => c[table][i] = b[table][i]
    BY WriteIs DEF c, HasWritten
  <2>2. Size(table) \in Nat
    <3>1. IsFiniteSet(MappedIn(table))
      <4>1. MappedIn(table) \subseteq Tags
        BY DEF MappedIn, Mapped
      <4> QED
        BY <4>1, Assumed, FS_Subset DEF RegisterMapAssumption
    <3>2. Cardinality(MappedIn(table)) \in Nat
      BY <3>1, FS_CardinalityType
    <3> QED
      BY <3>2 DEF Size
  <2>3. \A v \in In(table, V) :
          v \in LiveValue /\ v.tag \in Mapped /\ Table(v.tag) = table
    BY DEF In, MappedIn
  <2>4. W \subseteq 2 .. Size(table) + 1
    BY <2>3, WordsOf DEF Covered
  <2>5. DOMAIN b[table] \in {1 .. Size(table), 1 .. Size(table) + 1}
    BY DEF BlocksOK
  <2>6. \A i \in W : RegisterOK(c[table][i])
    <3>1. ASSUME NEW v \in In(table, V), NEW i \in Words[v.tag] PROVE RegisterOK(c[table][i])
      <4>1. c[table][i] = [value |-> v, part |-> Part(v.tag, i)]
        BY <2>1
      <4>2. v \in LiveValue /\ Part(v.tag, i) \in 1 .. 2
        BY <2>3, WordsOf
      <4> QED
        BY <4>1, <4>2 DEF RegisterOK
    <3> QED
      BY <3>1 DEF Covered
  <2>7. \A i \in DOMAIN b[table] \ W : RegisterOK(c[table][i])
    <3>1. ASSUME NEW i \in DOMAIN b[table] \ W PROVE RegisterOK(c[table][i])
      <4>1. c[table][i] = b[table][i]
        BY <2>1
      <4>2. RegisterOK(b[table][i])
        BY DEF BlocksOK
      <4> QED
        BY <4>1, <4>2
    <3> QED
      BY <3>1
  <2> HIDE DEF W
  <2>8. DOMAIN c[table] = 1 .. Size(table) \/ DOMAIN c[table] = 1 .. Size(table) + 1
    <3> PICK z \in Nat : z = Size(table)
      BY <2>2
    <3>1. W \subseteq 2 .. z + 1 /\ (DOMAIN b[table] = 1 .. z \/ DOMAIN b[table] = 1 .. z + 1)
      BY <2>4, <2>5
    <3>2. 1 .. z \cup {z + 1} = 1 .. z + 1
      OBVIOUS
    <3>3. W \subseteq 1 .. z \/ (W \subseteq 1 .. z + 1 /\ z + 1 \in W)
      BY <3>1
    <3> QED
      BY <3>1, <3>2, <3>3, <2>1
  <2> QED
    BY <2>1, <2>6, <2>7, <2>8
<1>7. BlocksOK(c)
  BY <1>4, <1>6 DEF BlocksOK
<1> QED
  BY <1>1, <1>5, <1>7 DEF c, Reads

LEMMA NewBlocksAreBlank ==
  /\ BlocksOK(NewBlocks)
  /\ \A t \in Tags : Registered(NewBlocks, t) = Nothing
<1>1. \A table \in Tables : /\ DOMAIN NewBlocks[table] = 1 .. Size(table)
                            /\ \A i \in DOMAIN NewBlocks[table] : NewBlocks[table][i] = Zero
  BY DEF NewBlocks
<1>2. \A t \in Mapped : Blank(NewBlocks, t)
  BY <1>1, TableOf DEF Blank
<1>3. BlocksOK(NewBlocks)
  BY <1>1, <1>2 DEF BlocksOK, RegisterOK
<1>4. \A t \in Tags : Registered(NewBlocks, t) = Nothing
  BY <1>2, BlankIsNothing DEF Registered, Readable
<1> QED
  BY <1>3, <1>4

-----------------------------------------------------------------------------
(* A subscriber, by three values: its queue q, the set A of values it has to *)
(* handle before the queue, and the value f[t] its client sees of each tag.  *)
(* lt is the latest value of each tag and p the number of updates so far.    *)

Values == LiveValue \cup {Nothing}

LatestOK(lt, p) ==
  /\ lt \in [Tags -> Values]
  /\ p \in Nat
  /\ \A t \in Tags : lt[t] # Nothing => lt[t].tag = t /\ lt[t].n <= p

ClientTyped(q, A, f) == q \in Seq(LiveValue) /\ A \in SUBSET LiveValue /\ f \in [Tags -> Values]

\* v is newer than what is seen, and not newer than the bus.
NewTo(f, lt, v) == f[v.tag].n < v.n /\ v.n <= lt[v.tag].n

\* What is on its way is newer than what the client sees, and arrives in order.
Ahead(q, A, f, lt, p) ==
  /\ \A i, j \in 1 .. Len(q) : i < j => q[i].n < q[j].n
  /\ \A i \in 1 .. Len(q), v \in A : v.n < q[i].n
  /\ OnePerTag(A)
  /\ \A i \in 1 .. Len(q) : NewTo(f, lt, q[i])
  /\ \A v \in A : NewTo(f, lt, v)
  /\ \A t \in Tags : f[t].n <= p

NoneOf(q, t) == \A i \in 1 .. Len(q) : q[i].tag # t
LastIn(q, t, v) == \E i \in 1 .. Len(q) : q[i] = v /\ \A j \in i + 1 .. Len(q) : q[j].tag # t

\* The latest value of t is seen, or on its way.
Kept(s, q, A, f, lt, t) ==
  (lt[t] # Nothing /\ Representable(s, lt[t])) =>
     LastIn(q, t, lt[t]) \/ (NoneOf(q, t) /\ lt[t] \in A) \/ f[t] = lt[t]

\* The client once its subscriber has handled x.
After(s, f, x) == IF Representable(s, x) THEN [f EXCEPT ![x.tag] = x] ELSE f

LEMMA NothingIs == Nothing.n = 0 /\ Nothing \notin LiveValue
BY ValuesAreSome DEF Nothing

LEMMA NumberOf == \A v \in Values : v.n \in Nat /\ (v # Nothing => v \in LiveValue /\ v.tag \in Tags)
BY NothingIs, ValuesAreSome DEF Values

\* A value handled: what is seen only grows, and the rest is still newer.
LEMMA HandledIsAhead ==
  ASSUME NEW s, NEW q, NEW A, NEW f, NEW lt, NEW p,
         LatestOK(lt, p), ClientTyped(q, A, f), Ahead(q, A, f, lt, p), NEW x \in A
  PROVE  /\ ClientTyped(q, A \ {x}, After(s, f, x))
         /\ Ahead(q, A \ {x}, After(s, f, x), lt, p)
         /\ \A t \in Tags : f[t].n <= After(s, f, x)[t].n
<1> DEFINE g == After(s, f, x)
<1>1. x \in LiveValue /\ x.tag \in Tags /\ x.n \in Nat /\ x \in Values
  BY ValuesAreSome DEF ClientTyped, Values
<1>2. f \in [Tags -> Values] /\ g \in [Tags -> Values]
  BY <1>1 DEF ClientTyped, After
<1>3. \A t \in Tags : g[t] = f[t] \/ (t = x.tag /\ g[t] = x)
  BY <1>2 DEF After
<1> HIDE DEF g
<1>4. \A t \in Tags : f[t].n \in Nat /\ lt[t].n \in Nat
  BY <1>2, NumberOf DEF LatestOK
<1>5. f[x.tag].n < x.n /\ x.n <= lt[x.tag].n
  BY DEF Ahead, NewTo
<1>6. lt[x.tag].n <= p
  <2>1. lt[x.tag] \in Values /\ (lt[x.tag] # Nothing => lt[x.tag].n <= p) /\ p \in Nat
    BY <1>1 DEF LatestOK
  <2> QED
    BY <2>1, NothingIs
<1>7. \A t \in Tags : f[t].n <= g[t].n
  BY <1>1, <1>3, <1>4, <1>5
<1>8. \A t \in Tags : g[t].n <= p
  <2>1. \A t \in Tags : f[t].n <= p /\ p \in Nat
    BY DEF Ahead, LatestOK
  <2> QED
    BY <2>1, <1>1, <1>3, <1>4, <1>5, <1>6
<1>9. \A i \in 1 .. Len(q) : NewTo(g, lt, q[i])
  <2>1. ASSUME NEW i \in 1 .. Len(q) PROVE NewTo(g, lt, q[i])
    <3>1. q[i] \in LiveValue /\ q[i].tag \in Tags /\ q[i].n \in Nat
      BY ValuesAreSome DEF ClientTyped
    <3>2. NewTo(f, lt, q[i]) /\ x.n < q[i].n
      BY DEF Ahead
    <3> QED
      BY <1>3, <3>1, <3>2 DEF NewTo
  <2> QED
    BY <2>1
<1>10. \A v \in A \ {x} : NewTo(g, lt, v)
  <2>1. ASSUME NEW v \in A \ {x} PROVE NewTo(g, lt, v)
    <3>1. v \in LiveValue /\ v.tag \in Tags
      BY ValuesAreSome DEF ClientTyped
    <3>2. NewTo(f, lt, v) /\ v.tag # x.tag
      BY DEF Ahead, OnePerTag
    <3> QED
      BY <1>3, <3>1, <3>2 DEF NewTo
  <2> QED
    BY <2>1
<1>11. Ahead(q, A \ {x}, g, lt, p)
  BY <1>8, <1>9, <1>10 DEF Ahead, OnePerTag
<1>12. ClientTyped(q, A \ {x}, g)
  BY <1>2 DEF ClientTyped
<1> QED
  BY <1>7, <1>11, <1>12 DEF g

LEMMA HandledIsKept ==
  ASSUME NEW s, NEW q, NEW A, NEW f, NEW lt, NEW p,
         LatestOK(lt, p), ClientTyped(q, A, f), Ahead(q, A, f, lt, p), NEW x \in A,
         NEW t \in Tags, Kept(s, q, A, f, lt, t)
  PROVE  Kept(s, q, A \ {x}, After(s, f, x), lt, t)
<1> DEFINE g == After(s, f, x)
<1>1. x \in LiveValue /\ x.tag \in Tags /\ x.n \in Nat
  BY ValuesAreSome DEF ClientTyped
<1>2. f \in [Tags -> Values]
  BY DEF ClientTyped
<1>3. lt[t] # Nothing => lt[t].tag = t
  BY DEF LatestOK
<1>4. x = lt[t] /\ lt[t] # Nothing /\ Representable(s, x) => g[t] = lt[t]
  BY <1>1, <1>2, <1>3 DEF After
<1>5. f[t] = lt[t] => g[t] = f[t]
  <2>1. CASE x.tag # t
    BY <2>1, <1>2 DEF After
  <2>2. CASE x.tag = t /\ f[t] = lt[t]
    <3>1. f[t].n < x.n /\ x.n <= f[t].n /\ f[t].n \in Nat
      BY <1>2, <2>2, NumberOf DEF Ahead, NewTo
    <3> QED
      BY <1>1, <3>1
  <2> QED
    BY <2>1, <2>2
<1> HIDE DEF g
<1> QED
  BY <1>4, <1>5 DEF Kept, g

LEMMA LatestMoves ==
  ASSUME NEW lt, NEW p, LatestOK(lt, p), NEW x \in LiveValue, x.n = p + 1
  PROVE  LatestOK([lt EXCEPT ![x.tag] = x], p + 1) /\ \A t \in Tags : lt[t].n \in Nat /\ lt[t].n <= p
<1> DEFINE new == [lt EXCEPT ![x.tag] = x]
<1>1. x.tag \in Tags /\ x \in Values /\ p \in Nat
  BY ValuesAreSome DEF Values, LatestOK
<1>2. new \in [Tags -> Values] /\ \A t \in Tags : new[t] = IF t = x.tag THEN x ELSE lt[t]
  BY <1>1 DEF LatestOK
<1> HIDE DEF new
<1>3. \A t \in Tags : lt[t].n \in Nat /\ lt[t].n <= p
  <2>1. \A t \in Tags : lt[t] \in Values /\ (lt[t] # Nothing => lt[t].n <= p)
    BY DEF LatestOK
  <2> QED
    BY <2>1, <1>1, NumberOf, NothingIs
<1>4. LatestOK(new, p + 1)
  BY <1>1, <1>2, <1>3 DEF LatestOK
<1> QED
  BY <1>3, <1>4 DEF new

\* An update: every client stays behind the bus ...
LEMMA UpdateIsAhead ==
  ASSUME NEW q, NEW A, NEW f, NEW lt, NEW p,
         LatestOK(lt, p), ClientTyped(q, A, f), Ahead(q, A, f, lt, p),
         NEW x \in LiveValue, x.n = p + 1
  PROVE  LET new == [lt EXCEPT ![x.tag] = x] IN
         /\ Ahead(q, A, f, new, p + 1)
         /\ ClientTyped(Append(q, x), A, f)
         /\ Ahead(Append(q, x), A, f, new, p + 1)
<1> DEFINE new == [lt EXCEPT ![x.tag] = x]
           r == Append(q, x)
<1>1. x.tag \in Tags /\ x \in Values /\ p \in Nat
  BY ValuesAreSome DEF Values, LatestOK
<1>2. new \in [Tags -> Values] /\ \A t \in Tags : new[t] = IF t = x.tag THEN x ELSE lt[t]
  BY <1>1 DEF LatestOK
<1> HIDE DEF new
<1>3. \A t \in Tags : lt[t].n \in Nat /\ lt[t].n <= p
  BY LatestMoves
<1>4. \A t \in Tags : lt[t].n <= new[t].n
  BY <1>1, <1>2, <1>3
<1>6. \A v \in LiveValue : NewTo(f, lt, v) => NewTo(f, new, v)
  <2>1. ASSUME NEW v \in LiveValue, NewTo(f, lt, v) PROVE NewTo(f, new, v)
    <3>1. v.tag \in Tags /\ v.n \in Nat
      BY ValuesAreSome
    <3>2. new[v.tag].n \in Nat /\ lt[v.tag].n \in Nat /\ lt[v.tag].n <= new[v.tag].n
      BY <3>1, <1>2, <1>3, <1>4, NumberOf
    <3> QED
      BY <2>1, <3>1, <3>2 DEF NewTo
  <2> QED
    BY <2>1
<1>7. /\ \A i \in 1 .. Len(q) : q[i] \in LiveValue /\ q[i].n \in Nat /\ q[i].n <= p
      /\ \A v \in A : v \in LiveValue /\ v.n \in Nat /\ v.n <= p
      /\ \A t \in Tags : f[t].n \in Nat /\ f[t].n <= p
  <2>1. ASSUME NEW v \in LiveValue, NewTo(f, lt, v) PROVE v.n \in Nat /\ v.n <= p
    <3>1. v.tag \in Tags /\ v.n \in Nat /\ v.n <= lt[v.tag].n
      BY <2>1, ValuesAreSome DEF NewTo
    <3> QED
      BY <3>1, <1>1, <1>3
  <2>2. \A i \in 1 .. Len(q) : q[i] \in LiveValue /\ NewTo(f, lt, q[i])
    BY DEF ClientTyped, Ahead
  <2>3. \A v \in A : v \in LiveValue /\ NewTo(f, lt, v)
    BY DEF ClientTyped, Ahead
  <2>4. \A t \in Tags : f[t].n \in Nat /\ f[t].n <= p
    BY NumberOf DEF ClientTyped, Ahead
  <2> QED
    BY <2>1, <2>2, <2>3, <2>4
<1>8. Ahead(q, A, f, new, p + 1)
  <2>1. \A t \in Tags : f[t].n <= p + 1
    BY <1>1, <1>7
  <2> QED
    BY <2>1, <1>6, <1>7 DEF Ahead
<1>9. /\ r \in Seq(LiveValue) /\ Len(r) = Len(q) + 1 /\ r[Len(q) + 1] = x
      /\ \A i \in 1 .. Len(q) : r[i] = q[i]
      /\ Len(q) \in Nat
  BY DEF ClientTyped
<1>10. NewTo(f, new, x)
  <2>1. new[x.tag] = x /\ f[x.tag].n < x.n /\ x.n \in Nat
    BY <1>1, <1>2, <1>7
  <2> QED
    BY <2>1 DEF NewTo
<1> HIDE DEF r
<1>11. Ahead(r, A, f, new, p + 1)
  <2>1. \A i \in 1 .. Len(r) : i \in 1 .. Len(q) \/ (i = Len(q) + 1 /\ r[i] = x)
    BY <1>9
  <2>2. ASSUME NEW i \in 1 .. Len(r), NEW j \in 1 .. Len(r), i < j PROVE r[i].n < r[j].n
    <3>1. i \in 1 .. Len(q)
      BY <2>2, <1>9
    <3>2. CASE j \in 1 .. Len(q)
      BY <2>2, <3>1, <3>2, <1>9 DEF Ahead
    <3>3. CASE r[j] = x
      BY <3>1, <3>3, <1>1, <1>7, <1>9
    <3> QED
      BY <2>1, <3>2, <3>3
  <2>3. ASSUME NEW i \in 1 .. Len(r), NEW v \in A PROVE v.n < r[i].n
    <3>1. CASE i \in 1 .. Len(q)
      BY <3>1, <1>9 DEF Ahead
    <3>2. CASE r[i] = x
      BY <3>2, <1>1, <1>7
    <3> QED
      BY <2>1, <3>1, <3>2
  <2>4. \A i \in 1 .. Len(r) : NewTo(f, new, r[i])
    BY <2>1, <1>8, <1>9, <1>10 DEF Ahead
  <2> QED
    BY <2>2, <2>3, <2>4, <1>8 DEF Ahead
<1>12. ClientTyped(r, A, f)
  BY <1>9 DEF ClientTyped
<1> QED
  BY <1>8, <1>11, <1>12 DEF new, r

\* ... and one whose queue has room keeps what it had.
LEMMA UpdateIsKept ==
  ASSUME NEW s, NEW q, NEW A, NEW f, NEW lt \in [Tags -> Values], NEW t \in Tags, NEW x \in LiveValue,
         ClientTyped(q, A, f), Kept(s, q, A, f, lt, t)
  PROVE  Kept(s, Append(q, x), A, f, [lt EXCEPT ![x.tag] = x], t)
<1> DEFINE r == Append(q, x)
           new == [lt EXCEPT ![x.tag] = x]
<1>1. x.tag \in Tags
  BY ValuesAreSome
<1>2. /\ Len(r) = Len(q) + 1 /\ r[Len(q) + 1] = x /\ Len(q) \in Nat
      /\ \A i \in 1 .. Len(q) : r[i] = q[i]
  BY DEF ClientTyped
<1>3. new[t] = IF t = x.tag THEN x ELSE lt[t]
  OBVIOUS
<1> HIDE DEF r, new
<1>4. CASE t = x.tag
  <2>1. LastIn(r, t, x)
    <3>1. Len(r) \in 1 .. Len(r) /\ Len(r) + 1 .. Len(r) = {} /\ r[Len(r)] = x
      BY <1>2
    <3> QED
      BY <3>1 DEF LastIn
  <2> QED
    BY <2>1, <1>3, <1>4 DEF Kept, r, new
<1>5. CASE t # x.tag
  <2>1. \A v : LastIn(q, t, v) => LastIn(r, t, v)
    <3>1. ASSUME NEW v, LastIn(q, t, v) PROVE LastIn(r, t, v)
      <4>1. PICK i \in 1 .. Len(q) : q[i] = v /\ \A j \in i + 1 .. Len(q) : q[j].tag # t
        BY <3>1 DEF LastIn
      <4>2. i \in 1 .. Len(r) /\ r[i] = v
        BY <4>1, <1>2
      <4>3. ASSUME NEW j \in i + 1 .. Len(r) PROVE r[j].tag # t
        <5>1. j \in i + 1 .. Len(q) \/ j = Len(q) + 1
          BY <1>2
        <5>2. j \in i + 1 .. Len(q) => j \in 1 .. Len(q)
          BY <1>2
        <5> QED
          BY <5>1, <5>2, <4>1, <1>2, <1>5
      <4> QED
        BY <4>2, <4>3 DEF LastIn
    <3> QED
      BY <3>1
  <2>2. NoneOf(q, t) => NoneOf(r, t)
    <3>1. \A i \in 1 .. Len(r) : i \in 1 .. Len(q) \/ i = Len(q) + 1
      BY <1>2
    <3> QED
      BY <3>1, <1>2, <1>5 DEF NoneOf
  <2> QED
    BY <2>1, <2>2, <1>3, <1>5 DEF Kept, r, new
<1> QED
  BY <1>4, <1>5

SnapshotOf(lt) == {lt[t] : t \in {t \in Tags : lt[t] # Nothing}}

LEMMA SnapshotOfIs ==
  ASSUME NEW lt, NEW p, LatestOK(lt, p)
  PROVE  /\ SnapshotOf(lt) \in SUBSET LiveValue
         /\ OnePerTag(SnapshotOf(lt))
         /\ \A v \in SnapshotOf(lt) : v = lt[v.tag]
         /\ \A t \in Tags : lt[t] # Nothing => lt[t] \in SnapshotOf(lt)
<1>1. \A t \in Tags : lt[t] # Nothing => lt[t] \in LiveValue /\ lt[t].tag = t
  BY DEF LatestOK, Values
<1> QED
  BY <1>1 DEF SnapshotOf, OnePerTag

\* A subscriber that starts with the whole snapshot ahead of it.
LEMMA StartIsAhead ==
  ASSUME NEW s, NEW f, NEW lt, NEW p, LatestOK(lt, p), f \in [Tags -> Values],
         \A t \in Tags : f[t] = Nothing
  PROVE  /\ ClientTyped(<<>>, SnapshotOf(lt), f)
         /\ Ahead(<<>>, SnapshotOf(lt), f, lt, p)
         /\ \A t \in Tags : Kept(s, <<>>, SnapshotOf(lt), f, lt, t)
<1> DEFINE A == SnapshotOf(lt)
<1>1. A \in SUBSET LiveValue /\ OnePerTag(A) /\ \A v \in A : v = lt[v.tag]
  BY SnapshotOfIs
<1>2. \A t \in Tags : lt[t] # Nothing => lt[t] \in A
  BY SnapshotOfIs
<1> HIDE DEF A
<1>3. \A v \in A : NewTo(f, lt, v)
  <2>1. ASSUME NEW v \in A PROVE NewTo(f, lt, v)
    <3>1. v \in LiveValue /\ v.tag \in Tags /\ v.n \in Nat /\ v.n > 0 /\ lt[v.tag] = v
      BY <1>1, ValuesAreSome
    <3>2. f[v.tag].n = 0
      BY <3>1, NothingIs
    <3> QED
      BY <3>1, <3>2 DEF NewTo
  <2> QED
    BY <2>1
<1>4. \A t \in Tags : f[t].n <= p
  BY NothingIs DEF LatestOK
<1>5. Len(<<>>) = 0 /\ 1 .. 0 = {} /\ <<>> \in Seq(LiveValue)
  OBVIOUS
<1> QED
  BY <1>1, <1>2, <1>3, <1>4, <1>5 DEF ClientTyped, Ahead, Kept, NoneOf, A

\* A subscriber that writes the whole snapshot at once.
LEMMA SnapshotShown ==
  ASSUME NEW s, NEW f, NEW lt, NEW p, LatestOK(lt, p), f \in [Tags -> Values],
         \A t \in Tags : f[t] = IF lt[t] # Nothing /\ Representable(s, lt[t]) THEN lt[t] ELSE Nothing
  PROVE  /\ ClientTyped(<<>>, {}, f)
         /\ Ahead(<<>>, {}, f, lt, p)
         /\ \A t \in Tags : Kept(s, <<>>, {}, f, lt, t)
<1>1. \A t \in Tags : f[t].n <= p
  <2>1. \A t \in Tags : lt[t] # Nothing => lt[t].n <= p
    BY DEF LatestOK
  <2> QED
    BY <2>1, NothingIs DEF LatestOK
<1>2. Len(<<>>) = 0 /\ 1 .. 0 = {} /\ <<>> \in Seq(LiveValue)
  OBVIOUS
<1> QED
  BY <1>1, <1>2 DEF ClientTyped, Ahead, Kept, OnePerTag

\* The first value of the queue becomes the one in hand.
LEMMA TakenIsAhead ==
  ASSUME NEW s, NEW q, NEW f, NEW lt, NEW p,
         LatestOK(lt, p), ClientTyped(q, {}, f), Ahead(q, {}, f, lt, p), q # <<>>
  PROVE  /\ Head(q) \in LiveValue
         /\ Len(Tail(q)) <= Len(q)
         /\ ClientTyped(Tail(q), {Head(q)}, f)
         /\ Ahead(Tail(q), {Head(q)}, f, lt, p)
         /\ \A t \in Tags : Kept(s, q, {}, f, lt, t) => Kept(s, Tail(q), {Head(q)}, f, lt, t)
<1> DEFINE r == Tail(q)
           x == Head(q)
<1>1. PICK m \in Nat : Len(q) = m + 1 /\ Len(r) = m
  BY DEF ClientTyped
<1>2. /\ r \in Seq(LiveValue) /\ x = q[1] /\ x \in LiveValue
      /\ \A i \in 1 .. m : r[i] = q[i + 1] /\ i + 1 \in 1 .. m + 1
  BY <1>1 DEF ClientTyped
<1> HIDE DEF r, x
<1>3. ClientTyped(r, {x}, f)
  BY <1>2 DEF ClientTyped
<1>4. Ahead(r, {x}, f, lt, p)
  <2>1. ASSUME NEW i \in 1 .. Len(r), NEW j \in 1 .. Len(r), i < j PROVE r[i].n < r[j].n
    <3>1. i + 1 \in 1 .. Len(q) /\ j + 1 \in 1 .. Len(q) /\ i + 1 < j + 1
      BY <2>1, <1>1
    <3> QED
      BY <3>1, <1>1, <1>2 DEF Ahead
  <2>2. ASSUME NEW i \in 1 .. Len(r) PROVE x.n < r[i].n
    <3>1. 1 \in 1 .. Len(q) /\ i + 1 \in 1 .. Len(q) /\ 1 < i + 1
      BY <1>1
    <3> QED
      BY <3>1, <1>1, <1>2 DEF Ahead
  <2>3. \A i \in 1 .. Len(r) : NewTo(f, lt, r[i])
    BY <1>1, <1>2 DEF Ahead
  <2>4. NewTo(f, lt, x)
    <3>1. 1 \in 1 .. Len(q)
      BY <1>1
    <3> QED
      BY <3>1, <1>2 DEF Ahead
  <2>5. OnePerTag({x})
    BY DEF OnePerTag
  <2>6. \A t \in Tags : f[t].n <= p
    BY DEF Ahead
  <2> QED
    BY <2>1, <2>2, <2>3, <2>4, <2>5, <2>6 DEF Ahead
<1>5. ASSUME NEW t \in Tags, Kept(s, q, {}, f, lt, t)
      PROVE  Kept(s, r, {x}, f, lt, t)
  <2>1. NoneOf(q, t) => NoneOf(r, t)
    BY <1>1, <1>2 DEF NoneOf
  <2>2. \A v : LastIn(q, t, v) => LastIn(r, t, v) \/ (NoneOf(r, t) /\ v = x)
    <3>1. ASSUME NEW v, LastIn(q, t, v) PROVE LastIn(r, t, v) \/ (NoneOf(r, t) /\ v = x)
      <4>1. PICK i \in 1 .. Len(q) : q[i] = v /\ \A j \in i + 1 .. Len(q) : q[j].tag # t
        BY <3>1 DEF LastIn
      <4>2. \A j \in 1 .. m : j + 1 \in i + 1 .. Len(q) => r[j].tag # t
        BY <4>1, <1>2
      <4>3. CASE i = 1
        <5>1. \A j \in 1 .. m : j + 1 \in i + 1 .. Len(q)
          BY <4>3, <1>1
        <5> QED
          BY <5>1, <4>1, <4>2, <4>3, <1>1, <1>2 DEF NoneOf
      <4>4. CASE i # 1
        <5>1. i - 1 \in 1 .. m /\ i - 1 + 1 = i
          BY <4>4, <1>1
        <5>2. r[i - 1] = v
          BY <5>1, <4>1, <1>2
        <5>3. \A j \in i - 1 + 1 .. m : j \in 1 .. m /\ j + 1 \in i + 1 .. Len(q)
          BY <1>1
        <5> QED
          BY <5>1, <5>2, <5>3, <4>2, <1>1 DEF LastIn
      <4> QED
        BY <4>3, <4>4
    <3> QED
      BY <3>1
  <2> QED
    BY <1>5, <2>1, <2>2 DEF Kept
<1>6. x \in LiveValue /\ Len(r) <= Len(q)
  BY <1>1, <1>2
<1> QED
  BY <1>3, <1>4, <1>5, <1>6 DEF r, x

-----------------------------------------------------------------------------
(* The inductive invariant.                                                  *)

Sight(s, t) == IF s \in Modbus THEN Registered(blocks[s], t) ELSE view[s][t]
Sights(s) == [t \in Tags |-> Sight(s, t)]

\* What s has taken and not handled.
Awaited(s) == todo[s] \cup ({hand[s]} \ {Nothing})

ScreensTyped ==
  /\ view \in [Sockets \cup OpcUa -> [Tags -> Values]]
  /\ DOMAIN blocks = Modbus
  /\ \A s \in Modbus : BlocksOK(blocks[s])

Typed ==
  /\ subs \in SUBSET Subscribers
  /\ queue \in [Subscribers -> Seq(LiveValue)]
  /\ pc \in [Subscribers -> {"off", "snapshot", "stream"}]
  /\ todo \in [Subscribers -> SUBSET LiveValue]
  /\ hand \in [Subscribers -> Values]
  /\ ScreensTyped
  /\ published \in 0 .. MaxUpdates

\* Where s is says what it has.
Places(s) ==
  /\ pc[s] = "off" => /\ s \notin subs /\ queue[s] = <<>> /\ hand[s] = Nothing /\ todo[s] = {}
                      /\ \A t \in Tags : Sights(s)[t] = Nothing
  /\ pc[s] = "snapshot" => hand[s] # Nothing
  /\ pc[s] = "stream" => todo[s] = {}
  /\ s \in Modbus => hand[s] = Nothing /\ todo[s] = {}
  /\ hand[s] \notin todo[s]
  /\ Len(queue[s]) <= Capacity

KeptAll(s) == \A t \in Tags : Kept(s, queue[s], Awaited(s), Sights(s), latest, t)

ClientInv(s) ==
  /\ Places(s)
  /\ ClientTyped(queue[s], Awaited(s), Sights(s))
  /\ Ahead(queue[s], Awaited(s), Sights(s), latest, published)
  /\ s \in Servers \cap subs => KeptAll(s)

LiveInv ==
  /\ Typed
  /\ LatestOK(latest, published)
  /\ \A s \in Subscribers : ClientInv(s)

\* What the client of s sees never goes back while s runs.
Onward(s) ==
  (pc[s] # "off" /\ pc'[s] # "off") => \A t \in Tags : Sights(s)[t].n <= Sights(s)'[t].n

LEMMA InvInit == Init => LiveInv
<1> SUFFICES ASSUME Init PROVE LiveInv
  OBVIOUS
<1>1. Typed
  BY Assumed, NewBlocksAreBlank
     DEF Init, Typed, ScreensTyped, Unseen, Values, LiveBusAssumption
<1>2. LatestOK(latest, published)
  BY DEF Init, Unseen, LatestOK, Values
<1>3. ASSUME NEW s \in Subscribers PROVE ClientInv(s)
  <2>1. \A t \in Tags : Sights(s)[t] = Nothing
    BY NewBlocksAreBlank DEF Init, Sights, Sight, Unseen, Subscribers, Servers
  <2>2. Sights(s) \in [Tags -> Values]
    BY <2>1 DEF Sights, Values
  <2>3. queue[s] = <<>> /\ hand[s] = Nothing /\ todo[s] = {} /\ pc[s] = "off" /\ s \notin subs
    BY DEF Init
  <2>4. Awaited(s) = {}
    BY <2>3 DEF Awaited
  <2>5. Places(s)
    BY <2>1, <2>3, Assumed DEF Places, LiveBusAssumption
  <2>6. ClientTyped(queue[s], {}, Sights(s)) /\ Ahead(queue[s], {}, Sights(s), latest, published)
    <3>1. \A t \in Tags : latest[t] = Nothing
      BY DEF Init, Unseen
    <3>2. PICK f : f = Sights(s)
      OBVIOUS
    <3>3. ClientTyped(<<>>, {}, f) /\ Ahead(<<>>, {}, f, latest, published)
      BY <1>2, <2>1, <2>2, <3>1, <3>2, SnapshotShown
    <3> QED
      BY <2>3, <3>2, <3>3
  <2> QED
    BY <2>3, <2>4, <2>5, <2>6 DEF ClientInv
<1> QED
  BY <1>1, <1>2, <1>3 DEF LiveInv

\* The bus and the other subscribers, in a step of one of them.
Alike(c) ==
  /\ queue'[c] = queue[c] /\ pc'[c] = pc[c] /\ todo'[c] = todo[c] /\ hand'[c] = hand[c]
  /\ Sights(c)' = Sights(c)
  /\ c \in subs' <=> c \in subs

LEMMA AlikeInv ==
  ASSUME LiveInv, NEW c \in Subscribers, Alike(c), latest' = latest, published' = published
  PROVE  ClientInv(c)' /\ Onward(c)
<1>1. Awaited(c)' = Awaited(c)
  BY DEF Alike, Awaited
<1>2. Places(c)'
  BY DEF Alike, LiveInv, ClientInv, Places
<1>3. /\ ClientTyped(queue[c], Awaited(c), Sights(c))'
      /\ Ahead(queue[c], Awaited(c), Sights(c), latest, published)'
  BY <1>1 DEF Alike, LiveInv, ClientInv
<1>4. (c \in Servers \cap subs)' => KeptAll(c)'
  <2>1. KeptAll(c) => KeptAll(c)'
    BY <1>1 DEF Alike, KeptAll
  <2> QED
    BY <2>1 DEF Alike, LiveInv, ClientInv
<1>5. Onward(c)
  <2>1. \A t \in Tags : Sights(c)[t].n \in Nat
    BY NumberOf DEF LiveInv, ClientInv, ClientTyped
  <2> QED
    BY <2>1 DEF Alike, Onward
<1> QED
  BY <1>2, <1>3, <1>4, <1>5 DEF ClientInv

LEMMA OneMoves ==
  ASSUME LiveInv, NEW s \in Subscribers, Typed', latest' = latest, published' = published,
         ClientInv(s)', Onward(s), \A c \in Subscribers \ {s} : Alike(c)
  PROVE  LiveInv' /\ \A c \in Subscribers : Onward(c)
<1>1. LatestOK(latest, published)'
  BY DEF LiveInv
<1> QED
  BY <1>1, AlikeInv DEF LiveInv

\* Nothing that a client can see has changed.
LEMMA SameScreens ==
  ASSUME UNCHANGED clientVars
  PROVE  (ScreensTyped => ScreensTyped') /\ \A s : Sights(s)' = Sights(s)
BY DEF clientVars, ScreensTyped, Sights, Sight

\* A value sent or written.
LEMMA ShownIs ==
  ASSUME ScreensTyped, NEW s \in Subscribers, NEW lv \in LiveValue, Shows(s, lv)
  PROVE  /\ ScreensTyped'
         /\ Sights(s)' = After(s, Sights(s), lv)
         /\ \A c \in Subscribers \ {s} : Sights(c)' = Sights(c)
<1>1. lv.tag \in Tags /\ lv \in Values
  BY ValuesAreSome DEF Values
<1>2. CASE s \in Modbus
  <2> DEFINE V == Fit({lv})
  <2>1. V \in SUBSET LiveValue /\ OnePerTag(V) /\ V = IF lv.fit THEN {lv} ELSE {}
    BY DEF Fit, OnePerTag
  <2>2. blocks' = [blocks EXCEPT ![s] = Write(@, V)] /\ view' = view
    BY <1>2 DEF Shows
  <2>3. blocks'[s] = Write(blocks[s], V) /\ \A c \in Modbus \ {s} : blocks'[c] = blocks[c]
    BY <1>2, <2>2 DEF ScreensTyped
  <2> HIDE DEF V
  <2>4. /\ BlocksOK(blocks'[s])
        /\ \A v \in V : v.tag \in Mapped => Registered(blocks'[s], v.tag) = v
        /\ \A t \in Tags : (\A v \in V : v.tag # t) => Registered(blocks'[s], t) = Registered(blocks[s], t)
    <3>1. BlocksOK(blocks[s])
      BY <1>2 DEF ScreensTyped
    <3>2. PICK b : b = blocks[s]
      OBVIOUS
    <3>3. Reads(Write(b, V), V, b)
      BY <2>1, <3>1, <3>2, WriteKeeps
    <3> QED
      BY <2>3, <3>2, <3>3 DEF Reads
  <2>5. ScreensTyped'
    BY <2>2, <2>3, <2>4 DEF ScreensTyped
  <2>6. ASSUME NEW t \in Tags PROVE Sight(s, t)' = After(s, Sights(s), lv)[t]
    <3>1. Sight(s, t)' = Registered(blocks'[s], t) /\ Sights(s)[t] = Registered(blocks[s], t)
      BY <1>2 DEF Sight, Sights
    <3>2. CASE t \notin Mapped
      <4>1. Registered(blocks'[s], t) = Registered(blocks[s], t)
        BY <3>2 DEF Registered, Readable
      <4>2. Representable(s, lv) => lv.tag # t
        BY <1>2, <3>2, Assumed DEF Representable, LiveBusAssumption
      <4> QED
        BY <3>1, <4>1, <4>2 DEF After, Sights
    <3>3. CASE t \in Mapped /\ lv.tag = t /\ lv.fit
      <4>1. Representable(s, lv)
        BY <3>3 DEF Representable
      <4> QED
        BY <1>1, <2>1, <2>4, <3>1, <3>3, <4>1 DEF After, Sights
    <3>4. CASE lv.tag # t \/ ~ lv.fit
      <4>1. Registered(blocks'[s], t) = Registered(blocks[s], t)
        BY <2>1, <2>4, <3>4
      <4>2. Representable(s, lv) => lv.tag # t
        BY <1>2, <3>4, Assumed DEF Representable, LiveBusAssumption
      <4> QED
        BY <3>1, <4>1, <4>2 DEF After, Sights
    <3> QED
      BY <3>2, <3>3, <3>4
  <2>7. Sights(s)' = After(s, Sights(s), lv)
    <3>1. After(s, Sights(s), lv) = [t \in Tags |-> After(s, Sights(s), lv)[t]]
      BY DEF After, Sights
    <3> QED
      BY <2>6, <3>1 DEF Sights
  <2>8. \A c \in Subscribers \ {s} : Sights(c)' = Sights(c)
    BY <2>2, <2>3 DEF Sights, Sight
  <2> QED
    BY <2>5, <2>7, <2>8
<1>3. CASE s \notin Modbus
  <2>1. s \in Sockets \cup OpcUa
    BY <1>3 DEF Subscribers, Servers
  <2>2. view' = [view EXCEPT ![s][lv.tag] = Shown(s, lv, @)] /\ blocks' = blocks
    BY <1>3 DEF Shows
  <2>3. view[s] \in [Tags -> Values] /\ view \in [Sockets \cup OpcUa -> [Tags -> Values]]
    BY <2>1 DEF ScreensTyped
  <2>4. Shown(s, lv, view[s][lv.tag]) \in Values
    BY <1>1, <2>3 DEF Shown
  <2>5. /\ view'[s] = [view[s] EXCEPT ![lv.tag] = Shown(s, lv, view[s][lv.tag])]
        /\ \A c \in Sockets \cup OpcUa : c # s => view'[c] = view[c]
    BY <2>1, <2>2, <2>3
  <2>6. ScreensTyped'
    BY <1>1, <2>1, <2>2, <2>3, <2>4 DEF ScreensTyped
  <2>7. Sights(s) = view[s]
    BY <1>3, <2>3 DEF Sights, Sight
  <2>8. Representable(s, lv) <=> s \in Sockets \/ lv.fit
    BY <1>3 DEF Representable
  <2>9. view'[s] = After(s, view[s], lv)
    BY <1>1, <2>3, <2>5, <2>8 DEF After, Shown
  <2>10. Sights(s)' = view'[s]
    <3>1. view'[s] \in [Tags -> Values]
      BY <2>1, <2>6 DEF ScreensTyped
    <3> QED
      BY <1>3, <3>1 DEF Sights, Sight
  <2>11. \A c \in Subscribers \ {s} : Sights(c)' = Sights(c)
    BY <2>2, <2>5 DEF Sights, Sight, Subscribers, Servers
  <2> QED
    BY <2>6, <2>7, <2>9, <2>10, <2>11
<1> QED
  BY <1>2, <1>3

LEMMA PartOf ==
  ASSUME LiveInv, NEW s \in Subscribers
  PROVE  /\ Typed /\ LatestOK(latest, published) /\ ClientInv(s)
         /\ ScreensTyped /\ published \in Nat /\ Places(s)
         /\ ClientTyped(queue[s], Awaited(s), Sights(s))
         /\ Ahead(queue[s], Awaited(s), Sights(s), latest, published)
BY DEF LiveInv, Typed, ClientInv, LatestOK

LEMMA SnapshotIs == Snapshot = SnapshotOf(latest)
BY DEF Snapshot, SnapshotOf

LEMMA UpdateStep ==
  ASSUME LiveInv, Update
  PROVE  LiveInv' /\ \A c \in Subscribers : Onward(c)
<1>1. Typed /\ LatestOK(latest, published) /\ published \in Nat /\ latest \in [Tags -> Values]
  BY DEF LiveInv, LatestOK
<1>2. published < MaxUpdates /\ published' = published + 1 /\ UNCHANGED <<pc, todo, hand, view, blocks>>
  BY DEF Update, clientVars
<1>3. PICK t0 \in Tags, fit \in BOOLEAN :
        LET lv == [tag |-> t0, n |-> published + 1, fit |-> fit] IN
        /\ latest' = [latest EXCEPT ![t0] = lv]
        /\ queue' = [s \in Subscribers |->
                       IF s \in subs /\ HasRoom(s) THEN Append(queue[s], lv) ELSE queue[s]]
        /\ subs' = Reached
  BY DEF Update
<1> DEFINE x0 == [tag |-> t0, n |-> published + 1, fit |-> fit]
<1>4. PICK x : x = x0
  OBVIOUS
<1>5. x \in LiveValue /\ x.n = published + 1 /\ x.tag = t0
  BY <1>1, <1>2, <1>4, Assumed DEF LiveValue, LiveBusAssumption
<1>6. /\ latest' = [latest EXCEPT ![x.tag] = x]
      /\ queue' = [s \in Subscribers |->
                     IF s \in subs /\ HasRoom(s) THEN Append(queue[s], x) ELSE queue[s]]
      /\ subs' = Reached
  BY <1>3, <1>4, <1>5
<1>7. ScreensTyped' /\ \A s : Sights(s)' = Sights(s) /\ Awaited(s)' = Awaited(s)
  BY <1>1, <1>2, SameScreens DEF clientVars, Typed, Awaited
<1>8. ASSUME NEW c \in Subscribers
      PROVE  ClientInv(c)' /\ Onward(c) /\ queue'[c] \in Seq(LiveValue)
  <2>1. /\ Places(c) /\ ClientTyped(queue[c], Awaited(c), Sights(c))
        /\ Ahead(queue[c], Awaited(c), Sights(c), latest, published)
    BY <1>8, PartOf
  <2>2. PICK q, A, f : q = queue[c] /\ A = Awaited(c) /\ f = Sights(c)
    OBVIOUS
  <2>3. PICK lt, p, new : lt = latest /\ p = published /\ new = [lt EXCEPT ![x.tag] = x]
    OBVIOUS
  <2>4. /\ Ahead(q, A, f, new, p + 1)
        /\ ClientTyped(Append(q, x), A, f) /\ Ahead(Append(q, x), A, f, new, p + 1)
        /\ ClientTyped(q, A, f)
    BY <1>1, <1>5, <2>1, <2>2, <2>3, UpdateIsAhead
  <2>5. latest' = new /\ published' = p + 1
    BY <1>2, <1>6, <2>3
  <2>6. q \in Seq(LiveValue) /\ Len(q) \in Nat /\ Len(q) <= Capacity
    BY <2>1, <2>2 DEF ClientTyped, Places
  <2>7. CASE c \in subs /\ HasRoom(c)
    <3>1. queue'[c] = Append(q, x)
      BY <1>6, <2>2, <2>7
    <3>2. Len(Append(q, x)) <= Capacity
      BY <2>2, <2>6, <2>7, Assumed DEF HasRoom, LiveBusAssumption
    <3>3. Places(c)'
      BY <1>2, <1>7, <2>1, <2>7, <3>1, <3>2 DEF Places
    <3>4. ASSUME c \in Servers \cap subs' PROVE KeptAll(c)'
      <4>1. ASSUME NEW t \in Tags PROVE Kept(c, Append(q, x), A, f, new, t)
        <5>1. Kept(c, q, A, f, lt, t)
          BY <2>2, <2>3, <2>7, <3>4 DEF LiveInv, ClientInv, KeptAll
        <5> QED
          BY <1>1, <1>5, <2>3, <2>4, <5>1, UpdateIsKept
      <4> QED
        BY <1>7, <2>2, <2>5, <3>1, <4>1 DEF KeptAll
    <3> QED
      BY <1>7, <2>2, <2>4, <2>5, <3>1, <3>3, <3>4, NumberOf DEF ClientInv, Onward, ClientTyped
  <2>8. CASE ~ (c \in subs /\ HasRoom(c))
    <3>1. queue'[c] = q /\ c \notin subs'
      BY <1>6, <2>2, <2>8 DEF Reached
    <3>2. Places(c)'
      BY <1>2, <1>7, <2>1, <2>2, <3>1 DEF Places
    <3> QED
      BY <1>7, <2>2, <2>4, <2>5, <3>1, <3>2, NumberOf DEF ClientInv, Onward, ClientTyped
  <2> QED
    BY <2>7, <2>8
<1>9. Typed'
  <2>1. queue' \in [Subscribers -> Seq(LiveValue)]
    BY <1>6, <1>8
  <2>2. published' \in 0 .. MaxUpdates
    BY <1>1, <1>2, Assumed DEF LiveBusAssumption
  <2>3. subs' \in SUBSET Subscribers
    BY <1>1, <1>6 DEF Typed, Reached
  <2> QED
    BY <1>1, <1>2, <1>7, <2>1, <2>2, <2>3 DEF Typed
<1>10. LatestOK(latest, published)'
  BY <1>1, <1>2, <1>5, <1>6, LatestMoves
<1> QED
  BY <1>8, <1>9, <1>10 DEF LiveInv

\* The values of the snapshot, one in hand.
LEMMA SendsIs ==
  ASSUME Typed, NEW s \in Subscribers, NEW V \in SUBSET LiveValue, Sends(s, V)
  PROVE  /\ Awaited(s)' = V
         /\ hand' \in [Subscribers -> Values] /\ todo' \in [Subscribers -> SUBSET LiveValue]
         /\ hand'[s] # Nothing /\ hand'[s] \notin todo'[s]
         /\ \A c \in Subscribers \ {s} : hand'[c] = hand[c] /\ todo'[c] = todo[c]
<1>1. PICK x \in V : hand' = [hand EXCEPT ![s] = x] /\ todo' = [todo EXCEPT ![s] = V \ {x}]
  BY DEF Sends
<1>2. x \in LiveValue /\ x # Nothing
  BY NothingIs
<1>3. hand'[s] = x /\ todo'[s] = V \ {x}
  BY <1>1 DEF Typed
<1>4. Awaited(s)' = V
  BY <1>2, <1>3 DEF Awaited
<1> QED
  BY <1>1, <1>2, <1>3, <1>4 DEF Typed, Values

\* A client that starts sees nothing, and its subscriber has nothing.
LEMMA OffIs ==
  ASSUME LiveInv, NEW s \in Subscribers, pc[s] = "off"
  PROVE  /\ queue[s] = <<>> /\ Awaited(s) = {} /\ Sights(s) \in [Tags -> Values]
         /\ \A t \in Tags : Sights(s)[t] = Nothing
BY PartOf DEF Places, Awaited, ClientTyped

LEMMA StartsWhole ==
  ASSUME LiveInv, NEW s \in Subscribers, pc[s] = "off", UNCHANGED clientVars,
         latest' = latest, published' = published, queue' = queue, Places(s)',
         Awaited(s)' = SnapshotOf(latest)
  PROVE  ClientInv(s)'
<1>1. LatestOK(latest, published)
  BY DEF LiveInv
<1>2. PICK f : f = Sights(s) /\ f = Sights(s)'
  BY SameScreens
<1>3. /\ ClientTyped(<<>>, SnapshotOf(latest), f)
      /\ Ahead(<<>>, SnapshotOf(latest), f, latest, published)
      /\ \A t \in Tags : Kept(s, <<>>, SnapshotOf(latest), f, latest, t)
  BY <1>1, <1>2, OffIs, StartIsAhead
<1>4. queue'[s] = <<>>
  BY OffIs
<1> QED
  BY <1>2, <1>3, <1>4 DEF ClientInv, KeptAll

LEMMA ConnectStep ==
  ASSUME LiveInv, NEW s \in Subscribers, Connect(s) \/ ForwardOpcUa(s)
  PROVE  LiveInv' /\ \A c \in Subscribers : Onward(c)
<1>1. /\ Typed /\ LatestOK(latest, published) /\ ScreensTyped /\ Places(s) /\ pc[s] = "off"
      /\ s \notin Modbus
  BY PartOf, Assumed DEF Connect, ForwardOpcUa, LiveBusAssumption
<1>2. UNCHANGED <<latest, queue, clientVars, published>>
  BY DEF Connect, ForwardOpcUa
<1>3. subs' = subs \/ subs' = subs \cup {s}
  BY DEF Connect, ForwardOpcUa, Subscribed
<1>4. SnapshotOf(latest) \in SUBSET LiveValue
  BY <1>1, SnapshotOfIs
<1>5. ScreensTyped' /\ \A c : Sights(c)' = Sights(c)
  BY <1>1, <1>2, SameScreens
<1>6. queue[s] = <<>> /\ Awaited(s) = {} /\ Len(queue[s]) <= Capacity
  BY <1>1, OffIs DEF Places
<1>7. CASE Sends(s, Snapshot) /\ pc' = [pc EXCEPT ![s] = "snapshot"]
  <2>1. Sends(s, SnapshotOf(latest))
    BY <1>7, SnapshotIs
  <2>2. /\ Awaited(s)' = SnapshotOf(latest)
        /\ hand' \in [Subscribers -> Values] /\ todo' \in [Subscribers -> SUBSET LiveValue]
        /\ hand'[s] # Nothing /\ hand'[s] \notin todo'[s]
        /\ \A c \in Subscribers \ {s} : hand'[c] = hand[c] /\ todo'[c] = todo[c]
    BY <1>1, <1>4, <2>1, SendsIs
  <2>3. pc'[s] = "snapshot"
    BY <1>1, <1>7 DEF Typed
  <2>4. Typed'
    BY <1>1, <1>2, <1>3, <1>5, <1>7, <2>2 DEF Typed
  <2>5. Places(s)'
    BY <1>1, <1>2, <1>6, <2>2, <2>3 DEF Places
  <2>6. ClientInv(s)'
    BY <1>1, <1>2, <2>2, <2>5, StartsWhole
  <2>7. \A c \in Subscribers \ {s} : Alike(c)
    BY <1>1, <1>2, <1>3, <1>5, <1>7, <2>2 DEF Alike, Typed
  <2>8. Onward(s)
    BY <1>1 DEF Onward
  <2> QED
    BY <1>2, <2>4, <2>6, <2>7, <2>8, OneMoves
<1>8. CASE Snapshot = {} /\ pc' = [pc EXCEPT ![s] = "stream"] /\ UNCHANGED <<hand, todo>>
  <2>1. Awaited(s)' = SnapshotOf(latest)
    BY <1>6, <1>8, SnapshotIs DEF Awaited
  <2>2. pc'[s] = "stream" /\ todo[s] = {} /\ hand[s] = Nothing
    BY <1>1, <1>8 DEF Typed, Places
  <2>3. Typed'
    BY <1>1, <1>2, <1>3, <1>5, <1>8 DEF Typed
  <2>4. Places(s)'
    BY <1>1, <1>2, <1>6, <1>8, <2>2 DEF Places
  <2>5. ClientInv(s)'
    BY <1>1, <1>2, <2>1, <2>4, StartsWhole
  <2>6. \A c \in Subscribers \ {s} : Alike(c)
    BY <1>1, <1>2, <1>3, <1>5, <1>8 DEF Alike, Typed
  <2>7. Onward(s)
    BY <1>1 DEF Onward
  <2> QED
    BY <1>2, <2>3, <2>5, <2>6, <2>7, OneMoves
<1> QED
  BY <1>7, <1>8 DEF Connect, ForwardOpcUa

LEMMA ForwardModbusStep ==
  ASSUME LiveInv, NEW s \in Subscribers, ForwardModbus(s)
  PROVE  LiveInv' /\ \A c \in Subscribers : Onward(c)
<1>1. /\ Typed /\ LatestOK(latest, published) /\ ScreensTyped /\ Places(s) /\ pc[s] = "off"
      /\ s \in Modbus
  BY PartOf DEF ForwardModbus
<1>2. UNCHANGED <<latest, queue, todo, hand, view, published>> /\ subs' = subs \cup {s}
  BY DEF ForwardModbus, Subscribed
<1> DEFINE V == Fit(SnapshotOf(latest))
<1>3. V \in SUBSET LiveValue /\ OnePerTag(V)
  BY <1>1, SnapshotOfIs DEF Fit, OnePerTag
<1>4. blocks' = [blocks EXCEPT ![s] = Write(@, V)] /\ pc' = [pc EXCEPT ![s] = "stream"]
  BY SnapshotIs DEF ForwardModbus
<1>5. blocks'[s] = Write(blocks[s], V) /\ \A c \in Modbus \ {s} : blocks'[c] = blocks[c]
  BY <1>1, <1>4 DEF ScreensTyped
<1>6. \A v \in V : v = latest[v.tag] /\ v.tag \in Tags /\ v # Nothing /\ v.fit
  BY <1>1, <1>3, SnapshotOfIs, ValuesAreSome DEF Fit
<1>7. \A t \in Tags : latest[t] # Nothing /\ latest[t].fit => latest[t] \in V /\ latest[t].tag = t
  BY <1>1, SnapshotOfIs DEF Fit, LatestOK
<1> HIDE DEF V
<1>8. Reads(blocks'[s], V, blocks[s])
  <2>1. PICK b : b = blocks[s]
    OBVIOUS
  <2>2. Reads(Write(b, V), V, b)
    BY <1>1, <1>3, <2>1, WriteKeeps DEF ScreensTyped
  <2> QED
    BY <1>5, <2>1, <2>2
<1>9. ScreensTyped'
  BY <1>1, <1>2, <1>4, <1>5, <1>8 DEF ScreensTyped, Reads
<1>10. \A c \in Subscribers \ {s} : Sights(c)' = Sights(c)
  BY <1>2, <1>5 DEF Sights, Sight
<1>11. ASSUME NEW t \in Tags
       PROVE  Sights(s)'[t] = IF latest[t] # Nothing /\ Representable(s, latest[t]) THEN latest[t] ELSE Nothing
  <2>1. Sights(s)'[t] = Registered(blocks'[s], t) /\ Registered(blocks[s], t) = Nothing
    BY <1>1, OffIs DEF Sights, Sight
  <2>2. Representable(s, latest[t]) <=> latest[t].fit /\ latest[t].tag \in Mapped
    BY <1>1, Assumed DEF Representable, LiveBusAssumption
  <2>3. CASE latest[t] # Nothing /\ latest[t].fit /\ t \in Mapped
    BY <1>7, <1>8, <2>1, <2>2, <2>3 DEF Reads
  <2>4. CASE t \notin Mapped
    <3>1. Registered(blocks'[s], t) = Nothing
      BY <2>4 DEF Registered, Readable
    <3>2. latest[t] # Nothing => latest[t].tag = t
      BY <1>1 DEF LatestOK
    <3> QED
      BY <2>1, <2>2, <2>4, <3>1, <3>2
  <2>5. CASE latest[t] = Nothing \/ ~ latest[t].fit
    <3>1. \A v \in V : v.tag # t
      BY <1>6, <2>5
    <3>2. Registered(blocks'[s], t) = Nothing
      BY <1>8, <2>1, <3>1 DEF Reads
    <3> QED
      BY <2>1, <2>2, <2>5, <3>2
  <2> QED
    BY <2>3, <2>4, <2>5
<1>12. Sights(s)' \in [Tags -> Values]
  <2>1. \A t \in Tags : Sights(s)'[t] \in Values
    BY <1>1, <1>11 DEF LatestOK, Values
  <2> QED
    BY <2>1 DEF Sights
<1>13. queue[s] = <<>> /\ Awaited(s)' = {} /\ todo[s] = {} /\ hand[s] = Nothing /\ pc'[s] = "stream"
  BY <1>1, <1>2, <1>4 DEF Awaited, Typed, Places
<1>14. ClientInv(s)'
  <2>1. PICK f : f = Sights(s)'
    OBVIOUS
  <2>2. /\ ClientTyped(<<>>, {}, f) /\ Ahead(<<>>, {}, f, latest, published)
        /\ \A t \in Tags : Kept(s, <<>>, {}, f, latest, t)
    BY <1>1, <1>11, <1>12, <2>1, SnapshotShown
  <2>3. Places(s)'
    BY <1>1, <1>2, <1>13 DEF Places
  <2> QED
    BY <1>2, <1>13, <2>1, <2>2, <2>3 DEF ClientInv, KeptAll
<1>15. Typed'
  BY <1>1, <1>2, <1>4, <1>9 DEF Typed
<1>16. \A c \in Subscribers \ {s} : Alike(c)
  BY <1>1, <1>2, <1>4, <1>10 DEF Alike, Typed
<1>17. Onward(s)
  BY <1>1 DEF Onward
<1> QED
  BY <1>2, <1>14, <1>15, <1>16, <1>17, OneMoves

\* A value that s handles, when q and A are what it has to handle.
LEMMA HandledStep ==
  ASSUME LiveInv, NEW s \in Subscribers, NEW q, NEW A, NEW x \in A, Shows(s, x),
         ClientTyped(q, A, Sights(s)), Ahead(q, A, Sights(s), latest, published),
         s \in Servers \cap subs => \A t \in Tags : Kept(s, q, A, Sights(s), latest, t),
         latest' = latest, published' = published, queue'[s] = q, Awaited(s)' = A \ {x},
         Places(s)', s \in Servers \cap subs' => s \in subs
  PROVE  ClientInv(s)' /\ Onward(s)
<1>1. LatestOK(latest, published) /\ ScreensTyped /\ x \in LiveValue
  BY PartOf DEF ClientTyped
<1>2. PICK f, lt, p : f = Sights(s) /\ lt = latest /\ p = published
  OBVIOUS
<1>3. Sights(s)' = After(s, f, x)
  BY <1>1, <1>2, ShownIs
<1>4. /\ ClientTyped(q, A \ {x}, After(s, f, x)) /\ Ahead(q, A \ {x}, After(s, f, x), lt, p)
      /\ \A t \in Tags : f[t].n <= After(s, f, x)[t].n
  BY <1>1, <1>2, HandledIsAhead
<1>5. ASSUME s \in Servers \cap subs' PROVE KeptAll(s)'
  <2>1. ASSUME NEW t \in Tags PROVE Kept(s, q, A \ {x}, After(s, f, x), lt, t)
    <3>1. Kept(s, q, A, f, lt, t)
      BY <1>2, <1>5
    <3> QED
      BY <1>1, <1>2, <3>1, HandledIsKept
  <2> QED
    BY <1>2, <1>3, <2>1 DEF KeptAll
<1> QED
  BY <1>2, <1>3, <1>4, <1>5 DEF ClientInv, Onward

LEMMA SnapshotSentStep ==
  ASSUME LiveInv, NEW s \in Subscribers, SnapshotSent(s)
  PROVE  LiveInv' /\ \A c \in Subscribers : Onward(c)
<1>1. /\ Typed /\ ScreensTyped /\ Places(s) /\ pc[s] = "snapshot" /\ Shows(s, hand[s])
      /\ ClientTyped(queue[s], Awaited(s), Sights(s))
      /\ Ahead(queue[s], Awaited(s), Sights(s), latest, published)
  BY PartOf DEF SnapshotSent, InHand
<1>2. UNCHANGED <<latest, queue, published>>
  BY DEF SnapshotSent
<1>3. hand[s] # Nothing /\ hand[s] \in LiveValue /\ hand[s] \notin todo[s] /\ s \notin Modbus
  BY <1>1, NumberOf DEF Places, Typed
<1>4. hand[s] \in Awaited(s) /\ todo[s] = Awaited(s) \ {hand[s]} /\ todo[s] \in SUBSET LiveValue
  BY <1>1, <1>3 DEF Awaited, Typed
<1>5. ScreensTyped' /\ \A c \in Subscribers \ {s} : Sights(c)' = Sights(c)
  BY <1>1, <1>3, ShownIs
<1>6. /\ subs' = subs \/ (s \in Sockets /\ subs' = subs \cup {s})
      /\ Awaited(s)' = todo[s] /\ Places(s)'
      /\ hand' \in [Subscribers -> Values] /\ todo' \in [Subscribers -> SUBSET LiveValue]
      /\ pc' \in [Subscribers -> {"off", "snapshot", "stream"}]
      /\ \A c \in Subscribers \ {s} : hand'[c] = hand[c] /\ todo'[c] = todo[c] /\ pc'[c] = pc[c]
  <2>1. CASE todo[s] # {} /\ Sends(s, todo[s]) /\ UNCHANGED <<pc, subs>>
    <3>1. /\ Awaited(s)' = todo[s]
          /\ hand' \in [Subscribers -> Values] /\ todo' \in [Subscribers -> SUBSET LiveValue]
          /\ hand'[s] # Nothing /\ hand'[s] \notin todo'[s]
          /\ \A c \in Subscribers \ {s} : hand'[c] = hand[c] /\ todo'[c] = todo[c]
      <4>1. PICK V : V = todo[s] /\ V \in SUBSET LiveValue
        BY <1>4
      <4> QED
        BY <1>1, <2>1, <4>1, SendsIs
    <3>2. Places(s)'
      BY <1>1, <1>2, <1>3, <2>1, <3>1 DEF Places
    <3> QED
      BY <1>1, <2>1, <3>1, <3>2 DEF Typed
  <2>2. CASE /\ todo[s] = {} /\ hand' = [hand EXCEPT ![s] = Nothing]
             /\ pc' = [pc EXCEPT ![s] = "stream"] /\ UNCHANGED todo
             /\ IF s \in Sockets THEN Subscribed(s) ELSE UNCHANGED subs
    <3>1. hand'[s] = Nothing /\ pc'[s] = "stream" /\ todo'[s] = {}
      BY <1>1, <2>2 DEF Typed
    <3>2. hand' \in [Subscribers -> Values]
      BY <1>1, <2>2 DEF Typed, Values
    <3>3. Places(s)'
      BY <1>1, <1>2, <3>1 DEF Places
    <3> QED
      BY <1>1, <2>2, <3>1, <3>2, <3>3 DEF Typed, Awaited, Subscribed
  <2> QED
    BY <2>1, <2>2 DEF SnapshotSent
<1>7. s \in Servers \cap subs' => s \in subs
  BY <1>6, Assumed DEF Servers, LiveBusAssumption
<1>8. ClientInv(s)' /\ Onward(s)
  <2>1. s \in Servers \cap subs => \A t \in Tags : Kept(s, queue[s], Awaited(s), Sights(s), latest, t)
    BY DEF LiveInv, ClientInv, KeptAll
  <2>2. PICK q, A, x : q = queue[s] /\ A = Awaited(s) /\ x = hand[s]
    OBVIOUS
  <2> QED
    BY <1>1, <1>2, <1>4, <1>6, <1>7, <2>1, <2>2, HandledStep
<1>9. Typed'
  BY <1>1, <1>2, <1>5, <1>6 DEF Typed
<1>10. \A c \in Subscribers \ {s} : Alike(c)
  BY <1>2, <1>5, <1>6 DEF Alike
<1> QED
  BY <1>2, <1>8, <1>9, <1>10, OneMoves

LEMMA SentStep ==
  ASSUME LiveInv, NEW s \in Subscribers, Sent(s)
  PROVE  LiveInv' /\ \A c \in Subscribers : Onward(c)
<1>1. /\ Typed /\ ScreensTyped /\ Places(s) /\ pc[s] = "stream" /\ Shows(s, hand[s])
      /\ ClientTyped(queue[s], Awaited(s), Sights(s))
      /\ Ahead(queue[s], Awaited(s), Sights(s), latest, published)
  BY PartOf DEF Sent
<1>2. /\ UNCHANGED <<latest, subs, queue, pc, todo, published>>
      /\ hand' = [hand EXCEPT ![s] = Nothing] /\ hand[s] # Nothing
  BY DEF Sent
<1>3. hand[s] \in LiveValue /\ todo[s] = {} /\ Awaited(s) = {hand[s]} /\ hand'[s] = Nothing
  BY <1>1, <1>2, NumberOf DEF Places, Typed, Awaited
<1>4. ScreensTyped' /\ \A c \in Subscribers \ {s} : Sights(c)' = Sights(c)
  BY <1>1, <1>3, ShownIs
<1>5. Awaited(s)' = {} /\ Places(s)'
  BY <1>1, <1>2, <1>3 DEF Awaited, Places
<1>6. ClientInv(s)' /\ Onward(s)
  <2>1. s \in Servers \cap subs => \A t \in Tags : Kept(s, queue[s], Awaited(s), Sights(s), latest, t)
    BY DEF LiveInv, ClientInv, KeptAll
  <2>2. PICK q, A, x : q = queue[s] /\ A = Awaited(s) /\ x = hand[s]
    OBVIOUS
  <2> QED
    BY <1>1, <1>2, <1>3, <1>5, <2>1, <2>2, HandledStep
<1>7. Typed'
  BY <1>1, <1>2, <1>4 DEF Typed, Values
<1>8. \A c \in Subscribers \ {s} : Alike(c)
  BY <1>1, <1>2, <1>4 DEF Alike, Typed
<1> QED
  BY <1>2, <1>6, <1>7, <1>8, OneMoves

LEMMA TakeStep ==
  ASSUME LiveInv, NEW s \in Subscribers, Take(s)
  PROVE  LiveInv' /\ \A c \in Subscribers : Onward(c)
<1>1. /\ Typed /\ ScreensTyped /\ Places(s) /\ pc[s] = "stream" /\ LatestOK(latest, published)
      /\ ClientTyped(queue[s], Awaited(s), Sights(s))
      /\ Ahead(queue[s], Awaited(s), Sights(s), latest, published)
  BY PartOf DEF Take
<1>2. /\ UNCHANGED <<latest, subs, pc, todo, published>> /\ queue[s] # <<>> /\ hand[s] = Nothing
      /\ queue' = [queue EXCEPT ![s] = Tail(@)]
  BY DEF Take, Ready
<1>3. todo[s] = {} /\ Awaited(s) = {} /\ Len(queue[s]) <= Capacity
  BY <1>1, <1>2 DEF Places, Awaited
<1>4. PICK q, r, x, f : q = queue[s] /\ r = Tail(q) /\ x = Head(q) /\ f = Sights(s)
  OBVIOUS
<1>5. /\ x \in LiveValue /\ Len(r) <= Len(q)
      /\ ClientTyped(r, {x}, f) /\ Ahead(r, {x}, f, latest, published)
      /\ \A t \in Tags : Kept(s, q, {}, f, latest, t) => Kept(s, r, {x}, f, latest, t)
  BY <1>1, <1>2, <1>3, <1>4, TakenIsAhead
<1>6. queue'[s] = r /\ \A c \in Subscribers \ {s} : queue'[c] = queue[c]
  BY <1>1, <1>2, <1>4 DEF Typed
<1>7. queue' \in [Subscribers -> Seq(LiveValue)]
  BY <1>1, <1>2, <1>4, <1>5 DEF Typed, ClientTyped
<1>8. Len(r) <= Capacity
  <2>1. Len(q) \in Nat /\ Len(r) \in Nat
    BY <1>1, <1>4, <1>5 DEF ClientTyped
  <2> QED
    BY <2>1, <1>3, <1>4, <1>5, Assumed DEF LiveBusAssumption
<1>9. s \in Servers \cap subs => \A t \in Tags : Kept(s, r, {x}, f, latest, t)
  BY <1>3, <1>4, <1>5 DEF LiveInv, ClientInv, KeptAll
<1>10. CASE s \in Modbus /\ Shows(s, x) /\ UNCHANGED hand
  <2>1. ScreensTyped' /\ \A c \in Subscribers \ {s} : Sights(c)' = Sights(c)
    BY <1>1, <1>5, <1>10, ShownIs
  <2>2. Awaited(s)' = {x} \ {x} /\ Places(s)'
    BY <1>1, <1>2, <1>3, <1>6, <1>8, <1>10 DEF Awaited, Places
  <2>3. ClientInv(s)' /\ Onward(s)
    <3>1. PICK A : A = {x}
      OBVIOUS
    <3> QED
      BY <1>2, <1>4, <1>5, <1>6, <1>9, <1>10, <2>2, <3>1, HandledStep
  <2>4. Typed'
    BY <1>1, <1>2, <1>7, <1>10, <2>1 DEF Typed
  <2>5. \A c \in Subscribers \ {s} : Alike(c)
    BY <1>2, <1>6, <1>10, <2>1 DEF Alike
  <2> QED
    BY <1>2, <2>3, <2>4, <2>5, OneMoves
<1>11. CASE s \notin Modbus /\ hand' = [hand EXCEPT ![s] = x] /\ UNCHANGED clientVars
  <2>1. ScreensTyped' /\ \A c : Sights(c)' = Sights(c)
    BY <1>1, <1>11, SameScreens
  <2>2. hand'[s] = x /\ x # Nothing
    BY <1>1, <1>5, <1>11, NothingIs DEF Typed
  <2>3. Awaited(s)' = {x} /\ Places(s)'
    BY <1>1, <1>2, <1>3, <1>6, <1>8, <1>11, <2>2 DEF Awaited, Places
  <2>4. ClientInv(s)'
    BY <1>2, <1>4, <1>5, <1>6, <1>9, <2>1, <2>3 DEF ClientInv, KeptAll
  <2>5. Onward(s)
    BY <1>4, <1>5, <2>1, NumberOf DEF Onward, ClientTyped
  <2>6. Typed'
    BY <1>1, <1>2, <1>5, <1>7, <1>11, <2>1 DEF Typed, Values
  <2>7. \A c \in Subscribers \ {s} : Alike(c)
    BY <1>1, <1>2, <1>6, <1>11, <2>1 DEF Alike, Typed
  <2> QED
    BY <1>2, <2>4, <2>5, <2>6, <2>7, OneMoves
<1> QED
  BY <1>4, <1>10, <1>11 DEF Take

LEMMA LeaveStep ==
  ASSUME LiveInv, NEW s \in Subscribers, Leave(s)
  PROVE  LiveInv' /\ \A c \in Subscribers : Onward(c)
<1>1. Typed /\ ScreensTyped /\ LatestOK(latest, published)
  BY PartOf
<1>2. /\ subs' = subs \ {s} /\ queue' = [queue EXCEPT ![s] = <<>>] /\ pc' = [pc EXCEPT ![s] = "off"]
      /\ todo' = [todo EXCEPT ![s] = {}] /\ hand' = [hand EXCEPT ![s] = Nothing]
      /\ view' = [c \in DOMAIN view |-> IF c = s THEN Unseen ELSE view[c]]
      /\ blocks' = [c \in Modbus |-> IF c = s THEN NewBlocks ELSE blocks[c]]
      /\ UNCHANGED <<latest, published>>
  BY DEF Leave
<1>3. queue'[s] = <<>> /\ pc'[s] = "off" /\ todo'[s] = {} /\ hand'[s] = Nothing /\ s \notin subs'
  BY <1>1, <1>2 DEF Typed
<1>4. Unseen \in [Tags -> Values] /\ \A t \in Tags : Unseen[t] = Nothing
  BY DEF Unseen, Values
<1>5. ScreensTyped'
  BY <1>1, <1>2, <1>4, NewBlocksAreBlank DEF ScreensTyped
<1>6. \A t \in Tags : Sights(s)'[t] = Nothing
  BY <1>1, <1>2, <1>4, NewBlocksAreBlank DEF Sights, Sight, ScreensTyped, Subscribers, Servers
<1>7. \A c \in Subscribers \ {s} : Sights(c)' = Sights(c)
  BY <1>1, <1>2 DEF Sights, Sight, ScreensTyped, Subscribers, Servers
<1>8. Typed'
  <2>1. queue' \in [Subscribers -> Seq(LiveValue)]
    BY <1>1, <1>2 DEF Typed
  <2> QED
    BY <1>1, <1>2, <1>5, <2>1 DEF Typed, Values
<1>9. ClientInv(s)'
  <2>1. Awaited(s)' = {} /\ Len(<<>>) = 0
    BY <1>3 DEF Awaited
  <2>2. Places(s)'
    BY <1>3, <1>6, <2>1, Assumed DEF Places, LiveBusAssumption
  <2>3. PICK f : f = Sights(s)'
    OBVIOUS
  <2>4. f \in [Tags -> Values]
    BY <1>6, <2>3 DEF Sights, Values
  <2>5. ClientTyped(<<>>, {}, f) /\ Ahead(<<>>, {}, f, latest, published)
    <3>1. 1 .. Len(<<>>) = {} /\ <<>> \in Seq(LiveValue)
      OBVIOUS
    <3> QED
      BY <1>1, <1>6, <2>3, <2>4, <3>1, NothingIs DEF ClientTyped, Ahead, OnePerTag, LatestOK
  <2> QED
    BY <1>2, <1>3, <2>1, <2>2, <2>3, <2>5 DEF ClientInv
<1>10. \A c \in Subscribers \ {s} : Alike(c)
  BY <1>1, <1>2, <1>7 DEF Alike, Typed
<1>11. Onward(s)
  BY <1>3 DEF Onward
<1> QED
  BY <1>2, <1>8, <1>9, <1>10, <1>11, OneMoves

LEMMA StepInv ==
  ASSUME LiveInv, [Next]_vars
  PROVE  LiveInv' /\ \A c \in Subscribers : Onward(c)
<1>1. CASE Update
  BY <1>1, UpdateStep
<1>2. ASSUME NEW s \in Subscribers,
             Connect(s) \/ ForwardOpcUa(s) \/ ForwardModbus(s) \/ Works(s) \/ Leave(s)
      PROVE  LiveInv' /\ \A c \in Subscribers : Onward(c)
  BY <1>2, ConnectStep, ForwardModbusStep, SnapshotSentStep, TakeStep, SentStep, LeaveStep DEF Works
<1>3. CASE UNCHANGED vars
  <2>1. \A c \in Subscribers : Alike(c)
    BY <1>3, SameScreens DEF vars, Alike, clientVars
  <2>2. Typed'
    BY <1>3, SameScreens DEF vars, LiveInv, Typed, clientVars
  <2>3. LatestOK(latest, published)' /\ latest' = latest /\ published' = published
    BY <1>3 DEF vars, LiveInv
  <2> QED
    BY <2>1, <2>2, <2>3, AlikeInv DEF LiveInv
<1> QED
  BY <1>1, <1>2, <1>3 DEF Next

THEOREM LiveInvariant == Spec => []LiveInv
<1>1. LiveInv /\ [Next]_vars => LiveInv'
  BY StepInv
<1> QED
  BY InvInit, <1>1, PTL DEF Spec

-----------------------------------------------------------------------------
(* What it gives.                                                            *)

LEMMA InvTypeOK == LiveInv => TypeOK
<1> SUFFICES ASSUME LiveInv PROVE TypeOK
  OBVIOUS
<1>1. Typed /\ ScreensTyped /\ latest \in [Tags -> Values]
  BY DEF LiveInv, Typed, LatestOK
<1>2. \A s \in Subscribers : Places(s)
  BY DEF LiveInv, ClientInv
<1>3. ASSUME NEW s \in Modbus, NEW table \in Tables
      PROVE  /\ DOMAIN blocks[s][table] \in {1 .. Size(table), 1 .. Size(table) + 1}
             /\ \A i \in DOMAIN blocks[s][table] :
                  blocks[s][table][i] \in [value : LiveValue, part : 1 .. 2] \cup {Zero}
  <2>1. BlocksOK(blocks[s])
    BY <1>1 DEF ScreensTyped
  <2> QED
    BY <2>1 DEF BlocksOK, RegisterOK
<1>4. \A s \in Subscribers : queue[s] \in Seq(LiveValue) /\ Len(queue[s]) <= Capacity
  BY <1>1, <1>2 DEF Typed, Places
<1>5. \A s \in Subscribers : /\ pc[s] = "snapshot" => hand[s] # Nothing
                             /\ pc[s] = "off" => s \notin subs /\ queue[s] = <<>>
  BY <1>2 DEF Places
<1> QED
  BY <1>1, <1>3, <1>4, <1>5 DEF TypeOK, Typed, ScreensTyped, Values

\* A client has the value that it sees.
LEMMA SeenIsHad ==
  ASSUME ScreensTyped, NEW s \in Servers, NEW t \in Tags, NEW v \in LiveValue, v.tag = t, Sights(s)[t] = v
  PROVE  Has(s, v)
<1>1. CASE s \in Modbus
  <2>1. PICK b : b = blocks[s] /\ BlocksOK(b)
    BY <1>1 DEF ScreensTyped
  <2>2. Registered(b, t) = v /\ v # Nothing
    BY <1>1, <2>1, NothingIs DEF Sights, Sight
  <2>3. Holds(b, t, Registered(b, t))
    BY <2>1, <2>2, RegisteredIs
  <2> QED
    BY <1>1, <2>1, <2>2, <2>3 DEF Has
<1>2. CASE s \notin Modbus
  BY <1>2 DEF Has, Sights, Sight
<1> QED
  BY <1>1, <1>2

LEMMA InvCatchUp == LiveInv => ServersCatchUp
<1> SUFFICES ASSUME LiveInv, NEW s \in Servers \cap subs, NEW t \in Tags,
                    latest[t] # Nothing, Representable(s, latest[t])
             PROVE  OnItsWay(s, latest[t]) \/ Has(s, latest[t])
  BY DEF ServersCatchUp, CaughtUp
<1>1. s \in Subscribers /\ ScreensTyped /\ queue[s] \in Seq(LiveValue)
  BY DEF LiveInv, Typed, Subscribers
<1>2. latest[t].tag = t /\ latest[t] \in LiveValue
  BY DEF LiveInv, LatestOK, Values
<1>3. Kept(s, queue[s], Awaited(s), Sights(s), latest, t)
  BY <1>1 DEF LiveInv, ClientInv, KeptAll
<1>4. DOMAIN queue[s] = 1 .. Len(queue[s])
  BY <1>1
<1>5. CASE LastIn(queue[s], t, latest[t])
  BY <1>2, <1>4, <1>5 DEF LastIn, OnItsWay, LastQueued
<1>6. CASE NoneOf(queue[s], t) /\ latest[t] \in Awaited(s)
  BY <1>2, <1>4, <1>6 DEF NoneOf, Awaited, OnItsWay, QueuedOf
<1>7. CASE Sights(s)[t] = latest[t]
  BY <1>1, <1>2, <1>7, SeenIsHad
<1> QED
  BY <1>3, <1>5, <1>6, <1>7 DEF Kept

\* Every variable of the bus and of its subscribers stays in its domain, and a subscriber
\* that is off has nothing on its way.
THEOREM TypeCorrect == Spec => []TypeOK
BY LiveInvariant, InvTypeOK, PTL

\* A forwarder of an embedded server that is subscribed has, or will have, the latest value
\* of each tag, whatever the bus publishes while it starts, awaits a write or lags behind
\* (the subscription before the snapshot, opcua_server.py:162-164).
THEOREM ServersMissNothing == Spec => []ServersCatchUp
BY LiveInvariant, InvCatchUp, PTL

\* What a dashboard, an OPC UA client or a Modbus master sees of a tag never goes back to
\* an older value: the snapshot is written before the queue is read.
THEOREM NeverShowsOlder == Spec => NeverBackwards
<1>1. LiveInv /\ [Next]_vars => [\A s \in Subscribers : Forward(s)]_vars
  <2> SUFFICES ASSUME LiveInv, [Next]_vars, NEW s \in Subscribers PROVE Forward(s)
    OBVIOUS
  <2>1. Onward(s)
    BY StepInv
  <2>2. \A t \in Tags : Seen(s, t) = Sights(s)[t].n /\ Seen(s, t)' = Sights(s)'[t].n
    BY DEF Seen, Sights, Sight
  <2>3. \A t \in Tags : Sights(s)[t].n \in Nat /\ Sights(s)'[t].n \in Nat
    <3>1. LiveInv'
      BY StepInv
    <3>2. \A t \in Tags : Sights(s)[t] \in Values /\ Sights(s)'[t] \in Values
      BY <3>1 DEF LiveInv, ClientInv, ClientTyped
    <3> QED
      BY <3>2, NumberOf
  <2> QED
    BY <2>1, <2>2, <2>3 DEF Forward, Onward
<1> QED
  BY LiveInvariant, <1>1, PTL DEF Spec, NeverBackwards
=============================================================================
