------------------------------ MODULE RegisterMap ------------------------------
(***************************************************************************)
(* The registers of the embedded Modbus server (app/core/modbus_server.py):*)
(* the address start gives each tag, what _write_value writes there and    *)
(* what a Modbus master reads back.  An integer or a float takes two input *)
(* registers, a boolean one discrete input; a string has no address.       *)
(***************************************************************************)
EXTENDS Integers, Sequences, FiniteSets

CONSTANTS
  Tags,
  Type,       \* data type of each tag
  Position    \* its place in the result of load_tag_data_types

ASSUME RegisterMapAssumption ==
  /\ IsFiniteSet(Tags)
  /\ Type \in [Tags -> {"float", "int", "bool", "string"}]
  /\ Position \in [Tags -> Nat]
  /\ \A t, u \in Tags : t # u => Position[t] # Position[u]

Tables == {"input_register", "discrete_input"}
Table(t) == IF Type[t] = "bool" THEN "discrete_input" ELSE "input_register"
Width(t) == IF Type[t] = "bool" THEN 1 ELSE 2

Mapped == {t \in Tags : Type[t] # "string"}
MappedIn(table) == {t \in Mapped : Table(t) = table}
Earlier(t) == {u \in MappedIn(Table(t)) : Position[u] < Position[t]}

\* The length of the list of values when start reaches t.
OneRegisterEach == [t \in Mapped |-> Cardinality(Earlier(t))]
Address == [t \in Mapped |-> Width(t) * Cardinality(Earlier(t))]

-----------------------------------------------------------------------------
(* The blocks: lists that begin at index 0 in the code and at 1 here.        *)

Zero == [part |-> 0]

\* A block that would be empty has one element.
Size(table) ==
  LET n == Cardinality(MappedIn(table)) IN
  IF n = 0 THEN 1 ELSE IF table = "discrete_input" THEN n ELSE 2 * n

NewBlocks == [table \in Tables |-> [i \in 1 .. Size(table) |-> Zero]]

\* The elements that hold the value of t: _write_value adds one to its address, and so does
\* pymodbus to the address a master asks for.
Words == [t \in Mapped |-> Address[t] + 2 .. Address[t] + 1 + Width(t)]
Part(t, i) == i - Address[t] - 1

\* Values of tags are written, one after another: setValues assigns a slice, which makes a
\* list that ends before it longer.
In(table, values) == {v \in values : v.tag \in MappedIn(table)}

Written(block, values) ==
  [i \in DOMAIN block \cup UNION {Words[v.tag] : v \in values} |->
     IF \E v \in values : i \in Words[v.tag]
     THEN LET v == CHOOSE v \in values : i \in Words[v.tag] IN
          [value |-> v, part |-> Part(v.tag, i)]
     ELSE block[i]]

Write(blocks, values) == [table \in Tables |-> Written(blocks[table], In(table, values))]

\* A master reads the elements of t whole, or is answered with an exception.
Readable(blocks, t) == t \in Mapped /\ Words[t] \subseteq DOMAIN blocks[Table(t)]
Holds(blocks, t, v) ==
  Readable(blocks, t) /\ \A i \in Words[t] : blocks[Table(t)][i] = [value |-> v, part |-> Part(t, i)]
=============================================================================
