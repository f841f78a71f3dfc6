-------------------------------- MODULE Wire --------------------------------
(***************************************************************************)
(* Protocol buffers as the generated code of the services uses them: a     *)
(* sender writes the fields of a message under the numbers of its own      *)
(* schema, and a receiver reads the numbers back with its own.             *)
(*                                                                         *)
(* A schema gives every message type the sequence of its fields, a field's *)
(* position being its number.  A message is the set of its leaves, each    *)
(* with its path (the names that lead to it) and its value; a nested       *)
(* message that is present is a leaf as well, a field with its zero value  *)
(* is none.  Of a repeated field there is at most one element.             *)
(***************************************************************************)
EXTENDS Integers, Sequences

Field(name, type) == [name |-> name, type |-> type]

Varints == {"bool", "int32"}

\* How a value of the type is written; strings and nested messages alike.
WireType(type) == IF type \in Varints THEN "varint" ELSE "bytes"

-----------------------------------------------------------------------------
(* A place in a message has the names that lead to it, the numbers and wire  *)
(* types under which it is written, and its type.                            *)

Root(type) == [path |-> <<>>, tags |-> <<>>, type |-> type]

\* The place of field number n of the message at x.
Inner(schema, x, n) ==
  LET f == schema[x.type][n]
  IN [path |-> Append(x.path, f.name), tags |-> Append(x.tags, <<n, WireType(f.type)>>),
      type |-> f.type]

Inside(schema, X) ==
  UNION {{Inner(schema, x, n) : n \in DOMAIN schema[x.type]} :
           x \in {y \in X : y.type \in DOMAIN schema}}

\* No message of these schemas is nested more than three deep.
Places(schema, type) ==
  LET one == Inside(schema, {Root(type)})
      two == Inside(schema, one)
  IN one \cup two \cup Inside(schema, two)

Paths(schema, type) == {x.path : x \in Places(schema, type)}

\* Where a receiver with its schema finds each field that a sender writes with
\* its own: at the place with the same numbers and wire types.  A field for which
\* there is none is unknown.
Carry(schema, type, theirSchema, theirType) ==
  {<<z[1].path, z[2].path>> :
     z \in {y \in Places(schema, type) \X Places(theirSchema, theirType) :
              y[1].tags = y[2].tags}}

\* The message that is received; unknown fields are ignored.
Received(carry, msg) ==
  UNION {{[path |-> z[2], value |-> l.value] : z \in {y \in carry : y[1] = l.path}} : l \in msg}

-----------------------------------------------------------------------------
(* Some messages of a type; every value is told from the others.           *)

Leaf(path) == [path |-> path, value |-> path]

\* Every field is set.
Full(schema, type) == {Leaf(p) : p \in Paths(schema, type)}

\* Nested messages are present, and empty.
Sparse(schema, type) ==
  {Leaf(<<schema[type][n].name>>) :
     n \in {k \in DOMAIN schema[type] : schema[type][k].type \in DOMAIN schema}}

\* Nested messages are set as well, but for the messages nested in them.
Shallow(schema, type) ==
  LET one == Inside(schema, {Root(type)})
  IN {Leaf(x.path) : x \in one \cup {y \in Inside(schema, one) : y.type \notin DOMAIN schema}}

Variants(schema, type) ==
  {Full(schema, type), Sparse(schema, type), Shallow(schema, type), {}}

=============================================================================
