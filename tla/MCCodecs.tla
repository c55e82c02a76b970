------------------------------ MODULE MCCodecs ------------------------------
(* Values of every type, with at most two elements to a list.               *)
EXTENDS Codecs

MaxItems == 2

(* c names the document data, the id, the fact, the operation, the number  *)
(* of elements of a list, and whether the numbers are 2^63 or more.        *)
OfType(types, c) ==
  CASE types = DataTypes -> c.data
    [] types = IdTypes -> c.id
    [] types = Facts -> c.fact
    [] types = Operations -> c.operation
    [] OTHER -> CHOOSE T \in types \ {"UnhintedAccount"} : TRUE

Length(f, c) == IF f = "items" /\ c.size = 0 THEN 1 ELSE c.size

(* The objects of a value of type T at p, with their places; n is the      *)
(* position of the innermost list element that they belong to.             *)
RECURSIVE Objects(_, _, _, _)
Objects(T, p, n, c) ==
  LET Part(arg) ==
        CASE arg.field = "h" -> Leaf(Sealed)
          [] arg.how = "uint" /\ c.big -> Leaf(TooBig)
          [] arg.how \in {"one", "perhaps", "own"} -> Object(Below(p, arg.field, 1))
          [] arg.how = "many" ->
               List([j \in 1 .. Length(arg.field, c) |-> Below(p, arg.field, j)])
          [] OTHER -> Leaf(<<arg.field, n>>)
      Inner(arg) ==
        CASE arg.how \in {"one", "perhaps", "own"} ->
               Objects(OfType(arg.types, c), Below(p, arg.field, 1), n, c)
          [] arg.how = "many" ->
               UNION {Objects(OfType(arg.types, c), Below(p, arg.field, j), j, c) :
                        j \in 1 .. Length(arg.field, c)}
          [] OTHER -> {}
  IN  {<<p, [hint |-> T, parts |-> [f \in Fields(T) |-> Part(Unpack[T][Parameter(T, f)])]]>>}
      \cup UNION {Inner(Unpack[T][i]) : i \in DOMAIN Unpack[T]}

Built(T, c) ==
  LET objects == Objects(T, Root, 1, c)
  IN  [p \in {o[1] : o \in objects} |-> (CHOOSE o \in objects : o[1] = p)[2]]

BuiltValues ==
  {Built(T, [data |-> data, id |-> NewDocInfo[data], operation |-> op, fact |-> FactOf[op],
             size |-> size, big |-> big]) :
     T \in Roots, data \in DataTypes, op \in Operations, size \in 0 .. MaxItems, big \in BOOLEAN}
=============================================================================
