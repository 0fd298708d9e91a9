-------------------------------- MODULE MCRpc --------------------------------
(* TLC instance of Rpc: the procedures of fs_protocol with the signatures  *)
(* of fs_server's methods, and two more whose results are containers.      *)
EXTENDS Rpc
CONSTANTS c1, c2

put == 1
get == 2
getattr == 3
remove == 4
list == 5
index == 6

FsMethods == (put     :> [args |-> <<UllT, StringT>>, ret |-> IntT])
          @@ (get     :> [args |-> <<UllT>>, ret |-> StringT])
          @@ (getattr :> [args |-> <<UllT>>, ret |-> AttrT])
          @@ (remove  :> [args |-> <<UllT>>, ret |-> IntT])
          @@ (list    :> [args |-> <<VectorT(IntT)>>, ret |-> VectorT(StringT)])
          @@ (index   :> [args |-> <<MapT(StringT)>>, ret |-> MapT(IntT)])

Use(proc, args) == [proc |-> proc, types |-> FsMethods[proc].args, args |-> args,
                    ret |-> FsMethods[proc].ret]

(* Calls with the right types; with an argument too many, too few, or of   *)
(* other types that happen to have the same length; with the wrong result. *)
FsInvocations ==
  << Use(put, <<77, <<1, 2>>>>), Use(get, <<5>>), Use(getattr, <<255>>), Use(remove, <<5>>),
    Use(list, <<<<1, 15>>>>), Use(index, <<(2 :> <<3>>) @@ (9 :> <<>>)>>),
    [proc |-> get, types |-> <<UllT, StringT>>, args |-> <<5, <<1>>>>, ret |-> StringT],
    [proc |-> put, types |-> <<UllT>>, args |-> <<5>>, ret |-> IntT],
    [proc |-> remove, types |-> <<IntT, IntT>>, args |-> <<1, 5>>, ret |-> IntT],
    [proc |-> getattr, types |-> <<UllT>>, args |-> <<5>>, ret |-> StringT],
    [proc |-> list, types |-> <<StringT>>, args |-> <<<<1>>>>, ret |-> VectorT(StringT)] >>

FsSamples(T) == CASE T.kind = "int"    -> {0, 15}
                  [] T.kind = "string" -> {<<>>, <<2, 3>>}
                  [] T.kind = "attr"   -> {<<2, 1, 1, 1, 9>>}
                  [] T.kind = "vector" -> {<<>>, <<<<1>>, <<>>>>}
                  [] T.kind = "map"    -> {<<>>, (3 :> 7) @@ (1 :> 15)}

(* OK, NOENT, and a negative answer.                                       *)
FsResults == {0, 2, -1}
TwoClients == {c1, c2}
=============================================================================
