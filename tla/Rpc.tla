---------------------------------- MODULE Rpc ----------------------------------
(***************************************************************************)
(* The stubs of the RPC library (rpc/rpc.h): rpcc::call marshalls the      *)
(* arguments, call_m unmarshalls the reply; on the server the handler that *)
(* rpcs::reg built unmarshalls the arguments, calls the method and         *)
(* marshalls its result.  Client and server each have the types from their *)
(* own template arguments: nothing checks that they agree but the number   *)
(* of bytes.                                                               *)
(*                                                                         *)
(* What is between call_m and the handler is in the compiled library and   *)
(* modelled as rpc.h describes it: a request is executed at most once;     *)
(* call1 matches the reply by its xid, and answers a negative number when  *)
(* no reply comes in time, though the request may have been executed or    *)
(* may yet be.  The clients are threads that share an rpcc.                *)
(***************************************************************************)
EXTENDS Marshall

CONSTANTS Clients,
          Methods,      \* [procedure numbers -> [args, ret]], types on the server
          Invocations,  \* what clients call, a sequence of [proc, types, args, ret]
          Samples(_),   \* what a method may leave in its r, by type
          Results,      \* what a method may answer
          MaxCalls,     \* bound: calls in a behaviour
          None

timeout_failure == -1
unmarshal_args_failure == -2

(* They are ints, and so are the answers of a method.                      *)
ASSUME NumbersAssumption ==
  /\ DOMAIN Methods \subseteq 0..(Word \div 2 - 1) /\ MaxCalls \in 0..(Word \div 2 - 1)
  /\ Results \cup {timeout_failure, unmarshal_args_failure} \subseteq (-(Word \div 2))..(Word \div 2 - 1)

(* The arguments and the results are values of their C++ types; Samples    *)
(* are a method's own, and the procedure is one that the server has.       *)
ASSUME ValuesAssumption ==
  /\ \A i \in DOMAIN Invocations :
       LET k == Invocations[i]
       IN /\ k.proc \in DOMAIN Methods /\ Len(k.types) = Len(k.args)
          /\ \A j \in 1..Len(k.args) : Fits(k.types[j], k.args[j])
  /\ \A p \in DOMAIN Methods : \A v \in Samples(Methods[p].ret) : Fits(Methods[p].ret, v)

VARIABLES requests, replies,  \* messages under way
          waiting,            \* the invocation each client waits in, None if none
          mine,               \* and its xid
          r,                  \* the client's result variable, [type, value]
          intret,             \* what its last call answered
          aborted,            \* VERIFY(0) has ended the clients' process
          sent,               \* history: the invocations made, by xid
          log                 \* history: executions by xid, [args, b, r]

vars == <<requests, replies, waiting, mine, r, intret, aborted, sent, log>>

Init == /\ requests = {} /\ replies = {}
        /\ waiting = [c \in Clients |-> None]
        /\ mine = [c \in Clients |-> 0]
        /\ r = [c \in Clients |-> [type |-> IntT, value |-> 0]]
        /\ intret = [c \in Clients |-> 0]
        /\ aborted = FALSE
        /\ sent = <<>>
        /\ log = <<>>

-----------------------------------------------------------------------------
(* Client.                                                                 *)

(* call: m << a1; ... m << a7.                                             *)
Marshalled(types, args) == WriteEach(Write, NewMarshall, types, args)

(* A caller brings a new variable for the result or one it used before.    *)
Call(c) ==
  /\ ~aborted /\ waiting[c] = None /\ Len(sent) < MaxCalls
  /\ \E i \in DOMAIN Invocations :
       LET k == Invocations[i]
           xid == Len(sent) + 1
           m == pack_req_header(Marshalled(k.types, k.args),
                  [xid |-> xid, proc |-> k.proc, clt_nonce |-> 1, srv_nonce |-> 1, xid_rep |-> 0])
       IN /\ requests' = requests \cup {take_buf(m)}
          /\ waiting' = [waiting EXCEPT ![c] = i]
          /\ mine' = [mine EXCEPT ![c] = xid]
          /\ sent' = Append(sent, i)
          /\ \/ r' = [r EXCEPT ![c] = [type |-> k.ret, value |-> Default(k.ret)]]
             \/ r[c].type = k.ret /\ UNCHANGED r
  /\ UNCHANGED <<replies, intret, aborted, log>>

Returns(c, code) == /\ waiting' = [waiting EXCEPT ![c] = None]
                    /\ intret' = [intret EXCEPT ![c] = code]

(* call1 gives up.                                                         *)
Timeout(c) == /\ ~aborted /\ waiting[c] # None
              /\ Returns(c, timeout_failure)
              /\ UNCHANGED <<requests, replies, mine, r, aborted, sent, log>>

(* Mutant of Failed: the check is missing.                                 *)
Failed_Never(code) == FALSE

Failed(code) == code < 0

(* call_m, once call1 has the reply.                                       *)
Receive(c) ==
  /\ ~aborted /\ waiting[c] # None
  /\ \E msg \in replies :
       LET reply == unpack_reply_header(Unmarshall(msg))
           res == Read(reply.u, r[c].type, r[c].value)
       IN /\ reply.h.xid = mine[c]
          /\ replies' = replies \ {msg}
          /\ \/ /\ Failed(reply.h.ret)
                /\ Returns(c, reply.h.ret)
                /\ UNCHANGED <<r, aborted>>
             \/ /\ ~Failed(reply.h.ret)
                /\ r' = [r EXCEPT ![c].value = res.v]
                /\ IF okdone(res.u) THEN Returns(c, reply.h.ret) /\ UNCHANGED aborted
                   ELSE aborted' = TRUE /\ UNCHANGED <<waiting, intret>>
  /\ UNCHANGED <<requests, mine, sent, log>>

-----------------------------------------------------------------------------
(* Server.                                                                 *)

(* Mutant of Unmarshalled: bytes that are left over are not noticed.       *)
Unmarshalled_OkOnly(u, types) ==
  LET a == ReadEach(LAMBDA w, T : Read(w, T, Default(T)), u, types) IN [good |-> a.u.ok, args |-> a.v]

(* args >> a1; ... args >> a7; args.okdone()                               *)
Unmarshalled(u, types) ==
  LET a == ReadEach(LAMBDA w, T : Read(w, T, Default(T)), u, types)
  IN [good |-> okdone(a.u), args |-> a.v]

(* Mutant of Result: only an OK carries r.                                 *)
Result_OfOk(T, res, b) == IF b = 0 THEN Write(NewMarshall, T, res) ELSE NewMarshall

(* ret << r, whatever the method answered.                                 *)
Result(T, res, b) == Write(NewMarshall, T, res)

Replied(h, m, code) == take_buf(pack_reply_header(m, [xid |-> h.xid, ret |-> code]))

(* h1::fn on one of the requests.                                          *)
Fn ==
  \E msg \in requests :
    LET req == unpack_req_header(Unmarshall(msg))
        meth == Methods[req.h.proc]
        a == Unmarshalled(req.u, meth.args)
    IN /\ requests' = requests \ {msg}
       /\ \/ /\ ~a.good
             /\ replies' = replies \cup {Replied(req.h, NewMarshall, unmarshal_args_failure)}
             /\ UNCHANGED log
          \/ /\ a.good
             /\ \E b \in Results, res \in Samples(meth.ret) :
                  /\ replies' = replies \cup {Replied(req.h, Result(meth.ret, res, b), b)}
                  /\ log' = [x \in DOMAIN log \cup {req.h.xid} |->
                               IF x = req.h.xid THEN [args |-> a.args, b |-> b, r |-> res]
                               ELSE log[x]]
       /\ UNCHANGED <<waiting, mine, r, intret, aborted, sent>>

(* The network.                                                            *)
Lose == /\ \/ \E msg \in requests : requests' = requests \ {msg} /\ UNCHANGED replies
           \/ \E msg \in replies : replies' = replies \ {msg} /\ UNCHANGED requests
        /\ UNCHANGED <<waiting, mine, r, intret, aborted, sent, log>>

Next == (\E c \in Clients : Call(c) \/ Timeout(c) \/ Receive(c)) \/ Fn \/ Lose

Spec == Init /\ [][Next]_vars

-----------------------------------------------------------------------------
(* Answers are those of a method or of the library.                        *)
TypeOK == /\ intret \in [Clients -> Results \cup {0, timeout_failure, unmarshal_args_failure}]
          /\ sent \in Seq(DOMAIN Invocations) /\ DOMAIN log \subseteq DOMAIN sent
          /\ waiting \in [Clients -> DOMAIN Invocations \cup {None}]
          /\ aborted \in BOOLEAN

(* A method runs on arguments that are byte for byte what some client sent *)
(* for that call, and on the same arguments if the types are the same:     *)
(* okdone is enough to keep a method from running on a message that is too *)
(* short or too long.                                                      *)
ArgumentsArrive ==
  \A x \in DOMAIN log :
    LET k == Invocations[sent[x]]
        types == Methods[k.proc].args
    IN /\ Marshalled(types, log[x].args) = Marshalled(k.types, k.args)
       /\ types = k.types => log[x].args = k.args

(* A call that answers a number that is not negative answers its own       *)
(* method's, and r is the method's r (appended, for a vector); a call that *)
(* answers a negative number, the method's own included, leaves r alone.   *)
ReplyIsTheMethods ==
  [][\A c \in Clients :
       waiting[c] # None /\ waiting'[c] = None =>
         LET k == Invocations[waiting[c]]
         IN IF intret'[c] < 0 THEN r'[c] = r[c]
            ELSE /\ mine[c] \in DOMAIN log /\ intret'[c] = log[mine[c]].b
                 /\ k.ret = Methods[k.proc].ret
                      => r'[c].value = IF k.ret.kind = "vector" THEN r[c].value \o log[mine[c]].r
                                       ELSE log[mine[c]].r]_vars

(* call_m's VERIFY(0) is reached only by a client that has the type of the *)
(* result wrong, which is what its message says.                           *)
AbortOnlyOnMismatch ==
  aborted => \E c \in Clients : /\ waiting[c] # None
                                /\ LET k == Invocations[waiting[c]]
                                   IN k.ret # Methods[k.proc].ret
=============================================================================
