------------------------------- MODULE Marshall -------------------------------
(***************************************************************************)
(* marshall and unmarshall (rpc/marshall.h) and the wire form of           *)
(* fs_protocol::attr: how values become the bytes of a message.            *)
(*                                                                         *)
(* A marshall is [buf, ind], an unmarshall [buf, ind, ok]; buf is the      *)
(* sequence of the bytes (buf[1] is _buf[0]), ind the head.  What          *)
(* marshall() allocates is Uninit until it is packed.  The operators on    *)
(* single bytes, ints and strings are in the compiled library.             *)
(***************************************************************************)
EXTENDS Integers, SequencesExt

CONSTANTS Base,    \* values of a byte, 256 in the code
          W,       \* bytes of an int, 4 in the code
          Uninit   \* a byte that was never written

ASSUME WidthAssumption == Base \in Nat \ {0, 1} /\ W \in Nat \ {0}

(* Types of what is sent.                                                  *)
IntT == [kind |-> "int"]
UllT == [kind |-> "ull"]
StringT == [kind |-> "string"]
AttrT == [kind |-> "attr"]
VectorT(T) == [kind |-> "vector", of |-> T]
MapT(T) == [kind |-> "map", of |-> T]    \* from int

(* A default-constructed variable of the type (an int starts as anything;  *)
(* 0 is what >> leaves in it at the end of the message).                   *)
Default(T) == IF T.kind \in {"int", "ull"} THEN 0 ELSE <<>>

-----------------------------------------------------------------------------
(* Bytes, most significant first: shifts[k] is n without its last k bytes. *)
Power(w) == LET p[k \in 0..w] == IF k = 0 THEN 1 ELSE Base * p[k - 1] IN p[w]
Word == Power(W)
Digits(n, w) ==
  LET shifts[k \in 0..w] == IF k = 0 THEN n ELSE shifts[k - 1] \div Base
  IN [k \in 1..w |-> shifts[w - k] % Base]
Value(bytes) ==
  LET v[k \in 0..Len(bytes)] == IF k = 0 THEN 0 ELSE v[k - 1] * Base + bytes[k] IN v[Len(bytes)]
Signed(n) == IF n >= Word \div 2 THEN n - Word ELSE n

(* What a variable of the type can hold.                                   *)
Byte == 0..(Base - 1)
FitsPlain(T, v) == CASE T.kind = "int"    -> v \in 0..(Word - 1)
                     [] T.kind = "ull"    -> v \in 0..(Power(2 * W) - 1)
                     [] T.kind = "string" -> v \in Seq(Byte) /\ Len(v) < Word
                     [] T.kind = "attr"   -> v \in Seq(0..(Word - 1)) /\ Len(v) = 5
Fits(T, v) ==
  CASE T.kind = "vector" -> Len(v) < Word /\ \A i \in 1..Len(v) : FitsPlain(T.of, v[i])
    [] T.kind = "map"    -> DOMAIN v \subseteq 0..(Word - 1) /\ \A k \in DOMAIN v : FitsPlain(T.of, v[k])
    [] OTHER             -> FitsPlain(T, v)

(* The longer header, five ints, and the size of the message, an int.      *)
RPC_HEADER_SZ == 5 * W + W

-----------------------------------------------------------------------------
(* Writing: bytes are put at the head, over what is there.                 *)

NewMarshall == [buf |-> [k \in 1..RPC_HEADER_SZ |-> Uninit], ind |-> RPC_HEADER_SZ]

RawBytes(m, bytes) ==
  LET end == m.ind + Len(bytes)
  IN [buf |-> [k \in 1..(IF end > Len(m.buf) THEN end ELSE Len(m.buf)) |->
                 IF k \in (m.ind + 1)..end THEN bytes[k - m.ind] ELSE m.buf[k]],
      ind |-> end]

pack(m, i) == RawBytes(m, Digits(i % Word, W))

(* The first int is left for the channel to fill in the size.              *)
pack_req_header(m, h) ==
  [pack(pack(pack(pack(pack([m EXCEPT !.ind = W],
        h.xid), h.proc), h.clt_nonce), h.srv_nonce), h.xid_rep) EXCEPT !.ind = m.ind]

pack_reply_header(m, h) ==
  [pack(pack([m EXCEPT !.ind = W], h.xid), h.ret) EXCEPT !.ind = m.ind]

(* take_buf: the bytes up to the head.                                     *)
take_buf(m) == SubSeq(m.buf, 1, m.ind)

(* operator<<, first of the types that are no container.  An attr is its   *)
(* type, atime, mtime, ctime and size.                                     *)
WritePlain(m, T, v) ==
  CASE T.kind = "int"    -> pack(m, v)
    [] T.kind = "ull"    -> RawBytes(m, Digits(v, 2 * W))
    [] T.kind = "string" -> RawBytes(pack(m, Len(v)), v)
    [] T.kind = "attr"   -> pack(pack(pack(pack(pack(m, v[1]), v[2]), v[3]), v[4]), v[5])

(* Values of the types, one after the other.                               *)
WriteEach(Writer(_, _, _), m, types, vals) ==
  LET n[k \in 0..Len(vals)] == IF k = 0 THEN m ELSE Writer(n[k - 1], types[k], vals[k])
  IN n[Len(vals)]

WriteVector(m, T, v) == WriteEach(WritePlain, pack(m, Len(v)), [k \in 1..Len(v) |-> T], v)

(* In the order of the keys.                                               *)
WriteMap(m, T, d) ==
  LET keys == SetToSortSeq(DOMAIN d, <)
  IN FoldLeft(LAMBDA n, k : WritePlain(pack(n, k), T, d[k]), pack(m, Len(keys)), keys)

Write(m, T, v) == CASE T.kind = "vector" -> WriteVector(m, T.of, v)
                    [] T.kind = "map"    -> WriteMap(m, T.of, v)
                    [] OTHER             -> WritePlain(m, T, v)

-----------------------------------------------------------------------------
(* Reading.  A read past the end yields zeros and makes the message bad.   *)

(* take_in: the head is after the header.                                  *)
Unmarshall(buf) ==
  [buf |-> buf, ind |-> RPC_HEADER_SZ, ok |-> Len(buf) >= RPC_HEADER_SZ]

okdone(u) == u.ok /\ u.ind = Len(u.buf)

Bytes(u, n) == [k \in 1..n |-> IF u.ind + k <= Len(u.buf) THEN u.buf[u.ind + k] ELSE 0]
Skip(u, n) == IF u.ind + n <= Len(u.buf) THEN [u EXCEPT !.ind = @ + n]
              ELSE [u EXCEPT !.ind = Len(u.buf), !.ok = FALSE]

(* A read gives the value and the unmarshall after it.                     *)
ReadBytes(u, n) == [v |-> Bytes(u, n), u |-> Skip(u, n)]
ReadNumber(u, w) == [v |-> Value(Bytes(u, w)), u |-> Skip(u, w)]
ReadString(u) == LET n == ReadNumber(u, W)
                 IN IF n.u.ok /\ n.v <= Len(u.buf) - n.u.ind THEN ReadBytes(n.u, n.v)
                    ELSE [v |-> <<>>, u |-> [n.u EXCEPT !.ok = FALSE]]

(* Values of the types, one after the other.                               *)
ReadEach(Reader(_, _), u, types) ==
  LET acc[k \in 0..Len(types)] ==
        IF k = 0 THEN [v |-> <<>>, u |-> u]
        ELSE LET a == acc[k - 1]
                 x == Reader(a.u, types[k])
             IN [v |-> Append(a.v, x.v), u |-> x.u]
  IN acc[Len(types)]

ReadAttr(u) ==
  LET a == ReadNumber(u, W)
      b == ReadNumber(a.u, W)
      c == ReadNumber(b.u, W)
      d == ReadNumber(c.u, W)
      e == ReadNumber(d.u, W)
  IN [v |-> <<a.v, b.v, c.v, d.v, e.v>>, u |-> e.u]

ReadPlain(u, T) == CASE T.kind = "int"    -> ReadNumber(u, W)
                     [] T.kind = "ull"    -> ReadNumber(u, 2 * W)
                     [] T.kind = "string" -> ReadString(u)
                     [] T.kind = "attr"   -> ReadAttr(u)

(* The elements are appended to what the vector holds already.             *)
ReadVector(u, T, old) ==
  LET n == ReadNumber(u, W)
      elems == ReadEach(ReadPlain, n.u, [i \in 1..n.v |-> T])
  IN [v |-> old \o elems.v, u |-> elems.u]

(* The map is cleared first; a later entry replaces an earlier one.        *)
ReadMap(u, T) ==
  LET n == ReadNumber(u, W)
      Entry(acc, i) == LET a == ReadNumber(acc.u, W)
                           b == ReadPlain(a.u, T)
                       IN [v |-> [k \in DOMAIN acc.v \cup {a.v} |-> IF k = a.v THEN b.v ELSE acc.v[k]],
                           u |-> b.u]
  IN FoldLeft(Entry, [v |-> <<>>, u |-> n.u], [i \in 1..n.v |-> i])

(* operator>> into a variable that holds old.                              *)
Read(u, T, old) == CASE T.kind = "vector" -> ReadVector(u, T.of, old)
                     [] T.kind = "map"    -> ReadMap(u, T.of)
                     [] OTHER             -> ReadPlain(u, T)

(* Mutant of unpack: the sign is lost.                                     *)
unpack_Unsigned(u) == [v |-> Value(Bytes(u, W)), u |-> Skip(u, W)]

unpack(u) == [v |-> Signed(Value(Bytes(u, W))), u |-> Skip(u, W)]

(* The ints after the size.                                                *)
unpack_req_header(u) ==
  LET a == unpack([u EXCEPT !.ind = W])
      b == unpack(a.u)
      c == unpack(b.u)
      d == unpack(c.u)
      e == unpack(d.u)
  IN [h |-> [xid |-> a.v, proc |-> b.v, clt_nonce |-> c.v, srv_nonce |-> d.v, xid_rep |-> e.v],
      u |-> [e.u EXCEPT !.ind = RPC_HEADER_SZ]]

unpack_reply_header(u) ==
  LET a == unpack([u EXCEPT !.ind = W])
      b == unpack(a.u)
  IN [h |-> [xid |-> a.v, ret |-> b.v], u |-> [b.u EXCEPT !.ind = RPC_HEADER_SZ]]
=============================================================================
