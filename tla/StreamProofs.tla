---------------------------- MODULE StreamProofs ----------------------------
(***************************************************************************)
(* What the operations of the terminal and of the transfers keep, whatever   *)
(* goes on around them: for any buffer sizes and any number of frames and    *)
(* chunks, what a stream carries stays in order and complete.                *)
(***************************************************************************)
EXTENDS Terminal, Transfers, Functions, TLAPS

(* A leaf is Zenon's unless it names SMT; each is tried again with more time. *)
USE Zenon, SlowZenon

-----------------------------------------------------------------------------
Lives == {"none", "open", "over"}
Senders == {"off", "idle", "coalesce", "call"}
Guests == {"none", "runs", "killed", "exited", "gone"}
Streams == {"none", "open", "ended", "broken", "closed"}
Flag == BOOLEAN
Session ==
    [life : Lives, client : Flag, open : Flag, cancelled : Flag, reader : Flag, sender : Senders, pump : Flag, keep : Flag,
     sent : Nat, ch : Seq(Nat), pending : Seq(Nat), buf : Seq(Nat), taken : SUBSET Nat, called : SUBSET Nat,
     applied : Seq(Nat), guest : Guests, printed : Nat, events : Seq(Nat), stream : Streams, shown : Seq(Nat)]

Rising(s) == \A i, j \in DOMAIN s : i < j => s[i] < s[j]
Before(s, t) == \A m \in Range(s), n \in Range(t) : m < n
UpTo(s, n) == \A m \in Range(s) : m <= n

(* The frames that were applied, are being sent, wait their turn and are    *)
(* queued follow each other in the order the client sent them.              *)
Ordered(a, b, p, c, n) ==
    /\ Rising(a) /\ Rising(b) /\ Rising(p) /\ Rising(c)
    /\ Before(a, b) /\ Before(a, p) /\ Before(a, c) /\ Before(b, p) /\ Before(b, c) /\ Before(p, c)
    /\ UpTo(a, n) /\ UpTo(b, n) /\ UpTo(p, n) /\ UpTo(c, n)
OrderInv == Ordered(pty.applied, pty.buf, pty.pending, pty.ch, pty.sent)

(* No frame is mislaid between the channel and the call.                    *)
FullInv == Len(pty.ch) <= InputBuffer /\ Len(pty.pending) <= 1
HeldInv == pty.taken \subseteq pty.called \cup Range(pty.buf) \cup Range(pty.pending) \cup Range(pty.ch)
IdleInv ==
    /\ pty.sender \in {"off", "idle"} => pty.buf = <<>>
    /\ pty.sender \in {"off", "coalesce"} => pty.pending = <<>>
    /\ pty.sender = "off" => pty.ch = <<>> /\ pty.reader = FALSE
    /\ pty.life # "open" => pty.sender = "off"
QueueInv == FullInv /\ HeldInv /\ IdleInv

(* The chunks shown and queued are numbered through, and only the last of   *)
(* them is the exit, after the last chunk printed.                          *)
Numbered(s, n) == \A i \in DOMAIN s : s[i] = n + i
Ended(s, n, p) == \A i \in DOMAIN s : IF s[i] = Exit THEN i = Len(s) /\ n + i = p + 1 ELSE s[i] = n + i
OutputInv ==
    /\ pty.life = "none" => pty.shown = <<>> /\ pty.events = <<>> /\ pty.stream = "none"
    /\ pty.stream = "open" => pty.guest \in {"runs", "killed"} /\ pty.printed = mix.before + Len(pty.shown) + Len(pty.events)
    /\ Ended(pty.shown, mix.before, pty.printed) /\ Ended(pty.events, mix.before + Len(pty.shown), pty.printed)
    /\ Exit \in Range(pty.shown) => pty.guest = "exited" /\ pty.pump = FALSE
    /\ Exit \in Range(pty.events) => pty.guest = "exited"
    /\ Len(pty.events) <= EventBuffer

-----------------------------------------------------------------------------
Kinds == {"none", "upload", "download", "exec", "run"}
Ats == {"none", "open", "closing", "over"}
Tolds == {"none", "ok", "error", "ended"}
Ends == {"no", "closed", "cancelled"}
Pumps == {"off", "on", "ok", "failed"}
Resps == {"none", "ok", "error", "lost"}
Replies == {"none", "ok", "error"}
Stores == {"no", "whole", "cut"}
Transfer ==
    [kind : Kinds, size : Nat, at : Ats, told : Tolds, moved : Nat, wire : Seq(Nat), ended : Ends,
     pump : Pumps, resp : Resps, reply : Replies, body : Seq(Nat), stored : Stores, shown : Seq(Nat)]

(* What envd received of an upload and what is on the wire are the file's   *)
(* chunks, in order; success is passed on from one to the next, back to the *)
(* client.                                                                  *)
Carried == Numbered(xf.body, 0) /\ Numbered(xf.wire, Len(xf.body)) /\ xf.moved = Len(xf.body) + Len(xf.wire)
Acked ==
    /\ xf.at = "none" => xf.pump = "off"
    /\ xf.at \in {"none", "open"} => xf.ended = "no"
    /\ xf.at = "closing" => xf.moved = xf.size
    /\ xf.pump = "ok" => xf.wire = <<>> /\ xf.ended # "no"
    /\ xf.resp = "ok" => xf.stored = "whole" /\ xf.pump = "ok"
    /\ xf.reply = "ok" => xf.resp = "ok"
    /\ xf.told = "ok" => xf.at = "over" /\ xf.resp = "ok" /\ xf.moved = xf.size
UpInv == xf \in Transfer /\ Upload /\ Carried /\ Acked

(* What the client received of anything else and what is on the wire are    *)
(* the output, in order, with a process's end event after it.               *)
Passed == Numbered(xf.shown, 0) /\ Numbered(xf.wire, Len(xf.shown))
EndDue == xf.ended = "closed" /\ xf.kind # "download" /\ ~(xf.kind = "exec" /\ xf.told = "ok")
Counted ==
    /\ xf.pump = "off" /\ xf.moved <= xf.size
    /\ xf.at = "none" => xf.ended = "no"
    /\ xf.ended = "closed" => xf.moved = xf.size
    /\ Len(xf.shown) + Len(xf.wire) = IF EndDue THEN xf.size + 1 ELSE xf.moved
    /\ xf.told = "ok" => xf.ended = "closed" /\ Len(xf.shown) = xf.size /\ (xf.kind = "run" => xf.at = "over")
OutInv == xf \in Transfer /\ ~Upload /\ Passed /\ Counted

XferInv == UpInv \/ OutInv
PtyInv == pty \in Session /\ OrderInv /\ QueueInv /\ OutputInv

-----------------------------------------------------------------------------
(* Sequences                                                                *)

LEMMA SeqFacts == ASSUME NEW s \in Seq(Nat) PROVE Len(s) \in Nat /\ DOMAIN s = 1..Len(s) /\ \A i \in 1..Len(s) : s[i] \in Nat
  BY SMT, SMTT(20)

LEMMA EmptyFacts == <<>> \in Seq(Nat) /\ Len(<<>>) = 0 /\ DOMAIN <<>> = {}
  BY SMT, SMTT(20)

LEMMA OneFacts ==
    ASSUME NEW n \in Nat
    PROVE <<n>> \in Seq(Nat) /\ Len(<<n>>) = 1 /\ <<n>>[1] = n
  BY SMT, SMTT(20)

LEMMA AppendFacts ==
    ASSUME NEW s \in Seq(Nat), NEW n \in Nat
    PROVE /\ Append(s, n) \in Seq(Nat) /\ Len(Append(s, n)) = Len(s) + 1
          /\ \A i \in 1..Len(s) : Append(s, n)[i] = s[i]
          /\ Append(s, n)[Len(s) + 1] = n
  BY SMT, SMTT(20)

LEMMA TailFacts ==
    ASSUME NEW s \in Seq(Nat), s # <<>>
    PROVE /\ Tail(s) \in Seq(Nat) /\ Len(s) >= 1 /\ Len(Tail(s)) = Len(s) - 1
          /\ Head(s) = s[1] /\ Head(s) \in Nat
          /\ \A i \in 1..(Len(s) - 1) : Tail(s)[i] = s[i + 1]
  BY SMT, SMTT(20)

LEMMA JoinFacts ==
    ASSUME NEW s \in Seq(Nat), NEW t \in Seq(Nat)
    PROVE /\ s \o t \in Seq(Nat) /\ Len(s \o t) = Len(s) + Len(t)
          /\ \A i \in 1..Len(s) : (s \o t)[i] = s[i]
          /\ \A i \in 1..Len(t) : (s \o t)[Len(s) + i] = t[i]
  BY SMT, SMTT(20)

LEMMA NoneLeft == ASSUME NEW s \in Seq(Nat), Len(s) = 0 PROVE s = <<>>
  BY SMT, SMTT(20)

(* What is in a sequence, once it grew, shrank or was joined to another.    *)
LEMMA RangeEmpty == Range(<<>>) = {}
  BY EmptyFacts DEF Range

LEMMA RangeOne == ASSUME NEW n \in Nat PROVE Range(<<n>>) = {n}
  BY OneFacts, SeqFacts, SMT, SMTT(20) DEF Range

LEMMA RangeAppend == ASSUME NEW s \in Seq(Nat), NEW n \in Nat PROVE Range(Append(s, n)) = Range(s) \cup {n}
<1>1. DOMAIN s = 1..Len(s) /\ DOMAIN Append(s, n) = 1..(Len(s) + 1) /\ Len(s) \in Nat
  BY AppendFacts, SeqFacts, SMT, SMTT(20)
<1>2. ASSUME NEW i \in DOMAIN Append(s, n) PROVE Append(s, n)[i] \in Range(s) \cup {n}
  <2>1. CASE i = Len(s) + 1
    BY <2>1, AppendFacts
  <2>2. CASE i # Len(s) + 1
    <3>1. i \in 1..Len(s)
      BY <1>1, <1>2, <2>2, SMT, SMTT(20)
    <3>2. Append(s, n)[i] = s[i] /\ i \in DOMAIN s
      BY <1>1, <3>1, AppendFacts
    <3> QED
      BY <3>2 DEF Range
  <2> QED
    BY <2>1, <2>2
<1>3. ASSUME NEW i \in DOMAIN s PROVE s[i] \in Range(Append(s, n))
  <2>1. i \in DOMAIN Append(s, n) /\ Append(s, n)[i] = s[i]
    BY <1>1, <1>3, AppendFacts, SMT, SMTT(20)
  <2> QED
    BY <2>1 DEF Range
<1>4. n \in Range(Append(s, n))
  <2>1. Len(s) + 1 \in DOMAIN Append(s, n)
    BY <1>1, SMT, SMTT(20)
  <2> QED
    BY <2>1, AppendFacts DEF Range
<1> QED
  BY <1>2, <1>3, <1>4 DEF Range

LEMMA RangeTail == ASSUME NEW s \in Seq(Nat), s # <<>> PROVE Range(s) = {Head(s)} \cup Range(Tail(s))
<1>1. DOMAIN s = 1..Len(s) /\ DOMAIN Tail(s) = 1..(Len(s) - 1) /\ Len(s) \in Nat /\ Len(s) >= 1
  BY TailFacts, SeqFacts, SMT, SMTT(20)
<1>2. ASSUME NEW i \in DOMAIN s PROVE s[i] \in {Head(s)} \cup Range(Tail(s))
  <2>1. CASE i = 1
    BY <2>1, TailFacts
  <2>2. CASE i # 1
    <3>1. i - 1 \in DOMAIN Tail(s) /\ (i - 1) + 1 = i
      BY <1>1, <1>2, <2>2, SMT, SMTT(20)
    <3>2. Tail(s)[i - 1] = s[i]
      BY <1>1, <3>1, TailFacts, SMT, SMTT(20)
    <3> QED
      BY <3>1, <3>2 DEF Range
  <2> QED
    BY <2>1, <2>2
<1>3. ASSUME NEW i \in DOMAIN Tail(s) PROVE Tail(s)[i] \in Range(s)
  <2>1. i + 1 \in DOMAIN s /\ Tail(s)[i] = s[i + 1]
    BY <1>1, <1>3, TailFacts, SMT, SMTT(20)
  <2> QED
    BY <2>1 DEF Range
<1>4. Head(s) \in Range(s)
  <2>1. 1 \in DOMAIN s
    BY <1>1, SMT, SMTT(20)
  <2> QED
    BY <2>1, TailFacts DEF Range
<1> QED
  BY <1>2, <1>3, <1>4 DEF Range

LEMMA RangeJoin == ASSUME NEW s \in Seq(Nat), NEW t \in Seq(Nat) PROVE Range(s \o t) = Range(s) \cup Range(t)
<1>1. /\ DOMAIN s = 1..Len(s) /\ DOMAIN t = 1..Len(t) /\ DOMAIN (s \o t) = 1..(Len(s) + Len(t))
      /\ Len(s) \in Nat /\ Len(t) \in Nat
  BY JoinFacts, SeqFacts, SMT, SMTT(20)
<1>2. ASSUME NEW i \in DOMAIN (s \o t) PROVE (s \o t)[i] \in Range(s) \cup Range(t)
  <2>1. CASE i <= Len(s)
    <3>1. i \in DOMAIN s /\ (s \o t)[i] = s[i]
      BY <1>1, <1>2, <2>1, JoinFacts, SMT, SMTT(20)
    <3> QED
      BY <3>1 DEF Range
  <2>2. CASE ~(i <= Len(s))
    <3>1. i - Len(s) \in DOMAIN t /\ Len(s) + (i - Len(s)) = i
      BY <1>1, <1>2, <2>2, SMT, SMTT(20)
    <3>2. (s \o t)[i] = t[i - Len(s)]
      BY <1>1, <3>1, JoinFacts, SMT, SMTT(20)
    <3> QED
      BY <3>1, <3>2 DEF Range
  <2> QED
    BY <2>1, <2>2
<1>3. ASSUME NEW i \in DOMAIN s PROVE s[i] \in Range(s \o t)
  <2>1. i \in DOMAIN (s \o t) /\ (s \o t)[i] = s[i]
    BY <1>1, <1>3, JoinFacts, SMT, SMTT(20)
  <2> QED
    BY <2>1 DEF Range
<1>4. ASSUME NEW i \in DOMAIN t PROVE t[i] \in Range(s \o t)
  <2>1. Len(s) + i \in DOMAIN (s \o t) /\ (s \o t)[Len(s) + i] = t[i]
    BY <1>1, <1>4, JoinFacts, SMT, SMTT(20)
  <2> QED
    BY <2>1 DEF Range
<1> QED
  BY <1>2, <1>3, <1>4 DEF Range

LEMMA RangeNat == ASSUME NEW s \in Seq(Nat) PROVE Range(s) \subseteq Nat
  BY SeqFacts DEF Range

(* How a rising sequence grows and shrinks.                                 *)
LEMMA RisingAppend ==
    ASSUME NEW s \in Seq(Nat), NEW n \in Nat, Rising(s), \A m \in Range(s) : m < n
    PROVE Rising(Append(s, n))
<1>1. \A i \in 1..Len(s) : s[i] < n
  BY SeqFacts DEF Range
<1> QED
  BY <1>1, AppendFacts, SeqFacts, SMT, SMTT(20) DEF Rising

LEMMA RisingTail == ASSUME NEW s \in Seq(Nat), s # <<>>, Rising(s) PROVE Rising(Tail(s)) /\ \A n \in Range(Tail(s)) : Head(s) < n
<1>1. Rising(Tail(s))
  BY TailFacts, SeqFacts, SMT, SMTT(20) DEF Rising
<1>2. ASSUME NEW i \in DOMAIN Tail(s) PROVE Head(s) < Tail(s)[i]
  BY <1>2, TailFacts, SeqFacts, SMT, SMTT(20) DEF Rising
<1> QED
  BY <1>1, <1>2 DEF Range

LEMMA RisingJoin ==
    ASSUME NEW s \in Seq(Nat), NEW t \in Seq(Nat), Rising(s), Rising(t), Before(s, t)
    PROVE Rising(s \o t)
<1>1. /\ DOMAIN s = 1..Len(s) /\ DOMAIN t = 1..Len(t) /\ DOMAIN (s \o t) = 1..(Len(s) + Len(t))
      /\ Len(s) \in Nat /\ Len(t) \in Nat
  BY JoinFacts, SeqFacts, SMT, SMTT(20)
<1>2. \A i \in DOMAIN s, j \in DOMAIN t : s[i] < t[j]
  BY DEF Before, Range
<1> SUFFICES ASSUME NEW i \in DOMAIN (s \o t), NEW j \in DOMAIN (s \o t), i < j
             PROVE (s \o t)[i] < (s \o t)[j]
  BY DEF Rising
<1>3. CASE j <= Len(s)
  <2>1. i \in DOMAIN s /\ j \in DOMAIN s
    BY <1>1, <1>3, SMT, SMTT(20)
  <2>2. s[i] < s[j]
    BY <2>1 DEF Rising
  <2>3. (s \o t)[i] = s[i] /\ (s \o t)[j] = s[j]
    BY <1>1, <2>1, JoinFacts, SMT, SMTT(20)
  <2> QED
    BY <2>2, <2>3
<1>4. CASE i <= Len(s) /\ ~(j <= Len(s))
  <2>1. i \in DOMAIN s /\ j - Len(s) \in DOMAIN t /\ Len(s) + (j - Len(s)) = j
    BY <1>1, <1>4, SMT, SMTT(20)
  <2>2. (s \o t)[i] = s[i] /\ (s \o t)[j] = t[j - Len(s)]
    BY <1>1, <2>1, JoinFacts, SMT, SMTT(20)
  <2> QED
    BY <1>2, <2>1, <2>2
<1>5. CASE ~(i <= Len(s))
  <2>0. i \in (Len(s) + 1)..(Len(s) + Len(t)) /\ j \in (Len(s) + 1)..(Len(s) + Len(t))
    BY <1>1, <1>5, SMT, SMTT(20)
  <2>1. /\ i - Len(s) \in DOMAIN t /\ Len(s) + (i - Len(s)) = i
        /\ j - Len(s) \in DOMAIN t /\ Len(s) + (j - Len(s)) = j
        /\ i - Len(s) < j - Len(s)
    BY <1>1, <2>0, SMT, SMTT(20)
  <2>2. (s \o t)[i] = t[i - Len(s)] /\ (s \o t)[j] = t[j - Len(s)]
    BY <1>1, <2>1, JoinFacts, SMT, SMTT(20)
  <2>3. t[i - Len(s)] < t[j - Len(s)]
    BY <2>1, SMT, SMTT(20) DEF Rising
  <2> QED
    BY <2>2, <2>3
<1> QED
  BY <1>3, <1>4, <1>5

(* How a numbered sequence grows and shrinks.                               *)
LEMMA NumberedAppend ==
    ASSUME NEW s \in Seq(Nat), NEW n \in Nat, Numbered(s, n)
    PROVE Numbered(Append(s, n + Len(s) + 1), n)
<1>1. n + Len(s) + 1 \in Nat /\ n + Len(s) + 1 = n + (Len(s) + 1)
  BY SeqFacts, SMT, SMTT(20)
<1> QED
  BY <1>1, AppendFacts, SeqFacts, SMT, SMTT(20) DEF Numbered

LEMMA NumberedTail ==
    ASSUME NEW s \in Seq(Nat), s # <<>>, NEW n \in Nat, Numbered(s, n)
    PROVE Head(s) = n + 1 /\ Numbered(Tail(s), n + 1)
  BY TailFacts, SeqFacts, SMT, SMTT(20) DEF Numbered

LEMMA NumberedAll == ASSUME NEW s \in Seq(Nat), Numbered(s, 0) PROVE s = [i \in 1..Len(s) |-> i]
<1>1. s = [i \in 1..Len(s) |-> s[i]]
  BY SMT, SMTT(20)
<1>2. \A i \in 1..Len(s) : s[i] = i
  BY SeqFacts, SMT, SMTT(20) DEF Numbered
<1> QED
  BY <1>1, <1>2, SMT, SMTT(20)

-----------------------------------------------------------------------------
(* Transfers and commands (XferInv)                                         *)

LEMMA XferTypes ==
    ASSUME xf \in Transfer
    PROVE /\ xf.moved \in Nat /\ xf.size \in Nat
          /\ xf.wire \in Seq(Nat) /\ xf.body \in Seq(Nat) /\ xf.shown \in Seq(Nat)
          /\ Len(xf.wire) \in Nat /\ Len(xf.body) \in Nat /\ Len(xf.shown) \in Nat
<1>1. xf.moved \in Nat /\ xf.size \in Nat /\ xf.wire \in Seq(Nat) /\ xf.body \in Seq(Nat) /\ xf.shown \in Seq(Nat)
  BY SMT, SMTT(20) DEF Transfer
<1> QED
  BY <1>1, SeqFacts

LEMMA Words ==
    /\ {"open", "closing", "over"} \subseteq Ats /\ {"none", "ok", "error", "ended"} \subseteq Tolds
    /\ {"closed", "cancelled"} \subseteq Ends /\ {"off", "on", "ok", "failed"} \subseteq Pumps
    /\ {"ok", "error", "lost"} \subseteq Resps /\ {"ok", "error"} \subseteq Replies /\ {"no", "whole", "cut"} \subseteq Stores
  BY DEF Ats, Tolds, Ends, Pumps, Resps, Replies, Stores

(* The next number is put on the wire behind what was received.             *)
LEMMA NumberedMore ==
    ASSUME NEW s \in Seq(Nat), NEW b \in Seq(Nat), Numbered(s, Len(b)), NEW m \in Nat, m = Len(b) + Len(s)
    PROVE /\ m + 1 \in Nat /\ Append(s, m + 1) \in Seq(Nat) /\ Numbered(Append(s, m + 1), Len(b))
          /\ Len(b) + Len(Append(s, m + 1)) = m + 1
<1>1. Len(b) \in Nat /\ Len(s) \in Nat
  BY SeqFacts
<1>2. m + 1 \in Nat /\ m + 1 = Len(b) + Len(s) + 1
  BY <1>1, SMT, SMTT(20)
<1>3. Numbered(Append(s, m + 1), Len(b))
  BY <1>1, <1>2, NumberedAppend
<1>4. Append(s, m + 1) \in Seq(Nat) /\ Len(Append(s, m + 1)) = Len(s) + 1
  BY <1>2, AppendFacts
<1>5. Len(b) + (Len(s) + 1) = m + 1
  BY <1>1, SMT, SMTT(20)
<1> QED
  BY <1>2, <1>3, <1>4, <1>5

(* The first on the wire is received.                                       *)
LEMMA NumberedMove ==
    ASSUME NEW s \in Seq(Nat), NEW b \in Seq(Nat), Numbered(b, 0), Numbered(s, Len(b)), s # <<>>
    PROVE /\ Tail(s) \in Seq(Nat) /\ Append(b, Head(s)) \in Seq(Nat) /\ Head(s) = Len(b) + 1
          /\ Numbered(Append(b, Head(s)), 0) /\ Numbered(Tail(s), Len(Append(b, Head(s))))
          /\ Len(Append(b, Head(s))) = Len(b) + 1
          /\ Len(Append(b, Head(s))) + Len(Tail(s)) = Len(b) + Len(s) /\ Len(s) >= 1
<1>1. Len(b) \in Nat /\ Len(s) \in Nat
  BY SeqFacts
<1>2. Head(s) = Len(b) + 1 /\ Numbered(Tail(s), Len(b) + 1)
  BY <1>1, NumberedTail
<1>3. Head(s) \in Nat /\ Head(s) = 0 + Len(b) + 1
  BY <1>1, <1>2, SMT, SMTT(20)
<1>4. Numbered(Append(b, Head(s)), 0)
  BY <1>3, NumberedAppend, SMT, SMTT(20)
<1>5. Append(b, Head(s)) \in Seq(Nat) /\ Len(Append(b, Head(s))) = Len(b) + 1
  BY <1>3, AppendFacts
<1>6. Tail(s) \in Seq(Nat) /\ Len(Tail(s)) = Len(s) - 1 /\ Len(s) >= 1
  BY <1>1, TailFacts, SMT, SMTT(20)
<1>7. Len(b) + 1 + (Len(s) - 1) = Len(b) + Len(s)
  BY <1>1, SMT, SMTT(20)
<1> QED
  BY <1>2, <1>4, <1>5, <1>6, <1>7

(* An upload's data stays where it is.                                      *)
LEMMA UpControl ==
    ASSUME UpInv, xf' \in Transfer, Acked',
           xf'.kind = xf.kind, xf'.moved = xf.moved, xf'.wire = xf.wire, xf'.body = xf.body
    PROVE UpInv'
  BY DEF UpInv, Carried, Upload

LEMMA UploadRefusedKept == ASSUME UpInv, UploadRefused PROVE UpInv'
<1>1. xf \in Transfer /\ xf' = [xf EXCEPT !.at = "over", !.told = "error", !.ended = "closed"]
  BY DEF UploadRefused, UpInv, Over
<1>2. xf' \in Transfer
  BY <1>1, Words DEF Transfer
<1>3. /\ xf'.kind = xf.kind /\ xf'.size = xf.size /\ xf'.at = "over" /\ xf'.told = "error"
      /\ xf'.moved = xf.moved /\ xf'.wire = xf.wire /\ xf'.ended = "closed" /\ xf'.pump = xf.pump
      /\ xf'.resp = xf.resp /\ xf'.reply = xf.reply /\ xf'.body = xf.body /\ xf'.stored = xf.stored
      /\ xf'.shown = xf.shown
  BY <1>1, SMT, SMTT(20) DEF Transfer
<1>4. Acked'
  BY <1>3, SMT, SMTT(20) DEF UploadRefused, UpInv, Acked
<1> QED
  BY <1>2, <1>3, <1>4, UpControl

LEMMA UploadAtEndKept == ASSUME UpInv, UploadAtEnd PROVE UpInv'
<1>1. xf \in Transfer /\ xf' = [xf EXCEPT !.at = "closing", !.ended = "closed"]
  BY DEF UploadAtEnd, UpInv
<1>2. xf' \in Transfer
  BY <1>1, Words DEF Transfer
<1>3. /\ xf'.kind = xf.kind /\ xf'.size = xf.size /\ xf'.at = "closing" /\ xf'.told = xf.told
      /\ xf'.moved = xf.moved /\ xf'.wire = xf.wire /\ xf'.ended = "closed" /\ xf'.pump = xf.pump
      /\ xf'.resp = xf.resp /\ xf'.reply = xf.reply /\ xf'.body = xf.body /\ xf'.stored = xf.stored
      /\ xf'.shown = xf.shown
  BY <1>1, SMT, SMTT(20) DEF Transfer
<1>4. Acked'
  BY <1>3, SMT, SMTT(20) DEF UploadAtEnd, UpInv, Acked
<1> QED
  BY <1>2, <1>3, <1>4, UpControl

LEMMA PumpWriteFailsKept == ASSUME UpInv, PumpWriteFails PROVE UpInv'
<1>1. xf \in Transfer /\ xf' = [xf EXCEPT !.pump = "failed"]
  BY DEF PumpWriteFails, UpInv
<1>2. xf' \in Transfer
  BY <1>1, Words DEF Transfer
<1>3. /\ xf'.kind = xf.kind /\ xf'.size = xf.size /\ xf'.at = xf.at /\ xf'.told = xf.told
      /\ xf'.moved = xf.moved /\ xf'.wire = xf.wire /\ xf'.ended = xf.ended /\ xf'.pump = "failed"
      /\ xf'.resp = xf.resp /\ xf'.reply = xf.reply /\ xf'.body = xf.body /\ xf'.stored = xf.stored
      /\ xf'.shown = xf.shown
  BY <1>1, SMT, SMTT(20) DEF Transfer
<1>4. Acked'
  BY <1>3, SMT, SMTT(20) DEF PumpWriteFails, UpInv, Acked
<1> QED
  BY <1>2, <1>3, <1>4, UpControl

LEMMA UploadBreaksKept == ASSUME UpInv, UploadBreaks PROVE UpInv'
<1>0. xf \in Transfer
  BY DEF UpInv
<1>1. CASE xf' = [xf EXCEPT !.at = "over", !.told = "error", !.ended = "closed"]
  <2>1. xf' \in Transfer
    BY <1>0, <1>1, Words DEF Transfer
  <2>2. /\ xf'.kind = xf.kind /\ xf'.size = xf.size /\ xf'.at = "over" /\ xf'.told = "error"
        /\ xf'.moved = xf.moved /\ xf'.wire = xf.wire /\ xf'.ended = "closed" /\ xf'.pump = xf.pump
        /\ xf'.resp = xf.resp /\ xf'.reply = xf.reply /\ xf'.body = xf.body /\ xf'.stored = xf.stored
        /\ xf'.shown = xf.shown
    BY <1>0, <1>1, SMT, SMTT(20) DEF Transfer
  <2>3. Acked'
    BY <2>2, SMT, SMTT(20) DEF UploadBreaks, UpInv, Acked
  <2> QED
    BY <2>1, <2>2, <2>3, UpControl
<1>2. CASE xf' = [xf EXCEPT !.at = "over", !.told = "none", !.ended = "cancelled"]
  <2>1. xf' \in Transfer
    BY <1>0, <1>2, Words DEF Transfer
  <2>2. /\ xf'.kind = xf.kind /\ xf'.size = xf.size /\ xf'.at = "over" /\ xf'.told = "none"
        /\ xf'.moved = xf.moved /\ xf'.wire = xf.wire /\ xf'.ended = "cancelled" /\ xf'.pump = xf.pump
        /\ xf'.resp = xf.resp /\ xf'.reply = xf.reply /\ xf'.body = xf.body /\ xf'.stored = xf.stored
        /\ xf'.shown = xf.shown
    BY <1>0, <1>2, SMT, SMTT(20) DEF Transfer
  <2>3. Acked'
    BY <2>2, SMT, SMTT(20) DEF UploadBreaks, UpInv, Acked
  <2> QED
    BY <2>1, <2>2, <2>3, UpControl
<1> QED
  BY <1>1, <1>2 DEF UploadBreaks, Over

LEMMA PumpDoneKept == ASSUME UpInv, PumpDone PROVE UpInv'
<1>0. xf \in Transfer
  BY DEF UpInv
<1>1. CASE xf.ended = "closed" /\ xf.wire = <<>> /\ xf' = [xf EXCEPT !.pump = "ok"]
  <2>1. xf' \in Transfer
    BY <1>0, <1>1, Words DEF Transfer
  <2>2. /\ xf'.kind = xf.kind /\ xf'.size = xf.size /\ xf'.at = xf.at /\ xf'.told = xf.told
        /\ xf'.moved = xf.moved /\ xf'.wire = xf.wire /\ xf'.ended = xf.ended /\ xf'.pump = "ok"
        /\ xf'.resp = xf.resp /\ xf'.reply = xf.reply /\ xf'.body = xf.body /\ xf'.stored = xf.stored
        /\ xf'.shown = xf.shown
    BY <1>0, <1>1, SMT, SMTT(20) DEF Transfer
  <2>3. Acked'
    BY <1>1, <2>2, SMT, SMTT(20) DEF PumpDone, UpInv, Acked
  <2> QED
    BY <2>1, <2>2, <2>3, UpControl
<1>2. CASE xf' = [xf EXCEPT !.pump = "failed"]
  <2>1. xf' \in Transfer
    BY <1>0, <1>2, Words DEF Transfer
  <2>2. /\ xf'.kind = xf.kind /\ xf'.size = xf.size /\ xf'.at = xf.at /\ xf'.told = xf.told
        /\ xf'.moved = xf.moved /\ xf'.wire = xf.wire /\ xf'.ended = xf.ended /\ xf'.pump = "failed"
        /\ xf'.resp = xf.resp /\ xf'.reply = xf.reply /\ xf'.body = xf.body /\ xf'.stored = xf.stored
        /\ xf'.shown = xf.shown
    BY <1>0, <1>2, SMT, SMTT(20) DEF Transfer
  <2>3. Acked'
    BY <2>2, SMT, SMTT(20) DEF PumpDone, UpInv, Acked
  <2> QED
    BY <2>1, <2>2, <2>3, UpControl
<1> QED
  BY <1>1, <1>2 DEF PumpDone

LEMMA GuestStoresKept == ASSUME UpInv, NEW fails, GuestStores(fails) PROVE UpInv'
<1>0. xf \in Transfer
  BY DEF UpInv
<1>1. CASE xf.pump = "ok" /\ xf' = [xf EXCEPT !.resp = "ok", !.stored = "whole"]
  <2>1. xf' \in Transfer
    BY <1>0, <1>1, Words DEF Transfer
  <2>2. /\ xf'.kind = xf.kind /\ xf'.size = xf.size /\ xf'.at = xf.at /\ xf'.told = xf.told
        /\ xf'.moved = xf.moved /\ xf'.wire = xf.wire /\ xf'.ended = xf.ended /\ xf'.pump = xf.pump
        /\ xf'.resp = "ok" /\ xf'.reply = xf.reply /\ xf'.body = xf.body /\ xf'.stored = "whole"
        /\ xf'.shown = xf.shown
    BY <1>0, <1>1, SMT, SMTT(20) DEF Transfer
  <2>3. Acked'
    BY <1>1, <2>2, SMT, SMTT(20) DEF GuestStores, UpInv, Acked
  <2> QED
    BY <2>1, <2>2, <2>3, UpControl
<1>2. CASE xf' = [xf EXCEPT !.resp = "error"]
  <2>1. xf' \in Transfer
    BY <1>0, <1>2, Words DEF Transfer
  <2>2. /\ xf'.kind = xf.kind /\ xf'.size = xf.size /\ xf'.at = xf.at /\ xf'.told = xf.told
        /\ xf'.moved = xf.moved /\ xf'.wire = xf.wire /\ xf'.ended = xf.ended /\ xf'.pump = xf.pump
        /\ xf'.resp = "error" /\ xf'.reply = xf.reply /\ xf'.body = xf.body /\ xf'.stored = xf.stored
        /\ xf'.shown = xf.shown
    BY <1>0, <1>2, SMT, SMTT(20) DEF Transfer
  <2>3. Acked'
    BY <2>2, SMT, SMTT(20) DEF GuestStores, UpInv, Acked
  <2> QED
    BY <2>1, <2>2, <2>3, UpControl
<1> QED
  BY <1>1, <1>2 DEF GuestStores

LEMMA GuestLostKept == ASSUME UpInv, NEW gone, GuestLost(gone) PROVE UpInv'
<1>0. xf \in Transfer
  BY DEF UpInv
<1>9. xf.resp = "none"
  BY DEF GuestLost
<1>1. CASE xf' = [xf EXCEPT !.resp = "lost", !.stored = "no"]
  <2>1. xf' \in Transfer
    BY <1>0, <1>1, Words DEF Transfer
  <2>2. /\ xf'.kind = xf.kind /\ xf'.size = xf.size /\ xf'.at = xf.at /\ xf'.told = xf.told
        /\ xf'.moved = xf.moved /\ xf'.wire = xf.wire /\ xf'.ended = xf.ended /\ xf'.pump = xf.pump
        /\ xf'.resp = "lost" /\ xf'.reply = xf.reply /\ xf'.body = xf.body /\ xf'.stored = "no"
        /\ xf'.shown = xf.shown
    BY <1>0, <1>1, SMT, SMTT(20) DEF Transfer
  <2>3. Acked'
    BY <2>2, <1>9, SMT, SMTT(20) DEF UpInv, Acked
  <2> QED
    BY <2>1, <2>2, <2>3, UpControl
<1>2. CASE xf' = [xf EXCEPT !.resp = "lost", !.stored = "cut"]
  <2>1. xf' \in Transfer
    BY <1>0, <1>2, Words DEF Transfer
  <2>2. /\ xf'.kind = xf.kind /\ xf'.size = xf.size /\ xf'.at = xf.at /\ xf'.told = xf.told
        /\ xf'.moved = xf.moved /\ xf'.wire = xf.wire /\ xf'.ended = xf.ended /\ xf'.pump = xf.pump
        /\ xf'.resp = "lost" /\ xf'.reply = xf.reply /\ xf'.body = xf.body /\ xf'.stored = "cut"
        /\ xf'.shown = xf.shown
    BY <1>0, <1>2, SMT, SMTT(20) DEF Transfer
  <2>3. Acked'
    BY <2>2, <1>9, SMT, SMTT(20) DEF UpInv, Acked
  <2> QED
    BY <2>1, <2>2, <2>3, UpControl
<1> QED
  BY <1>1, <1>2, <1>9 DEF GuestLost

LEMMA WriteFileStreamKept == ASSUME UpInv, WriteFileStream PROVE UpInv'
<1>0. xf \in Transfer
  BY DEF UpInv
<1>1. CASE xf.resp = "ok" /\ xf' = [xf EXCEPT !.reply = "ok"]
  <2>1. xf' \in Transfer
    BY <1>0, <1>1, Words DEF Transfer
  <2>2. /\ xf'.kind = xf.kind /\ xf'.size = xf.size /\ xf'.at = xf.at /\ xf'.told = xf.told
        /\ xf'.moved = xf.moved /\ xf'.wire = xf.wire /\ xf'.ended = xf.ended /\ xf'.pump = xf.pump
        /\ xf'.resp = xf.resp /\ xf'.reply = "ok" /\ xf'.body = xf.body /\ xf'.stored = xf.stored
        /\ xf'.shown = xf.shown
    BY <1>0, <1>1, SMT, SMTT(20) DEF Transfer
  <2>3. Acked'
    BY <1>1, <2>2, SMT, SMTT(20) DEF WriteFileStream, UpInv, Acked
  <2> QED
    BY <2>1, <2>2, <2>3, UpControl
<1>2. CASE xf' = [xf EXCEPT !.reply = "error"]
  <2>1. xf' \in Transfer
    BY <1>0, <1>2, Words DEF Transfer
  <2>2. /\ xf'.kind = xf.kind /\ xf'.size = xf.size /\ xf'.at = xf.at /\ xf'.told = xf.told
        /\ xf'.moved = xf.moved /\ xf'.wire = xf.wire /\ xf'.ended = xf.ended /\ xf'.pump = xf.pump
        /\ xf'.resp = xf.resp /\ xf'.reply = "error" /\ xf'.body = xf.body /\ xf'.stored = xf.stored
        /\ xf'.shown = xf.shown
    BY <1>0, <1>2, SMT, SMTT(20) DEF Transfer
  <2>3. Acked'
    BY <2>2, SMT, SMTT(20) DEF WriteFileStream, UpInv, Acked
  <2> QED
    BY <2>1, <2>2, <2>3, UpControl
<1> QED
  BY <1>1, <1>2 DEF WriteFileStream

LEMMA UploadAnsweredKept == ASSUME UpInv, UploadAnswered PROVE UpInv'
<1>0. xf \in Transfer
  BY DEF UpInv
<1>9. xf.reply \in {"ok", "error"}
  BY <1>0, SMT, SMTT(20) DEF UploadAnswered, Transfer, Replies
<1>1. CASE xf.reply = "ok" /\ xf' = [xf EXCEPT !.at = "over", !.told = "ok"]
  <2>1. xf' \in Transfer
    BY <1>0, <1>1, Words DEF Transfer
  <2>2. /\ xf'.kind = xf.kind /\ xf'.size = xf.size /\ xf'.at = "over" /\ xf'.told = "ok"
        /\ xf'.moved = xf.moved /\ xf'.wire = xf.wire /\ xf'.ended = xf.ended /\ xf'.pump = xf.pump
        /\ xf'.resp = xf.resp /\ xf'.reply = xf.reply /\ xf'.body = xf.body /\ xf'.stored = xf.stored
        /\ xf'.shown = xf.shown
    BY <1>0, <1>1, SMT, SMTT(20) DEF Transfer
  <2>3. Acked'
    BY <1>1, <2>2, SMT, SMTT(20) DEF UploadAnswered, UpInv, Acked
  <2> QED
    BY <2>1, <2>2, <2>3, UpControl
<1>2. CASE xf' = [xf EXCEPT !.at = "over", !.told = "error"]
  <2>1. xf' \in Transfer
    BY <1>0, <1>2, Words DEF Transfer
  <2>2. /\ xf'.kind = xf.kind /\ xf'.size = xf.size /\ xf'.at = "over" /\ xf'.told = "error"
        /\ xf'.moved = xf.moved /\ xf'.wire = xf.wire /\ xf'.ended = xf.ended /\ xf'.pump = xf.pump
        /\ xf'.resp = xf.resp /\ xf'.reply = xf.reply /\ xf'.body = xf.body /\ xf'.stored = xf.stored
        /\ xf'.shown = xf.shown
    BY <1>0, <1>2, SMT, SMTT(20) DEF Transfer
  <2>3. Acked'
    BY <2>2, SMT, SMTT(20) DEF UploadAnswered, UpInv, Acked
  <2> QED
    BY <2>1, <2>2, <2>3, UpControl
<1> QED
  BY <1>1, <1>2, <1>9 DEF UploadAnswered, Over

LEMMA UploadBegins == ASSUME UpInv, NEW ok, xf.at = "none", Begin(ok) PROVE UpInv'
<1>0. xf \in Transfer
  BY DEF UpInv
<1>1. CASE xf' = [xf EXCEPT !.at = "open", !.pump = "on"]
  <2>1. xf' \in Transfer
    BY <1>0, <1>1, Words DEF Transfer
  <2>2. /\ xf'.kind = xf.kind /\ xf'.size = xf.size /\ xf'.at = "open" /\ xf'.told = xf.told
        /\ xf'.moved = xf.moved /\ xf'.wire = xf.wire /\ xf'.ended = xf.ended /\ xf'.pump = "on"
        /\ xf'.resp = xf.resp /\ xf'.reply = xf.reply /\ xf'.body = xf.body /\ xf'.stored = xf.stored
        /\ xf'.shown = xf.shown
    BY <1>0, <1>1, SMT, SMTT(20) DEF Transfer
  <2>3. Acked'
    BY <2>2, SMT, SMTT(20) DEF Begin, UpInv, Acked
  <2> QED
    BY <2>1, <2>2, <2>3, UpControl
<1>2. CASE xf' = [xf EXCEPT !.at = "over", !.told = "error"]
  <2>1. xf' \in Transfer
    BY <1>0, <1>2, Words DEF Transfer
  <2>2. /\ xf'.kind = xf.kind /\ xf'.size = xf.size /\ xf'.at = "over" /\ xf'.told = "error"
        /\ xf'.moved = xf.moved /\ xf'.wire = xf.wire /\ xf'.ended = xf.ended /\ xf'.pump = xf.pump
        /\ xf'.resp = xf.resp /\ xf'.reply = xf.reply /\ xf'.body = xf.body /\ xf'.stored = xf.stored
        /\ xf'.shown = xf.shown
    BY <1>0, <1>2, SMT, SMTT(20) DEF Transfer
  <2>3. Acked'
    BY <2>2, SMT, SMTT(20) DEF Begin, UpInv, Acked
  <2> QED
    BY <2>1, <2>2, <2>3, UpControl
<1> QED
  BY <1>1, <1>2 DEF Begin, Over, UpInv

LEMMA UploadReadsKept == ASSUME UpInv, UploadReads PROVE UpInv'
<1> DEFINE w == Append(xf.wire, xf.moved + 1)
<1>1. xf \in Transfer /\ xf.at = "open" /\ xf' = [xf EXCEPT !.moved = xf.moved + 1, !.wire = w]
  BY DEF UploadReads, UpInv
<1>2. /\ xf.moved + 1 \in Nat /\ w \in Seq(Nat) /\ Numbered(w, Len(xf.body))
      /\ Len(xf.body) + Len(w) = xf.moved + 1
  <2>1. xf.wire \in Seq(Nat) /\ xf.body \in Seq(Nat) /\ xf.moved \in Nat /\ Numbered(xf.wire, Len(xf.body)) /\ xf.moved = Len(xf.body) + Len(xf.wire)
    BY <1>1, XferTypes DEF UpInv, Carried
  <2> QED
    BY <2>1, NumberedMore
<1> HIDE DEF w
<1>3. xf' \in Transfer
  BY <1>1, <1>2 DEF Transfer
<1>4. /\ xf'.kind = xf.kind /\ xf'.size = xf.size /\ xf'.at = xf.at /\ xf'.told = xf.told
      /\ xf'.moved = xf.moved + 1 /\ xf'.wire = w /\ xf'.ended = xf.ended /\ xf'.pump = xf.pump
      /\ xf'.resp = xf.resp /\ xf'.reply = xf.reply /\ xf'.body = xf.body /\ xf'.stored = xf.stored
      /\ xf'.shown = xf.shown
  BY <1>1, SMT, SMTT(20) DEF Transfer
<1>5. Acked'
  <2>1. xf.at = "open" /\ xf.ended = "no" /\ xf.pump # "ok" /\ xf.told # "ok"
    BY <1>1, SMT, SMTT(20) DEF UpInv, Acked
  <2> QED
    BY <1>4, <2>1, SMT, SMTT(20) DEF UpInv, Acked
<1>6. Carried'
  BY <1>2, <1>4 DEF UpInv, Carried
<1> QED
  BY <1>3, <1>4, <1>5, <1>6 DEF UpInv, Upload

LEMMA PumpWritesKept == ASSUME UpInv, PumpWrites PROVE UpInv'
<1> DEFINE w == Tail(xf.wire)
           b == Append(xf.body, Head(xf.wire))
<1>1. xf \in Transfer /\ xf.pump = "on" /\ xf.wire # <<>> /\ xf' = [xf EXCEPT !.wire = w, !.body = b]
  BY DEF PumpWrites, UpInv
<1>2. /\ w \in Seq(Nat) /\ b \in Seq(Nat) /\ Numbered(b, 0) /\ Numbered(w, Len(b))
      /\ Len(b) + Len(w) = Len(xf.body) + Len(xf.wire)
  <2>1. xf.wire \in Seq(Nat) /\ xf.body \in Seq(Nat) /\ Numbered(xf.body, 0) /\ Numbered(xf.wire, Len(xf.body))
    BY <1>1, XferTypes DEF UpInv, Carried
  <2> QED
    BY <1>1, <2>1, NumberedMove
<1> HIDE DEF w, b
<1>3. xf' \in Transfer
  BY <1>1, <1>2 DEF Transfer
<1>4. /\ xf'.kind = xf.kind /\ xf'.size = xf.size /\ xf'.at = xf.at /\ xf'.told = xf.told
      /\ xf'.moved = xf.moved /\ xf'.wire = w /\ xf'.ended = xf.ended /\ xf'.pump = xf.pump
      /\ xf'.resp = xf.resp /\ xf'.reply = xf.reply /\ xf'.body = b /\ xf'.stored = xf.stored
      /\ xf'.shown = xf.shown
  BY <1>1, SMT, SMTT(20) DEF Transfer
<1>5. Acked'
  <2>1. xf.pump = "on"
    BY <1>1
  <2> QED
    BY <1>4, <2>1, SMT, SMTT(20) DEF UpInv, Acked
<1>6. Carried'
  BY <1>2, <1>4 DEF UpInv, Carried
<1> QED
  BY <1>3, <1>4, <1>5, <1>6 DEF UpInv, Upload

(* What a client is sent stays where it is.                                 *)
LEMMA OutControl ==
    ASSUME OutInv, xf' \in Transfer, Counted', xf'.kind = xf.kind, xf'.wire = xf.wire, xf'.shown = xf.shown
    PROVE OutInv'
  BY DEF OutInv, Passed, Upload

LEMMA OutBegins == ASSUME OutInv, xf.at = "none", NEW ok, Begin(ok) PROVE OutInv'
<1>0. xf \in Transfer /\ ~Upload
  BY DEF OutInv
<1>1. xf.at = "none" /\ xf.ended = "no" /\ xf.told # "ok"
  BY SMT, SMTT(20) DEF OutInv, Counted
<1>2. CASE xf' = [xf EXCEPT !.at = "open", !.pump = "off"]
  <2>1. xf' \in Transfer
    BY <1>0, <1>2, Words DEF Transfer
  <2>2. /\ xf'.kind = xf.kind /\ xf'.size = xf.size /\ xf'.at = "open" /\ xf'.told = xf.told
        /\ xf'.moved = xf.moved /\ xf'.wire = xf.wire /\ xf'.ended = xf.ended /\ xf'.pump = "off"
        /\ xf'.resp = xf.resp /\ xf'.reply = xf.reply /\ xf'.body = xf.body /\ xf'.stored = xf.stored
        /\ xf'.shown = xf.shown
    BY <1>0, <1>2, SMT, SMTT(20) DEF Transfer
  <2>3. ~EndDue /\ ~EndDue'
    BY <1>1, <2>2, SMT, SMTT(20) DEF EndDue
  <2>4. Counted'
    BY <1>1, <2>2, <2>3 DEF OutInv, Counted
  <2> QED
    BY <2>1, <2>2, <2>4, OutControl
<1>3. CASE xf' = [xf EXCEPT !.at = "over", !.told = "error"]
  <2>1. xf' \in Transfer
    BY <1>0, <1>3, Words DEF Transfer
  <2>2. /\ xf'.kind = xf.kind /\ xf'.size = xf.size /\ xf'.at = "over" /\ xf'.told = "error"
        /\ xf'.moved = xf.moved /\ xf'.wire = xf.wire /\ xf'.ended = xf.ended /\ xf'.pump = xf.pump
        /\ xf'.resp = xf.resp /\ xf'.reply = xf.reply /\ xf'.body = xf.body /\ xf'.stored = xf.stored
        /\ xf'.shown = xf.shown
    BY <1>0, <1>3, SMT, SMTT(20) DEF Transfer
  <2>3. ~EndDue /\ ~EndDue'
    BY <1>1, <2>2, SMT, SMTT(20) DEF EndDue
  <2>4. Counted'
    BY <1>1, <2>2, <2>3 DEF OutInv, Counted
  <2> QED
    BY <2>1, <2>2, <2>4, OutControl
<1> QED
  BY <1>0, <1>2, <1>3 DEF Begin, Over

(* The handler is done: it told the client what it had told it before, or   *)
(* something else than that the command succeeded.                          *)
LEMMA OutEnds ==
    ASSUME OutInv, NEW v \in Tolds, v = xf.told \/ (v # "ok" /\ xf.told # "ok"),
           xf' = [xf EXCEPT !.at = "over", !.told = v]
    PROVE OutInv'
<1>0. xf \in Transfer
  BY DEF OutInv
<1>1. xf' \in Transfer
  BY <1>0, Words DEF Transfer
<1>2. /\ xf'.kind = xf.kind /\ xf'.size = xf.size /\ xf'.at = "over" /\ xf'.told = v /\ xf'.moved = xf.moved
      /\ xf'.wire = xf.wire /\ xf'.ended = xf.ended /\ xf'.pump = xf.pump /\ xf'.resp = xf.resp
      /\ xf'.reply = xf.reply /\ xf'.body = xf.body /\ xf'.stored = xf.stored /\ xf'.shown = xf.shown
  BY <1>0, SMT, SMTT(20) DEF Transfer
<1>3. Counted'
  <2>1. EndDue' <=> EndDue
    BY <1>2 DEF EndDue
  <2> QED
    BY <1>2, <2>1 DEF OutInv, Counted
<1> QED
  BY <1>1, <1>2, <1>3, OutControl

LEMMA StreamOverKept == ASSUME OutInv, NEW gone, StreamOver(gone) PROVE OutInv'
<1>1. xf.kind = "run" => xf.told # "ok"
  <2>1. xf.at = "open"
    BY DEF StreamOver
  <2> QED
    BY <2>1, SMT, SMTT(20) DEF OutInv, Counted
<1>2. CASE xf.kind = "run" /\ xf' = [xf EXCEPT !.at = "over", !.told = "error"]
  BY <1>1, <1>2, Words, OutEnds
<1>3. CASE xf.told = "ok" /\ xf' = [xf EXCEPT !.at = "over", !.told = "ok"]
  BY <1>3, Words, OutEnds
<1>4. CASE xf.told # "ok" /\ xf' = [xf EXCEPT !.at = "over", !.told = "ended"]
  BY <1>4, Words, OutEnds
<1> QED
  BY <1>2, <1>3, <1>4 DEF StreamOver, Over

LEMMA StreamStoppedKept == ASSUME OutInv, StreamStopped PROVE OutInv'
<1>1. xf.told \in Tolds
  BY SMT, SMTT(20) DEF OutInv, Transfer
<1> QED
  BY <1>1, OutEnds DEF StreamStopped, Over

(* What is still to come bounds what is on the wire.                        *)
LEMMA OutFacts ==
    ASSUME OutInv
    PROVE /\ xf \in Transfer /\ xf.moved \in Nat /\ xf.size \in Nat /\ xf.moved <= xf.size
          /\ xf.ended = "no" => xf.told # "ok" /\ xf.moved = Len(xf.shown) + Len(xf.wire)
<1>1. xf \in Transfer /\ xf.moved <= xf.size
  BY DEF OutInv, Counted
<1>2. ASSUME xf.ended = "no" PROVE xf.told # "ok" /\ xf.moved = Len(xf.shown) + Len(xf.wire)
  <2>1. ~EndDue
    BY <1>2 DEF EndDue
  <2> QED
    BY <1>2, <2>1 DEF OutInv, Counted
<1> QED
  BY <1>1, <1>2, XferTypes

LEMMA GuestSendsKept == ASSUME OutInv, GuestSends PROVE OutInv'
<1> DEFINE w == Append(xf.wire, xf.moved + 1)
<1>1. xf \in Transfer /\ xf.ended = "no" /\ xf.told # "ok" /\ xf.moved = Len(xf.shown) + Len(xf.wire)
  BY OutFacts DEF GuestSends
<1>2. /\ xf.moved + 1 \in Nat /\ w \in Seq(Nat) /\ Numbered(w, Len(xf.shown))
      /\ Len(xf.shown) + Len(w) = xf.moved + 1
  <2>1. xf.wire \in Seq(Nat) /\ xf.shown \in Seq(Nat) /\ xf.moved \in Nat /\ Numbered(xf.wire, Len(xf.shown)) /\ xf.moved = Len(xf.shown) + Len(xf.wire)
    BY <1>1, XferTypes DEF OutInv, Passed
  <2> QED
    BY <2>1, NumberedMore
<1>3. CASE xf.moved < xf.size /\ xf' = [xf EXCEPT !.moved = xf.moved + 1, !.wire = w]
  <2> HIDE DEF w
  <2>1. xf' \in Transfer
    BY <1>1, <1>2, <1>3 DEF Transfer
  <2>2. /\ xf'.kind = xf.kind /\ xf'.size = xf.size /\ xf'.at = xf.at /\ xf'.told = xf.told
        /\ xf'.moved = xf.moved + 1 /\ xf'.wire = w /\ xf'.ended = xf.ended /\ xf'.pump = xf.pump
        /\ xf'.resp = xf.resp /\ xf'.reply = xf.reply /\ xf'.body = xf.body /\ xf'.stored = xf.stored
        /\ xf'.shown = xf.shown
    BY <1>1, <1>3, SMT, SMTT(20) DEF Transfer
  <2>3. xf.moved + 1 <= xf.size
    BY <1>3, OutFacts, SMT, SMTT(20)
  <2>4. Counted'
    <3>1. xf.ended = "no" /\ xf.told # "ok" /\ Len(xf.shown) + Len(w) = xf.moved + 1
      BY <1>1, <1>2
    <3>2. ~EndDue'
      BY <2>2, <3>1 DEF EndDue
    <3> QED
      BY <2>2, <2>3, <3>1, <3>2 DEF OutInv, Counted
  <2> QED
    BY <1>2, <2>1, <2>2, <2>4 DEF OutInv, Passed, Upload
<1>4. CASE xf.moved = xf.size /\ xf.kind = "download" /\ xf' = [xf EXCEPT !.ended = "closed", !.wire = xf.wire]
  <2>1. xf' \in Transfer
    BY <1>1, <1>4, Words, XferTypes DEF Transfer
  <2>2. /\ xf'.kind = xf.kind /\ xf'.size = xf.size /\ xf'.at = xf.at /\ xf'.told = xf.told
        /\ xf'.moved = xf.moved /\ xf'.wire = xf.wire /\ xf'.ended = "closed" /\ xf'.pump = xf.pump
        /\ xf'.resp = xf.resp /\ xf'.reply = xf.reply /\ xf'.body = xf.body /\ xf'.stored = xf.stored
        /\ xf'.shown = xf.shown
    BY <1>1, <1>4, SMT, SMTT(20) DEF Transfer
  <2>3. Counted'
    <3>1. xf.ended = "no" /\ xf.told # "ok" /\ xf.at # "none" /\ xf.kind = "download" /\ xf.moved = xf.size
      BY <1>1, <1>4 DEF GuestSends
    <3>2. ~EndDue' /\ ~EndDue
      BY <2>2, <3>1 DEF EndDue
    <3> QED
      BY <2>2, <3>1, <3>2 DEF OutInv, Counted
  <2> QED
    BY <2>1, <2>2, <2>3, OutControl
<1>5. CASE xf.moved = xf.size /\ xf.kind # "download" /\ xf' = [xf EXCEPT !.ended = "closed", !.wire = w]
  <2> HIDE DEF w
  <2>1. xf' \in Transfer
    BY <1>1, <1>2, <1>5, Words DEF Transfer
  <2>2. /\ xf'.kind = xf.kind /\ xf'.size = xf.size /\ xf'.at = xf.at /\ xf'.told = xf.told
        /\ xf'.moved = xf.moved /\ xf'.wire = w /\ xf'.ended = "closed" /\ xf'.pump = xf.pump
        /\ xf'.resp = xf.resp /\ xf'.reply = xf.reply /\ xf'.body = xf.body /\ xf'.stored = xf.stored
        /\ xf'.shown = xf.shown
    BY <1>1, <1>5, SMT, SMTT(20) DEF Transfer
  <2>3. Counted'
    <3>1. /\ xf.ended = "no" /\ xf.told # "ok" /\ xf.at # "none" /\ xf.kind # "download" /\ xf.moved = xf.size
          /\ Len(xf.shown) + Len(w) = xf.size + 1
      BY <1>1, <1>2, <1>5 DEF GuestSends
    <3>2. EndDue'
      BY <2>2, <3>1 DEF EndDue
    <3> QED
      BY <2>2, <3>1, <3>2 DEF OutInv, Counted
  <2> QED
    BY <1>2, <2>1, <2>2, <2>3 DEF OutInv, Passed, Upload
<1>6. xf.moved < xf.size \/ xf.moved = xf.size
  BY OutFacts, SMT, SMTT(20)
<1>7. xf.moved = xf.size => ~(xf.moved < xf.size) /\ EndEvent = xf.moved + 1
  BY OutFacts, SMT, SMTT(20) DEF EndEvent
<1> QED
  BY <1>3, <1>4, <1>5, <1>6, <1>7 DEF GuestSends

(* While the handler runs, a client that was told of the end was given all. *)
LEMMA NotYetTold ==
    ASSUME OutInv, xf.at = "open", xf.kind \in {"download", "exec", "run"}, xf.wire # <<>>
    PROVE xf.told # "ok"
<1> SUFFICES ASSUME xf.told = "ok" PROVE FALSE
  OBVIOUS
<1>1. xf.ended = "closed" /\ xf.kind # "run" /\ Len(xf.shown) = xf.size /\ xf.moved = xf.size
  BY DEF OutInv, Counted
<1>2. ~EndDue
  BY <1>1 DEF EndDue
<1>3. Len(xf.shown) + Len(xf.wire) = xf.size
  BY <1>1, <1>2 DEF OutInv, Counted
<1>4. Len(xf.wire) = 0
  BY <1>1, <1>3, OutFacts, XferTypes, SMT, SMTT(20)
<1> QED
  BY <1>4, OutFacts, XferTypes, NoneLeft

(* A chunk is passed on to the client.                                      *)
LEMMA ChunkPassed ==
    ASSUME OutInv, xf.wire # <<>>, xf.told # "ok",
           xf' = [xf EXCEPT !.wire = Tail(xf.wire), !.shown = Append(xf.shown, Head(xf.wire))]
    PROVE OutInv'
<1> DEFINE w == Tail(xf.wire)
           b == Append(xf.shown, Head(xf.wire))
<1>1. xf \in Transfer /\ xf' = [xf EXCEPT !.wire = w, !.shown = b]
  BY OutFacts
<1>2. /\ w \in Seq(Nat) /\ b \in Seq(Nat) /\ Numbered(b, 0) /\ Numbered(w, Len(b))
      /\ Len(b) + Len(w) = Len(xf.shown) + Len(xf.wire)
  <2>1. xf.wire \in Seq(Nat) /\ xf.shown \in Seq(Nat) /\ Numbered(xf.shown, 0) /\ Numbered(xf.wire, Len(xf.shown))
    BY <1>1, XferTypes DEF OutInv, Passed
  <2> QED
    BY <1>1, <2>1, NumberedMove
<1> HIDE DEF w, b
<1>3. xf' \in Transfer
  BY <1>1, <1>2 DEF Transfer
<1>4. /\ xf'.kind = xf.kind /\ xf'.size = xf.size /\ xf'.at = xf.at /\ xf'.told = xf.told
      /\ xf'.moved = xf.moved /\ xf'.wire = w /\ xf'.ended = xf.ended /\ xf'.pump = xf.pump
      /\ xf'.resp = xf.resp /\ xf'.reply = xf.reply /\ xf'.body = xf.body /\ xf'.stored = xf.stored
      /\ xf'.shown = b
  BY <1>1 DEF Transfer
<1>5. EndDue' <=> EndDue
  BY <1>4 DEF EndDue
<1>6. Counted'
  BY <1>2, <1>4, <1>5 DEF OutInv, Counted
<1> QED
  BY <1>2, <1>3, <1>4, <1>6 DEF OutInv, Passed, Upload

LEMMA Cancel == \A m, n \in Nat : m + n = m + 1 => n = 1
  BY SMT, SMTT(20)

(* The end event comes when everything else was passed on.                  *)
LEMMA EndReached ==
    ASSUME OutInv, xf.kind \in {"exec", "run"}, xf.wire # <<>>, xf.told # "ok", Head(xf.wire) = EndEvent
    PROVE xf.ended = "closed" /\ xf.moved = xf.size /\ EndDue /\ Len(xf.shown) = xf.size /\ Len(xf.wire) = 1
<1>0. /\ Len(xf.shown) \in Nat /\ Len(xf.wire) \in Nat /\ xf.size \in Nat /\ xf.moved \in Nat /\ xf.moved <= xf.size
      /\ xf.wire \in Seq(Nat) /\ xf.shown \in Seq(Nat) /\ Numbered(xf.shown, 0) /\ Numbered(xf.wire, Len(xf.shown))
  BY OutFacts, XferTypes DEF OutInv, Passed
<1>1. Head(xf.wire) = Len(xf.shown) + 1 /\ Len(xf.wire) >= 1
  BY <1>0, NumberedMove
<1>2. Len(xf.shown) = xf.size
  BY <1>0, <1>1, SMT, SMTT(20) DEF EndEvent
<1>3. Len(xf.shown) + Len(xf.wire) # xf.moved
  BY <1>0, <1>1, <1>2, SMT, SMTT(20)
<1>4. EndDue
  BY <1>3 DEF OutInv, Counted
<1>5. Len(xf.shown) + Len(xf.wire) = xf.size + 1
  BY <1>4 DEF OutInv, Counted
<1>6. Len(xf.wire) = 1
  BY <1>0, <1>2, <1>5, Cancel
<1> QED
  BY <1>2, <1>4, <1>6 DEF EndDue, OutInv, Counted

LEMMA EndPassed ==
    ASSUME OutInv, xf.kind = "exec", xf.wire # <<>>, xf.told # "ok", Head(xf.wire) = EndEvent,
           xf' = [xf EXCEPT !.wire = Tail(xf.wire), !.told = "ok"]
    PROVE OutInv'
<1> DEFINE w == Tail(xf.wire)
<1>1. xf \in Transfer /\ xf' = [xf EXCEPT !.wire = w, !.told = "ok"]
  BY OutFacts
<1>2. w \in Seq(Nat) /\ Len(w) = 0 /\ Len(xf.shown) + Len(w) = xf.size
  <2>1. w \in Seq(Nat) /\ Len(w) = Len(xf.wire) - 1
    BY <1>1, XferTypes, TailFacts
  <2>2. Len(xf.wire) = 1 /\ Len(xf.shown) = xf.size /\ xf.size \in Nat
    BY EndReached, OutFacts
  <2> HIDE DEF w
  <2>3. Len(w) = 0
    BY <2>1, <2>2, SMT, SMTT(20)
  <2>4. xf.size + 0 = xf.size
    BY <2>2, SMT, SMTT(20)
  <2> QED
    BY <2>1, <2>2, <2>3, <2>4
<1>3. Numbered(w, Len(xf.shown))
  BY <1>2, NoneLeft, EmptyFacts DEF Numbered
<1> HIDE DEF w
<1>4. xf' \in Transfer
  BY <1>1, <1>2, Words DEF Transfer
<1>5. /\ xf'.kind = xf.kind /\ xf'.size = xf.size /\ xf'.at = xf.at /\ xf'.told = "ok" /\ xf'.moved = xf.moved
      /\ xf'.wire = w /\ xf'.ended = xf.ended /\ xf'.pump = xf.pump /\ xf'.resp = xf.resp
      /\ xf'.reply = xf.reply /\ xf'.body = xf.body /\ xf'.stored = xf.stored /\ xf'.shown = xf.shown
  BY <1>1 DEF Transfer
<1>6. ~EndDue'
  BY <1>5 DEF EndDue
<1>7. Counted'
  BY <1>2, <1>5, <1>6, EndReached DEF OutInv, Counted
<1> QED
  BY <1>3, <1>4, <1>5, <1>7 DEF OutInv, Passed, Upload

LEMMA ReadFileStreamKept == ASSUME OutInv, ReadFileStream PROVE OutInv'
  BY NotYetTold, ChunkPassed DEF ReadFileStream

LEMMA ExecStreamKept == ASSUME OutInv, ExecStream PROVE OutInv'
<1>1. xf.kind = "exec" /\ xf.wire # <<>> /\ xf.told # "ok"
  BY NotYetTold DEF ExecStream
<1>2. CASE Head(xf.wire) = EndEvent
  BY <1>1, <1>2, EndPassed DEF ExecStream
<1>3. CASE Head(xf.wire) # EndEvent
  BY <1>1, <1>3, ChunkPassed DEF ExecStream
<1> QED
  BY <1>2, <1>3

LEMMA ExecKept == ASSUME OutInv, Exec PROVE OutInv'
<1>1. xf.kind = "run" /\ xf.wire # <<>> /\ xf.told # "ok"
  BY NotYetTold DEF Exec
<1>2. CASE Head(xf.wire) = EndEvent
  <2>1. xf \in Transfer /\ xf' = [xf EXCEPT !.at = "over", !.told = "ok"]
    BY <1>2, OutFacts DEF Exec, Over
  <2>2. xf' \in Transfer
    BY <2>1, Words DEF Transfer
  <2>3. /\ xf'.kind = xf.kind /\ xf'.size = xf.size /\ xf'.at = "over" /\ xf'.told = "ok"
        /\ xf'.moved = xf.moved /\ xf'.wire = xf.wire /\ xf'.ended = xf.ended /\ xf'.pump = xf.pump
        /\ xf'.resp = xf.resp /\ xf'.reply = xf.reply /\ xf'.body = xf.body /\ xf'.stored = xf.stored
        /\ xf'.shown = xf.shown
    BY <2>1, SMT, SMTT(20) DEF Transfer
  <2>4. EndDue' <=> EndDue
    BY <1>1, <2>3 DEF EndDue
  <2>5. Counted'
    BY <1>1, <1>2, <2>3, <2>4, EndReached DEF OutInv, Counted
  <2> QED
    BY <2>2, <2>3, <2>5, OutControl
<1>3. CASE Head(xf.wire) # EndEvent /\ xf' = [xf EXCEPT !.at = "over", !.told = "error"]
  BY <1>1, <1>3, Words, OutEnds
<1>4. CASE Head(xf.wire) # EndEvent /\ xf' = [xf EXCEPT !.wire = Tail(xf.wire), !.shown = Append(xf.shown, Head(xf.wire))]
  BY <1>1, <1>4, ChunkPassed
<1> QED
  BY <1>2, <1>3, <1>4 DEF Exec, Over

LEMMA TransfersHonest == ASSUME XferInv PROVE TransferHonest
<1> SUFFICES ASSUME xf.told = "ok" PROVE IF Upload THEN xf.stored = "whole" /\ xf.body = All ELSE xf.shown = All
  BY DEF TransferHonest
<1>1. CASE UpInv
  <2>1. xf.stored = "whole" /\ xf.wire = <<>> /\ xf.moved = xf.size /\ Upload
    BY <1>1 DEF UpInv, Acked
  <2>2. xf \in Transfer /\ Numbered(xf.body, 0) /\ xf.size = Len(xf.body) + Len(<<>>)
    BY <1>1, <2>1 DEF UpInv, Carried
  <2>3. xf.size = Len(xf.body)
    BY <2>2, XferTypes, EmptyFacts, SMT, SMTT(20)
  <2>4. xf.body = [i \in 1..xf.size |-> i]
    BY <2>2, <2>3, XferTypes, NumberedAll
  <2> QED
    BY <2>1, <2>4 DEF All
<1>2. CASE OutInv
  <2>1. Len(xf.shown) = xf.size /\ Numbered(xf.shown, 0) /\ xf \in Transfer /\ ~Upload
    BY <1>2 DEF OutInv, Passed, Counted
  <2>2. xf.shown = [i \in 1..xf.size |-> i]
    BY <2>1, XferTypes, NumberedAll
  <2> QED
    BY <2>1, <2>2 DEF All
<1> QED
  BY <1>1, <1>2 DEF XferInv

-----------------------------------------------------------------------------
(* The order of frames                                                      *)

LEMMA NothingBefore == ASSUME NEW s PROVE Before(<<>>, s) /\ Before(s, <<>>) /\ Rising(<<>>) /\ \A n : UpTo(<<>>, n)
  BY RangeEmpty, EmptyFacts DEF Before, UpTo, Rising

LEMMA RisingOne == ASSUME NEW n \in Nat PROVE Rising(<<n>>)
<1>1. DOMAIN <<n>> = 1..1
  BY OneFacts, SeqFacts
<1>2. \A i, j \in 1..1 : ~(i < j)
  BY SMT, SMTT(20)
<1> QED
  BY <1>1, <1>2 DEF Rising

(* A frame is read, and dropped or queued.                                  *)
LEMMA UpToNext == ASSUME NEW s \in Seq(Nat), NEW n \in Nat, UpTo(s, n) PROVE UpTo(s, n + 1) /\ \A m \in Range(s) : m < n + 1
  BY RangeNat, SMT, SMTT(20) DEF UpTo

LEMMA OrderedDropped ==
    ASSUME NEW a \in Seq(Nat), NEW b \in Seq(Nat), NEW p \in Seq(Nat), NEW c \in Seq(Nat), NEW n \in Nat, Ordered(a, b, p, c, n)
    PROVE Ordered(a, b, p, c, n + 1)
  BY UpToNext DEF Ordered

LEMMA OrderedRead ==
    ASSUME NEW a \in Seq(Nat), NEW b \in Seq(Nat), NEW p \in Seq(Nat), NEW c \in Seq(Nat), NEW n \in Nat, Ordered(a, b, p, c, n)
    PROVE Ordered(a, b, p, Append(c, n + 1), n + 1)
<1>1. n + 1 \in Nat /\ n + 1 <= n + 1
  BY SMT, SMTT(20)
<1>2. Range(Append(c, n + 1)) = Range(c) \cup {n + 1}
  BY <1>1, RangeAppend
<1>3. ASSUME NEW s \in Seq(Nat), UpTo(s, n), Before(s, c) PROVE Before(s, Append(c, n + 1))
  <2>1. \A m \in Range(s) : m < n + 1
    BY <1>3, UpToNext
  <2> QED
    BY <1>2, <1>3, <2>1 DEF Before
<1>4. UpTo(Append(c, n + 1), n + 1)
  BY <1>1, <1>2, UpToNext DEF Ordered, UpTo
<1>5. Rising(Append(c, n + 1))
  BY <1>1, RisingAppend, UpToNext DEF Ordered
<1>6. UpTo(a, n + 1) /\ UpTo(b, n + 1) /\ UpTo(p, n + 1)
  BY UpToNext DEF Ordered
<1> QED
  BY <1>3, <1>4, <1>5, <1>6 DEF Ordered

(* The message that waited is sent.                                         *)
LEMMA OrderedWaited == ASSUME NEW a, NEW p, NEW c, NEW n, Ordered(a, <<>>, p, c, n) PROVE Ordered(a, p, <<>>, c, n)
  BY NothingBefore DEF Ordered

(* The first frame in the channel is sent, or sent along, or waits.         *)
LEMMA HeadFacts ==
    ASSUME NEW c \in Seq(Nat), c # <<>>, Rising(c)
    PROVE /\ Head(c) \in Nat /\ Head(c) \in Range(c) /\ Range(<<Head(c)>>) = {Head(c)} /\ Rising(<<Head(c)>>)
          /\ Tail(c) \in Seq(Nat) /\ Rising(Tail(c)) /\ Range(Tail(c)) \subseteq Range(c)
          /\ \A m \in Range(Tail(c)) : Head(c) < m
<1>1. Head(c) \in Nat /\ Tail(c) \in Seq(Nat)
  BY TailFacts
<1>2. Range(<<Head(c)>>) = {Head(c)} /\ Rising(<<Head(c)>>)
  BY <1>1, RangeOne, RisingOne
<1>3. Head(c) \in Range(c) /\ Range(Tail(c)) \subseteq Range(c)
  BY RangeTail
<1>4. Rising(Tail(c)) /\ \A m \in Range(Tail(c)) : Head(c) < m
  BY RisingTail
<1> QED
  BY <1>1, <1>2, <1>3, <1>4

LEMMA TakenFrom ==
    ASSUME NEW c \in Seq(Nat), c # <<>>, Rising(c), NEW n, UpTo(c, n)
    PROVE /\ Before(<<Head(c)>>, Tail(c)) /\ UpTo(<<Head(c)>>, n) /\ UpTo(Tail(c), n)
          /\ \A s : Before(s, c) => Before(s, <<Head(c)>>) /\ Before(s, Tail(c))
<1>1. /\ Head(c) \in Range(c) /\ Range(<<Head(c)>>) = {Head(c)} /\ Range(Tail(c)) \subseteq Range(c)
      /\ \A m \in Range(Tail(c)) : Head(c) < m
  BY HeadFacts
<1>2. Before(<<Head(c)>>, Tail(c))
  BY <1>1 DEF Before
<1>3. UpTo(<<Head(c)>>, n) /\ UpTo(Tail(c), n)
  BY <1>1 DEF UpTo
<1>4. ASSUME NEW s, Before(s, c) PROVE Before(s, <<Head(c)>>) /\ Before(s, Tail(c))
  BY <1>1, <1>4 DEF Before
<1> QED
  BY <1>2, <1>3, <1>4

LEMMA OrderedTaken ==
    ASSUME NEW a \in Seq(Nat), NEW c \in Seq(Nat), NEW n \in Nat, c # <<>>, Ordered(a, <<>>, <<>>, c, n)
    PROVE Ordered(a, <<Head(c)>>, <<>>, Tail(c), n)
  BY HeadFacts, TakenFrom, NothingBefore DEF Ordered

LEMMA OrderedKept ==
    ASSUME NEW a \in Seq(Nat), NEW b \in Seq(Nat), NEW c \in Seq(Nat), NEW n \in Nat, c # <<>>, Ordered(a, b, <<>>, c, n)
    PROVE Ordered(a, b, <<Head(c)>>, Tail(c), n)
  BY HeadFacts, TakenFrom, NothingBefore DEF Ordered

LEMMA OrderedAlong ==
    ASSUME NEW a \in Seq(Nat), NEW b \in Seq(Nat), NEW c \in Seq(Nat), NEW n \in Nat, c # <<>>, Ordered(a, b, <<>>, c, n)
    PROVE Ordered(a, Append(b, Head(c)), <<>>, Tail(c), n)
<1>0. Rising(c) /\ UpTo(c, n) /\ Rising(b) /\ Before(b, c) /\ Before(a, b) /\ Before(a, c) /\ UpTo(b, n)
  BY DEF Ordered
<1>1. Range(Append(b, Head(c))) = Range(b) \cup {Head(c)}
  BY <1>0, HeadFacts, RangeAppend
<1>2. Rising(Append(b, Head(c)))
  BY <1>0, HeadFacts, RisingAppend DEF Before
<1>3. Before(a, Append(b, Head(c))) /\ Before(Append(b, Head(c)), Tail(c)) /\ UpTo(Append(b, Head(c)), n)
  <2>1. Head(c) \in Range(c) /\ Range(Tail(c)) \subseteq Range(c) /\ \A m \in Range(Tail(c)) : Head(c) < m
    BY <1>0, HeadFacts
  <2>2. Before(a, Append(b, Head(c)))
    BY <1>0, <1>1, <2>1 DEF Before
  <2>3. Before(Append(b, Head(c)), Tail(c))
    BY <1>0, <1>1, <2>1 DEF Before
  <2>4. UpTo(Append(b, Head(c)), n)
    BY <1>0, <1>1, <2>1 DEF UpTo
  <2> QED
    BY <2>2, <2>3, <2>4
<1> QED
  BY <1>0, <1>2, <1>3, HeadFacts, TakenFrom, NothingBefore DEF Ordered

(* What was sent is applied, or lost.                                       *)
LEMMA OrderedLost == ASSUME NEW a, NEW b, NEW p, NEW c, NEW n, Ordered(a, b, p, c, n) PROVE Ordered(a, <<>>, p, c, n)
  BY NothingBefore DEF Ordered

LEMMA OrderedApplied ==
    ASSUME NEW a \in Seq(Nat), NEW b \in Seq(Nat), NEW p \in Seq(Nat), NEW c \in Seq(Nat), NEW n \in Nat, Ordered(a, b, p, c, n)
    PROVE Ordered(a \o b, <<>>, p, c, n)
<1>1. Range(a \o b) = Range(a) \cup Range(b)
  BY RangeJoin
<1>2. Rising(a \o b)
  BY RisingJoin DEF Ordered
<1>3. Before(a \o b, p) /\ Before(a \o b, c) /\ UpTo(a \o b, n)
  BY <1>1 DEF Ordered, Before, UpTo
<1> QED
  BY <1>2, <1>3, NothingBefore DEF Ordered

-----------------------------------------------------------------------------
(* The numbers of chunks                                                    *)

LEMMA NoExit ==
    ASSUME NEW s \in Seq(Nat), NEW n \in Nat, Numbered(s, n)
    PROVE Exit \notin Range(s) /\ \A p : Ended(s, n, p)
<1>1. \A i \in DOMAIN s : s[i] # Exit
  BY SeqFacts, SMT, SMTT(20) DEF Numbered, Exit
<1> QED
  BY <1>1 DEF Range, Ended, Numbered

LEMMA StillNumbered == ASSUME NEW s, NEW n, NEW p, Ended(s, n, p), Exit \notin Range(s) PROVE Numbered(s, n)
  BY DEF Ended, Numbered, Range

(* The exit is queued behind the last chunk.                                *)
LEMMA ExitQueued ==
    ASSUME NEW s \in Seq(Nat), NEW n \in Nat, NEW p \in Nat, Numbered(s, n), p = n + Len(s)
    PROVE Append(s, Exit) \in Seq(Nat) /\ Ended(Append(s, Exit), n, p)
<1> DEFINE t == Append(s, 0)
<1>1. t \in Seq(Nat) /\ Len(t) = Len(s) + 1 /\ t[Len(s) + 1] = 0 /\ (\A i \in 1..Len(s) : t[i] = s[i]) /\ Len(s) \in Nat
  BY AppendFacts, SeqFacts, SMT, SMTT(20)
<1>2. \A i \in 1..Len(s) : s[i] = n + i
  BY SeqFacts DEF Numbered
<1> HIDE DEF t
<1>3. ASSUME NEW i \in 1..(Len(s) + 1) PROVE IF t[i] = 0 THEN i = Len(t) /\ n + i = p + 1 ELSE t[i] = n + i
  <2>1. CASE i = Len(s) + 1
    BY <1>1, <2>1, SMT, SMTT(20)
  <2>2. CASE i \in 1..Len(s)
    <3>1. t[i] = n + i
      BY <1>1, <1>2, <2>2
    <3>2. n + i # 0
      BY <1>1, <2>2, SMT, SMTT(20)
    <3> QED
      BY <3>1, <3>2
  <2> QED
    BY <1>1, <2>1, <2>2, SMT, SMTT(20)
<1> QED
  BY <1>1, <1>3, SeqFacts DEF Ended, Exit, t

(* The first that is queued is shown.                                       *)
LEMMA HeadShown ==
    ASSUME NEW s \in Seq(Nat), NEW t \in Seq(Nat), NEW n \in Nat, NEW p \in Nat, t # <<>>,
           Numbered(s, n), Ended(t, n + Len(s), p)
    PROVE /\ Append(s, Head(t)) \in Seq(Nat) /\ Tail(t) \in Seq(Nat) /\ Len(Append(s, Head(t))) = Len(s) + 1
          /\ Ended(Append(s, Head(t)), n, p) /\ Ended(Tail(t), n + Len(Append(s, Head(t))), p)
          /\ Len(Append(s, Head(t))) + Len(Tail(t)) = Len(s) + Len(t)
<1> DEFINE u == Append(s, Head(t))
           v == Tail(t)
<1>1. /\ v \in Seq(Nat) /\ Len(t) >= 1 /\ Len(v) = Len(t) - 1 /\ Head(t) = t[1] /\ Head(t) \in Nat
      /\ \A i \in 1..(Len(t) - 1) : v[i] = t[i + 1]
  BY TailFacts
<1>2. /\ u \in Seq(Nat) /\ Len(u) = Len(s) + 1 /\ (\A i \in 1..Len(s) : u[i] = s[i]) /\ u[Len(s) + 1] = t[1]
  BY <1>1, AppendFacts
<1>3. /\ Len(s) \in Nat /\ Len(t) \in Nat /\ (\A i \in 1..Len(s) : s[i] = n + i)
      /\ \A i \in 1..Len(t) : IF t[i] = 0 THEN i = Len(t) /\ n + Len(s) + i = p + 1 ELSE t[i] = n + Len(s) + i
  BY SeqFacts DEF Numbered, Ended, Exit
<1> HIDE DEF u, v
<1>4. ASSUME NEW i \in 1..(Len(s) + 1) PROVE IF u[i] = 0 THEN i = Len(u) /\ n + i = p + 1 ELSE u[i] = n + i
  <2>1. CASE i = Len(s) + 1
    <3>1. 1 \in 1..Len(t) /\ n + Len(s) + 1 = n + i
      BY <1>1, <1>3, <2>1, SMT, SMTT(20)
    <3>2. IF t[1] = 0 THEN 1 = Len(t) /\ n + i = p + 1 ELSE t[1] = n + i
      BY <1>3, <3>1
    <3> QED
      BY <1>2, <2>1, <3>2
  <2>2. CASE i \in 1..Len(s)
    <3>1. u[i] = n + i
      BY <1>2, <1>3, <2>2
    <3>2. n + i # 0
      BY <1>3, <2>2, SMT, SMTT(20)
    <3> QED
      BY <3>1, <3>2
  <2> QED
    BY <1>3, <2>1, <2>2, SMT, SMTT(20)
<1>5. ASSUME NEW i \in 1..Len(v) PROVE IF v[i] = 0 THEN i = Len(v) /\ n + Len(u) + i = p + 1 ELSE v[i] = n + Len(u) + i
  <2>1. i \in 1..(Len(t) - 1) /\ i + 1 \in 1..Len(t) /\ n + Len(s) + (i + 1) = n + Len(u) + i /\ (i + 1 = Len(t) => i = Len(v))
    BY <1>1, <1>2, <1>3, SMT, SMTT(20)
  <2>2. v[i] = t[i + 1]
    BY <1>1, <2>1
  <2>3. IF t[i + 1] = 0 THEN i + 1 = Len(t) /\ n + Len(s) + (i + 1) = p + 1 ELSE t[i + 1] = n + Len(s) + (i + 1)
    BY <1>3, <2>1
  <2> QED
    BY <2>1, <2>2, <2>3
<1>6. Ended(u, n, p)
  BY <1>2, <1>4, SeqFacts DEF Ended, Exit
<1>7. Ended(v, n + Len(u), p)
  BY <1>1, <1>5, SeqFacts DEF Ended, Exit
<1>8. Len(u) + Len(v) = Len(s) + Len(t)
  BY <1>1, <1>2, <1>3, SMT, SMTT(20)
<1> QED
  BY <1>1, <1>2, <1>6, <1>7, <1>8 DEF u, v

-----------------------------------------------------------------------------
(* The terminal (PtyInv)                                                    *)

LEMMA PtyWords ==
    /\ {"none", "open", "over"} \subseteq Lives /\ {"off", "idle", "coalesce", "call"} \subseteq Senders
    /\ {"none", "runs", "killed", "exited", "gone"} \subseteq Guests /\ {"none", "open", "ended", "broken", "closed"} \subseteq Streams
    /\ {TRUE, FALSE} \subseteq Flag
  BY DEF Lives, Senders, Guests, Streams, Flag

LEMMA PtyTypes ==
    ASSUME pty \in Session
    PROVE /\ pty.sent \in Nat /\ pty.printed \in Nat /\ pty.taken \subseteq Nat /\ pty.called \subseteq Nat
          /\ pty.ch \in Seq(Nat) /\ pty.pending \in Seq(Nat) /\ pty.buf \in Seq(Nat)
          /\ pty.applied \in Seq(Nat) /\ pty.events \in Seq(Nat) /\ pty.shown \in Seq(Nat)
<1>1. pty.sent \in Nat /\ pty.printed \in Nat /\ pty.taken \in SUBSET Nat /\ pty.called \in SUBSET Nat
  BY DEF Session
<1>2. pty.ch \in Seq(Nat) /\ pty.pending \in Seq(Nat) /\ pty.buf \in Seq(Nat)
  BY DEF Session
<1>3. pty.applied \in Seq(Nat) /\ pty.events \in Seq(Nat) /\ pty.shown \in Seq(Nat)
  BY DEF Session
<1> QED
  BY <1>1, <1>2, <1>3

LEMMA OrderSame ==
    ASSUME OrderInv, pty'.applied = pty.applied, pty'.buf = pty.buf, pty'.pending = pty.pending, pty'.ch = pty.ch,
           pty'.sent = pty.sent
    PROVE OrderInv'
  BY DEF OrderInv

LEMMA HeldSame ==
    ASSUME FullInv, HeldInv, pty'.taken = pty.taken, pty'.called = pty.called, pty'.buf = pty.buf,
           pty'.pending = pty.pending, pty'.ch = pty.ch
    PROVE FullInv' /\ HeldInv'
  BY DEF FullInv, HeldInv

LEMMA IdleSame ==
    ASSUME IdleInv, pty'.sender = pty.sender, pty'.buf = pty.buf, pty'.pending = pty.pending, pty'.ch = pty.ch,
           pty'.reader = pty.reader, pty'.life = pty.life
    PROVE IdleInv'
  BY DEF IdleInv

LEMMA OutputSame ==
    ASSUME OutputInv, mix' = mix, pty'.life = pty.life, pty'.shown = pty.shown, pty'.events = pty.events,
           pty'.stream = pty.stream, pty'.guest = pty.guest, pty'.printed = pty.printed, pty'.pump = pty.pump
    PROVE OutputInv'
  BY DEF OutputInv

LEMMA ClientLeavesKept ==
    ASSUME PtyInv, mix.before \in Nat, mix' = mix, ClientLeaves
    PROVE PtyInv'
<1>1. pty \in Session /\ pty' = [pty EXCEPT !.client = FALSE]
  BY DEF PtyInv, ClientLeaves
<1>3. pty' \in Session
  BY <1>1, PtyWords DEF Session
<1>4. /\ pty'.life = pty.life /\ pty'.client = FALSE /\ pty'.open = pty.open /\ pty'.cancelled = pty.cancelled
      /\ pty'.reader = pty.reader /\ pty'.sender = pty.sender /\ pty'.pump = pty.pump /\ pty'.keep = pty.keep
      /\ pty'.sent = pty.sent /\ pty'.ch = pty.ch /\ pty'.pending = pty.pending /\ pty'.buf = pty.buf
      /\ pty'.taken = pty.taken /\ pty'.called = pty.called /\ pty'.applied = pty.applied /\ pty'.guest = pty.guest
      /\ pty'.printed = pty.printed /\ pty'.events = pty.events /\ pty'.stream = pty.stream
      /\ pty'.shown = pty.shown
  BY <1>1 DEF Session
<1>5. OrderInv'
  BY <1>4, OrderSame DEF PtyInv
<1>6. FullInv' /\ HeldInv'
  BY <1>4, HeldSame DEF PtyInv, QueueInv
<1>7. IdleInv'
  BY <1>4, IdleSame DEF PtyInv, QueueInv
<1>8. OutputInv'
  BY <1>4, OutputSame DEF PtyInv
<1> QED
  BY <1>3, <1>5, <1>6, <1>7, <1>8 DEF PtyInv, QueueInv

LEMMA KeepEndsKept ==
    ASSUME PtyInv, mix.before \in Nat, mix' = mix, KeepEnds
    PROVE PtyInv'
<1>1. pty \in Session /\ pty' = [pty EXCEPT !.keep = FALSE]
  BY DEF PtyInv, KeepEnds
<1>3. pty' \in Session
  BY <1>1, PtyWords DEF Session
<1>4. /\ pty'.life = pty.life /\ pty'.client = pty.client /\ pty'.open = pty.open /\ pty'.cancelled = pty.cancelled
      /\ pty'.reader = pty.reader /\ pty'.sender = pty.sender /\ pty'.pump = pty.pump /\ pty'.keep = FALSE
      /\ pty'.sent = pty.sent /\ pty'.ch = pty.ch /\ pty'.pending = pty.pending /\ pty'.buf = pty.buf
      /\ pty'.taken = pty.taken /\ pty'.called = pty.called /\ pty'.applied = pty.applied /\ pty'.guest = pty.guest
      /\ pty'.printed = pty.printed /\ pty'.events = pty.events /\ pty'.stream = pty.stream
      /\ pty'.shown = pty.shown
  BY <1>1 DEF Session
<1>5. OrderInv'
  BY <1>4, OrderSame DEF PtyInv
<1>6. FullInv' /\ HeldInv'
  BY <1>4, HeldSame DEF PtyInv, QueueInv
<1>7. IdleInv'
  BY <1>4, IdleSame DEF PtyInv, QueueInv
<1>8. OutputInv'
  BY <1>4, OutputSame DEF PtyInv
<1> QED
  BY <1>3, <1>5, <1>6, <1>7, <1>8 DEF PtyInv, QueueInv

LEMMA CloserKept ==
    ASSUME PtyInv, mix.before \in Nat, mix' = mix, Closer
    PROVE PtyInv'
<1>1. pty \in Session /\ pty' = [pty EXCEPT !.open = FALSE]
  BY DEF PtyInv, Closer
<1>3. pty' \in Session
  BY <1>1, PtyWords DEF Session
<1>4. /\ pty'.life = pty.life /\ pty'.client = pty.client /\ pty'.open = FALSE /\ pty'.cancelled = pty.cancelled
      /\ pty'.reader = pty.reader /\ pty'.sender = pty.sender /\ pty'.pump = pty.pump /\ pty'.keep = pty.keep
      /\ pty'.sent = pty.sent /\ pty'.ch = pty.ch /\ pty'.pending = pty.pending /\ pty'.buf = pty.buf
      /\ pty'.taken = pty.taken /\ pty'.called = pty.called /\ pty'.applied = pty.applied /\ pty'.guest = pty.guest
      /\ pty'.printed = pty.printed /\ pty'.events = pty.events /\ pty'.stream = pty.stream
      /\ pty'.shown = pty.shown
  BY <1>1 DEF Session
<1>5. OrderInv'
  BY <1>4, OrderSame DEF PtyInv
<1>6. FullInv' /\ HeldInv'
  BY <1>4, HeldSame DEF PtyInv, QueueInv
<1>7. IdleInv'
  BY <1>4, IdleSame DEF PtyInv, QueueInv
<1>8. OutputInv'
  BY <1>4, OutputSame DEF PtyInv
<1> QED
  BY <1>3, <1>5, <1>6, <1>7, <1>8 DEF PtyInv, QueueInv

LEMMA ReaderEndsKept ==
    ASSUME PtyInv, mix.before \in Nat, mix' = mix, ReaderEnds
    PROVE PtyInv'
<1>1. pty \in Session /\ pty' = [pty EXCEPT !.reader = FALSE, !.cancelled = TRUE]
  BY DEF PtyInv, ReaderEnds
<1>3. pty' \in Session
  BY <1>1, PtyWords DEF Session
<1>4. /\ pty'.life = pty.life /\ pty'.client = pty.client /\ pty'.open = pty.open /\ pty'.cancelled = TRUE
      /\ pty'.reader = FALSE /\ pty'.sender = pty.sender /\ pty'.pump = pty.pump /\ pty'.keep = pty.keep
      /\ pty'.sent = pty.sent /\ pty'.ch = pty.ch /\ pty'.pending = pty.pending /\ pty'.buf = pty.buf
      /\ pty'.taken = pty.taken /\ pty'.called = pty.called /\ pty'.applied = pty.applied /\ pty'.guest = pty.guest
      /\ pty'.printed = pty.printed /\ pty'.events = pty.events /\ pty'.stream = pty.stream
      /\ pty'.shown = pty.shown
  BY <1>1 DEF Session
<1>5. OrderInv'
  BY <1>4, OrderSame DEF PtyInv
<1>6. FullInv' /\ HeldInv'
  BY <1>4, HeldSame DEF PtyInv, QueueInv
<1>7. IdleInv'
  BY <1>4 DEF PtyInv, QueueInv, IdleInv
<1>8. OutputInv'
  BY <1>4, OutputSame DEF PtyInv
<1> QED
  BY <1>3, <1>5, <1>6, <1>7, <1>8 DEF PtyInv, QueueInv

LEMMA SenderEndsKept ==
    ASSUME PtyInv, mix.before \in Nat, mix' = mix, SenderEnds
    PROVE PtyInv'
<1>1. pty \in Session /\ pty' = [pty EXCEPT !.sender = "off", !.cancelled = TRUE]
  BY DEF PtyInv, SenderEnds
<1>3. pty' \in Session
  BY <1>1, PtyWords DEF Session
<1>4. /\ pty'.life = pty.life /\ pty'.client = pty.client /\ pty'.open = pty.open /\ pty'.cancelled = TRUE
      /\ pty'.reader = pty.reader /\ pty'.sender = "off" /\ pty'.pump = pty.pump /\ pty'.keep = pty.keep
      /\ pty'.sent = pty.sent /\ pty'.ch = pty.ch /\ pty'.pending = pty.pending /\ pty'.buf = pty.buf
      /\ pty'.taken = pty.taken /\ pty'.called = pty.called /\ pty'.applied = pty.applied /\ pty'.guest = pty.guest
      /\ pty'.printed = pty.printed /\ pty'.events = pty.events /\ pty'.stream = pty.stream
      /\ pty'.shown = pty.shown
  BY <1>1 DEF Session
<1>5. OrderInv'
  BY <1>4, OrderSame DEF PtyInv
<1>6. FullInv' /\ HeldInv'
  BY <1>4, HeldSame DEF PtyInv, QueueInv
<1>7. IdleInv'
  <2>1. pty.pending = <<>> /\ pty.ch = <<>> /\ pty.reader = FALSE /\ pty.sender = "idle"
    <3>1. pty.pending = <<>> /\ pty.ch = <<>> /\ ~pty.reader /\ pty.sender = "idle"
      BY DEF SenderEnds
    <3>2. pty.reader \in BOOLEAN
      BY <1>1 DEF Session, Flag
    <3> QED
      BY <3>1, <3>2
  <2> QED
    BY <1>4, <2>1 DEF PtyInv, QueueInv, IdleInv
<1>8. OutputInv'
  BY <1>4, OutputSame DEF PtyInv
<1> QED
  BY <1>3, <1>5, <1>6, <1>7, <1>8 DEF PtyInv, QueueInv

LEMMA SessionOverKept ==
    ASSUME PtyInv, mix.before \in Nat, mix' = mix, SessionOver
    PROVE PtyInv'
<1>1. pty \in Session /\ pty' = [pty EXCEPT !.life = "over"]
  BY DEF PtyInv, SessionOver
<1>3. pty' \in Session
  BY <1>1, PtyWords DEF Session
<1>4. /\ pty'.life = "over" /\ pty'.client = pty.client /\ pty'.open = pty.open /\ pty'.cancelled = pty.cancelled
      /\ pty'.reader = pty.reader /\ pty'.sender = pty.sender /\ pty'.pump = pty.pump /\ pty'.keep = pty.keep
      /\ pty'.sent = pty.sent /\ pty'.ch = pty.ch /\ pty'.pending = pty.pending /\ pty'.buf = pty.buf
      /\ pty'.taken = pty.taken /\ pty'.called = pty.called /\ pty'.applied = pty.applied /\ pty'.guest = pty.guest
      /\ pty'.printed = pty.printed /\ pty'.events = pty.events /\ pty'.stream = pty.stream
      /\ pty'.shown = pty.shown
  BY <1>1 DEF Session
<1>5. OrderInv'
  BY <1>4, OrderSame DEF PtyInv
<1>6. FullInv' /\ HeldInv'
  BY <1>4, HeldSame DEF PtyInv, QueueInv
<1>7. IdleInv'
  <2>1. pty.sender = "off"
    BY DEF SessionOver
  <2> QED
    BY <1>4, <2>1 DEF PtyInv, QueueInv, IdleInv
<1>8. OutputInv'
  BY <1>4 DEF PtyInv, OutputInv
<1> QED
  BY <1>3, <1>5, <1>6, <1>7, <1>8 DEF PtyInv, QueueInv

LEMMA AttachFailsKept ==
    ASSUME PtyInv, mix.before \in Nat, mix' = mix, pty.life = "none", AttachFails
    PROVE PtyInv'
<1>1. pty \in Session /\ pty' = [pty EXCEPT !.life = "over", !.open = FALSE]
  BY DEF PtyInv, AttachFails
<1>3. pty' \in Session
  BY <1>1, PtyWords DEF Session
<1>4. /\ pty'.life = "over" /\ pty'.client = pty.client /\ pty'.open = FALSE /\ pty'.cancelled = pty.cancelled
      /\ pty'.reader = pty.reader /\ pty'.sender = pty.sender /\ pty'.pump = pty.pump /\ pty'.keep = pty.keep
      /\ pty'.sent = pty.sent /\ pty'.ch = pty.ch /\ pty'.pending = pty.pending /\ pty'.buf = pty.buf
      /\ pty'.taken = pty.taken /\ pty'.called = pty.called /\ pty'.applied = pty.applied /\ pty'.guest = pty.guest
      /\ pty'.printed = pty.printed /\ pty'.events = pty.events /\ pty'.stream = pty.stream
      /\ pty'.shown = pty.shown
  BY <1>1 DEF Session
<1>5. OrderInv'
  BY <1>4, OrderSame DEF PtyInv
<1>6. FullInv' /\ HeldInv'
  BY <1>4, HeldSame DEF PtyInv, QueueInv
<1>7. IdleInv'
  <2>1. pty.sender = "off"
    BY DEF PtyInv, QueueInv, IdleInv
  <2> QED
    BY <1>4, <2>1 DEF PtyInv, QueueInv, IdleInv
<1>8. OutputInv'
  BY <1>4 DEF PtyInv, OutputInv
<1> QED
  BY <1>3, <1>5, <1>6, <1>7, <1>8 DEF PtyInv, QueueInv

LEMMA PumpEndsKept ==
    ASSUME PtyInv, mix.before \in Nat, mix' = mix, PumpEnds
    PROVE PtyInv'
<1>1. pty \in Session /\ pty' = [pty EXCEPT !.pump = FALSE, !.cancelled = TRUE, !.stream = "closed"]
  BY DEF PtyInv, PumpEnds
<1>3. pty' \in Session
  BY <1>1, PtyWords DEF Session
<1>4. /\ pty'.life = pty.life /\ pty'.client = pty.client /\ pty'.open = pty.open /\ pty'.cancelled = TRUE
      /\ pty'.reader = pty.reader /\ pty'.sender = pty.sender /\ pty'.pump = FALSE /\ pty'.keep = pty.keep
      /\ pty'.sent = pty.sent /\ pty'.ch = pty.ch /\ pty'.pending = pty.pending /\ pty'.buf = pty.buf
      /\ pty'.taken = pty.taken /\ pty'.called = pty.called /\ pty'.applied = pty.applied /\ pty'.guest = pty.guest
      /\ pty'.printed = pty.printed /\ pty'.events = pty.events /\ pty'.stream = "closed" /\ pty'.shown = pty.shown
  BY <1>1 DEF Session
<1>5. OrderInv'
  BY <1>4, OrderSame DEF PtyInv
<1>6. FullInv' /\ HeldInv'
  BY <1>4, HeldSame DEF PtyInv, QueueInv
<1>7. IdleInv'
  BY <1>4, IdleSame DEF PtyInv, QueueInv
<1>8. OutputInv'
  <2>1. pty.life # "none"
    BY DEF PumpEnds, Running
  <2> QED
    BY <1>4, <2>1 DEF PtyInv, OutputInv
<1> QED
  BY <1>3, <1>5, <1>6, <1>7, <1>8 DEF PtyInv, QueueInv

LEMMA Sizes == InputBuffer \in Nat /\ EventBuffer \in Nat
  BY TerminalAssumption

LEMMA NoneFacts == Range(<<>>) = {} /\ Len(<<>>) = 0 /\ Len(<<>>) <= 1 /\ <<>> \in Seq(Nat)
<1>1. 0 <= 1
  BY SMT, SMTT(20)
<1> QED
  BY <1>1, RangeEmpty, EmptyFacts

(* As long as the process has not exited, chunks are numbered through.      *)
LEMMA LiveOutput ==
    ASSUME PtyInv, mix.before \in Nat, pty.guest # "exited"
    PROVE /\ mix.before \in Nat /\ Len(pty.shown) \in Nat /\ Len(pty.events) \in Nat /\ mix.before + Len(pty.shown) \in Nat
          /\ pty.shown \in Seq(Nat) /\ pty.events \in Seq(Nat)
          /\ Numbered(pty.shown, mix.before) /\ Numbered(pty.events, mix.before + Len(pty.shown))
<1>1. mix.before \in Nat /\ pty.shown \in Seq(Nat) /\ pty.events \in Seq(Nat)
  BY PtyTypes DEF PtyInv
<1>2. Len(pty.shown) \in Nat /\ Len(pty.events) \in Nat
  BY <1>1, SeqFacts
<1>3. mix.before + Len(pty.shown) \in Nat
  BY <1>1, <1>2, SMT, SMTT(20)
<1>4. Numbered(pty.shown, mix.before)
  BY StillNumbered DEF PtyInv, OutputInv
<1>5. Numbered(pty.events, mix.before + Len(pty.shown))
  BY StillNumbered DEF PtyInv, OutputInv
<1> QED
  BY <1>1, <1>2, <1>3, <1>4, <1>5

(* Then whatever else changes, what was shown and is queued is fine.        *)
LEMMA LiveKept ==
    ASSUME PtyInv, mix.before \in Nat, mix' = mix, pty.guest # "exited",
           pty'.shown = pty.shown, pty'.events = pty.events, pty'.life # "none",
           pty'.stream = "open" => /\ pty'.guest \in {"runs", "killed"}
                                   /\ pty'.printed = mix.before + Len(pty.shown) + Len(pty.events)
    PROVE OutputInv'
<1>1. Exit \notin Range(pty.shown) /\ \A p : Ended(pty.shown, mix.before, p)
  BY LiveOutput, NoExit
<1>2. Exit \notin Range(pty.events) /\ \A p : Ended(pty.events, mix.before + Len(pty.shown), p)
  BY LiveOutput, NoExit
<1>3. Len(pty.events) <= EventBuffer
  BY DEF PtyInv, OutputInv
<1> QED
  BY <1>1, <1>2, <1>3 DEF OutputInv

LEMMA runPtyLoopKept ==
    ASSUME PtyInv, mix.before \in Nat, mix' = mix, pty.life = "none", runPtyLoop(mix.before > 0)
    PROVE PtyInv'
<1> DEFINE n == IF mix.before > 0 THEN mix.before ELSE 0
<1>1. pty \in Session /\ pty' = [pty EXCEPT !.life = "open", !.reader = TRUE, !.sender = "idle", !.pump = TRUE, !.keep = TRUE, !.guest = "runs", !.stream = "open", !.printed = n]
  BY DEF PtyInv, runPtyLoop
<1>2. n = mix.before /\ n \in Nat
  BY SMT, SMTT(20)
<1> HIDE DEF n
<1>3. pty' \in Session
  BY <1>1, PtyWords, <1>2 DEF Session
<1>4. /\ pty'.life = "open" /\ pty'.client = pty.client /\ pty'.open = pty.open /\ pty'.cancelled = pty.cancelled
      /\ pty'.reader = TRUE /\ pty'.sender = "idle" /\ pty'.pump = TRUE /\ pty'.keep = TRUE /\ pty'.sent = pty.sent
      /\ pty'.ch = pty.ch /\ pty'.pending = pty.pending /\ pty'.buf = pty.buf /\ pty'.taken = pty.taken
      /\ pty'.called = pty.called /\ pty'.applied = pty.applied /\ pty'.guest = "runs" /\ pty'.printed = n
      /\ pty'.events = pty.events /\ pty'.stream = "open" /\ pty'.shown = pty.shown
  BY <1>1 DEF Session
<1>5. OrderInv'
  BY <1>4, OrderSame DEF PtyInv
<1>6. FullInv' /\ HeldInv'
  BY <1>4, HeldSame DEF PtyInv, QueueInv
<1>7. IdleInv'
  <2>1. pty.buf = <<>>
    BY DEF PtyInv, QueueInv, IdleInv
  <2> QED
    BY <1>4, <2>1 DEF IdleInv
<1>8. OutputInv'
  <2>1. pty.shown = <<>> /\ pty.events = <<>>
    BY DEF PtyInv, OutputInv
  <2>2. Ended(<<>>, mix.before, n) /\ Ended(<<>>, mix.before + Len(<<>>), n)
    BY EmptyFacts DEF Ended
  <2>3. n = mix.before + Len(<<>>) + Len(<<>>) /\ Len(<<>>) <= EventBuffer
    BY <1>2, Sizes, EmptyFacts, SMT, SMTT(20)
  <2> QED
    BY <1>4, <2>1, <2>2, <2>3, NoneFacts DEF OutputInv
<1> QED
  BY <1>3, <1>5, <1>6, <1>7, <1>8 DEF PtyInv, QueueInv

LEMMA FrameDropped ==
    ASSUME PtyInv, mix.before \in Nat, mix' = mix, pty' = [pty EXCEPT !.sent = pty.sent + 1, !.ch = pty.ch, !.taken = pty.taken]
    PROVE PtyInv'
<1>1. pty \in Session /\ pty' = [pty EXCEPT !.sent = pty.sent + 1, !.ch = pty.ch, !.taken = pty.taken]
  BY DEF PtyInv
<1>2. pty.sent + 1 \in Nat /\ pty.ch \in Seq(Nat) /\ pty.taken \in SUBSET Nat
  BY <1>1, PtyTypes, SMT, SMTT(20)
<1>9. Ordered(pty.applied, pty.buf, pty.pending, pty.ch, pty.sent + 1)
  BY <1>1, PtyTypes, OrderedDropped DEF PtyInv, OrderInv
<1>3. pty' \in Session
  BY <1>1, PtyWords, <1>2 DEF Session
<1>4. /\ pty'.life = pty.life /\ pty'.client = pty.client /\ pty'.open = pty.open /\ pty'.cancelled = pty.cancelled
      /\ pty'.reader = pty.reader /\ pty'.sender = pty.sender /\ pty'.pump = pty.pump /\ pty'.keep = pty.keep
      /\ pty'.sent = pty.sent + 1 /\ pty'.ch = pty.ch /\ pty'.pending = pty.pending /\ pty'.buf = pty.buf
      /\ pty'.taken = pty.taken /\ pty'.called = pty.called /\ pty'.applied = pty.applied /\ pty'.guest = pty.guest
      /\ pty'.printed = pty.printed /\ pty'.events = pty.events /\ pty'.stream = pty.stream
      /\ pty'.shown = pty.shown
  BY <1>1 DEF Session
<1>5. OrderInv'
  BY <1>4, <1>9 DEF OrderInv
<1>6. FullInv' /\ HeldInv'
  BY <1>4, HeldSame DEF PtyInv, QueueInv
<1>7. IdleInv'
  BY <1>4, IdleSame DEF PtyInv, QueueInv
<1>8. OutputInv'
  BY <1>4, OutputSame DEF PtyInv
<1> QED
  BY <1>3, <1>5, <1>6, <1>7, <1>8 DEF PtyInv, QueueInv

LEMMA FrameQueued ==
    ASSUME PtyInv, mix.before \in Nat, mix' = mix, pty.sender # "off", pty.life = "open", Len(pty.ch) < InputBuffer,
           pty' = [pty EXCEPT !.sent = pty.sent + 1, !.ch = Append(pty.ch, pty.sent + 1), !.taken = pty.taken \cup {pty.sent + 1}]
    PROVE PtyInv'
<1> DEFINE c == Append(pty.ch, pty.sent + 1)
           t == pty.taken \cup {pty.sent + 1}
<1>1. pty \in Session /\ pty' = [pty EXCEPT !.sent = pty.sent + 1, !.ch = c, !.taken = t]
  BY DEF PtyInv
<1>2. /\ pty.sent + 1 \in Nat /\ c \in Seq(Nat) /\ t \in SUBSET Nat
      /\ Len(c) <= InputBuffer /\ Range(c) = Range(pty.ch) \cup {pty.sent + 1}
  <2>1. pty.sent \in Nat /\ pty.ch \in Seq(Nat) /\ Len(pty.ch) \in Nat /\ pty.taken \subseteq Nat
    BY <1>1, PtyTypes, SeqFacts
  <2>2. pty.sent + 1 \in Nat
    BY <2>1, SMT, SMTT(20)
  <2>3. c \in Seq(Nat) /\ Len(c) = Len(pty.ch) + 1 /\ Range(c) = Range(pty.ch) \cup {pty.sent + 1}
    BY <2>1, <2>2, AppendFacts, RangeAppend
  <2>4. Len(pty.ch) + 1 <= InputBuffer
    BY <2>1, Sizes, SMT, SMTT(20)
  <2> QED
    BY <2>1, <2>2, <2>3, <2>4
<1>9. Ordered(pty.applied, pty.buf, pty.pending, c, pty.sent + 1)
  BY <1>1, PtyTypes, OrderedRead DEF PtyInv, OrderInv
<1> HIDE DEF c, t
<1>3. pty' \in Session
  BY <1>1, PtyWords, <1>2 DEF Session
<1>4. /\ pty'.life = pty.life /\ pty'.client = pty.client /\ pty'.open = pty.open /\ pty'.cancelled = pty.cancelled
      /\ pty'.reader = pty.reader /\ pty'.sender = pty.sender /\ pty'.pump = pty.pump /\ pty'.keep = pty.keep
      /\ pty'.sent = pty.sent + 1 /\ pty'.ch = c /\ pty'.pending = pty.pending /\ pty'.buf = pty.buf
      /\ pty'.taken = t /\ pty'.called = pty.called /\ pty'.applied = pty.applied /\ pty'.guest = pty.guest
      /\ pty'.printed = pty.printed /\ pty'.events = pty.events /\ pty'.stream = pty.stream
      /\ pty'.shown = pty.shown
  BY <1>1 DEF Session
<1>5. OrderInv'
  BY <1>4, <1>9 DEF OrderInv
<1>6. FullInv' /\ HeldInv'
  <2>1. FullInv'
    BY <1>2, <1>4 DEF PtyInv, QueueInv, FullInv
  <2>2. HeldInv'
    BY <1>2, <1>4 DEF PtyInv, QueueInv, HeldInv, t
  <2> QED
    BY <2>1, <2>2
<1>7. IdleInv'
  BY <1>4 DEF PtyInv, QueueInv, IdleInv
<1>8. OutputInv'
  BY <1>4, OutputSame DEF PtyInv
<1> QED
  BY <1>3, <1>5, <1>6, <1>7, <1>8 DEF PtyInv, QueueInv

LEMMA ReadFrameKept ==
    ASSUME PtyInv, mix.before \in Nat, mix' = mix, ReadFrame
    PROVE PtyInv'
<1>1. pty.life = "open" /\ pty.sender # "off"
  <2>1. pty.life = "open" /\ pty.reader
    BY DEF ReadFrame, Running
  <2> QED
    BY <2>1 DEF PtyInv, QueueInv, IdleInv
<1>2. CASE Frame(pty.sent + 1) # "junk" /\ Len(pty.ch) < InputBuffer
  BY <1>1, <1>2, FrameQueued DEF ReadFrame
<1>3. CASE ~(Frame(pty.sent + 1) # "junk" /\ Len(pty.ch) < InputBuffer)
  BY <1>3, FrameDropped DEF ReadFrame
<1> QED
  BY <1>2, <1>3

LEMMA JoinNone == ASSUME NEW s \in Seq(Nat) PROVE <<>> \o s = s
  BY SMT, SMTT(20)

LEMMA WaitingTaken ==
    ASSUME PtyInv, mix.before \in Nat, mix' = mix, NEW x \in {"coalesce", "call"}, pty.life = "open", pty.sender = "idle",
           pty' = [pty EXCEPT !.buf = pty.buf \o pty.pending, !.pending = <<>>, !.sender = x]
    PROVE PtyInv'
<1> DEFINE b == pty.buf \o pty.pending
<1>1. pty \in Session /\ pty' = [pty EXCEPT !.buf = b, !.pending = <<>>, !.sender = x]
  BY DEF PtyInv
<1>2. b = pty.pending /\ pty.buf = <<>> /\ b \in Seq(Nat) /\ x \in Senders /\ <<>> \in Seq(Nat)
  <2>1. pty.buf = <<>>
    BY DEF PtyInv, QueueInv, IdleInv
  <2>2. pty.pending \in Seq(Nat) /\ x \in Senders
    BY <1>1, PtyTypes DEF Senders
  <2> QED
    BY <2>1, <2>2, JoinNone, EmptyFacts
<1>9. Ordered(pty.applied, pty.pending, <<>>, pty.ch, pty.sent)
  BY <1>2, OrderedWaited DEF PtyInv, OrderInv
<1> HIDE DEF b
<1>3. pty' \in Session
  BY <1>1, PtyWords, <1>2 DEF Session
<1>4. /\ pty'.life = pty.life /\ pty'.client = pty.client /\ pty'.open = pty.open /\ pty'.cancelled = pty.cancelled
      /\ pty'.reader = pty.reader /\ pty'.sender = x /\ pty'.pump = pty.pump /\ pty'.keep = pty.keep
      /\ pty'.sent = pty.sent /\ pty'.ch = pty.ch /\ pty'.pending = <<>> /\ pty'.buf = b /\ pty'.taken = pty.taken
      /\ pty'.called = pty.called /\ pty'.applied = pty.applied /\ pty'.guest = pty.guest
      /\ pty'.printed = pty.printed /\ pty'.events = pty.events /\ pty'.stream = pty.stream
      /\ pty'.shown = pty.shown
  BY <1>1 DEF Session
<1>5. OrderInv'
  BY <1>2, <1>4, <1>9 DEF OrderInv
<1>6. FullInv' /\ HeldInv'
  <2>1. FullInv'
    BY <1>2, <1>4, NoneFacts DEF PtyInv, QueueInv, FullInv
  <2>2. HeldInv'
    BY <1>2, <1>4, NoneFacts DEF PtyInv, QueueInv, HeldInv
  <2> QED
    BY <2>1, <2>2
<1>7. IdleInv'
  BY <1>4 DEF PtyInv, QueueInv, IdleInv
<1>8. OutputInv'
  BY <1>4, OutputSame DEF PtyInv
<1> QED
  BY <1>3, <1>5, <1>6, <1>7, <1>8 DEF PtyInv, QueueInv

LEMMA FirstTaken ==
    ASSUME PtyInv, mix.before \in Nat, mix' = mix, NEW x \in {"coalesce", "call"}, pty.life = "open", pty.sender = "idle", pty.pending = <<>>, pty.ch # <<>>,
           pty' = [pty EXCEPT !.buf = <<Head(pty.ch)>>, !.ch = Tail(pty.ch), !.sender = x]
    PROVE PtyInv'
<1> DEFINE c == Tail(pty.ch)
<1>1. pty \in Session /\ pty' = [pty EXCEPT !.buf = <<Head(pty.ch)>>, !.ch = c, !.sender = x]
  BY DEF PtyInv
<1>2. /\ Head(pty.ch) \in Nat /\ <<Head(pty.ch)>> \in Seq(Nat) /\ Len(<<Head(pty.ch)>>) <= 1 /\ c \in Seq(Nat) /\ Len(c) <= InputBuffer
      /\ Range(<<Head(pty.ch)>>) = {Head(pty.ch)} /\ Range(pty.ch) = {Head(pty.ch)} \cup Range(c)
  <2>1. pty.ch \in Seq(Nat) /\ Len(pty.ch) \in Nat /\ Len(pty.ch) <= InputBuffer
    BY <1>1, PtyTypes, SeqFacts DEF PtyInv, QueueInv, FullInv
  <2>2. Head(pty.ch) \in Nat /\ c \in Seq(Nat) /\ Len(c) = Len(pty.ch) - 1 /\ Range(pty.ch) = {Head(pty.ch)} \cup Range(c)
    BY <2>1, TailFacts, RangeTail
  <2>3. Len(pty.ch) - 1 <= InputBuffer /\ 1 <= 1
    BY <2>1, Sizes, SMT, SMTT(20)
  <2>4. <<Head(pty.ch)>> \in Seq(Nat) /\ Len(<<Head(pty.ch)>>) = 1 /\ Range(<<Head(pty.ch)>>) = {Head(pty.ch)}
    BY <2>2, OneFacts, RangeOne
  <2> QED
    BY <2>2, <2>3, <2>4
<1>9. Ordered(pty.applied, <<Head(pty.ch)>>, <<>>, c, pty.sent) /\ pty.buf = <<>> /\ x \in Senders
  <2>1. pty.buf = <<>>
    BY DEF PtyInv, QueueInv, IdleInv
  <2>2. Ordered(pty.applied, <<>>, <<>>, pty.ch, pty.sent)
    BY <2>1 DEF PtyInv, OrderInv
  <2>3. Ordered(pty.applied, <<Head(pty.ch)>>, <<>>, c, pty.sent)
    BY <1>1, <2>2, PtyTypes, OrderedTaken
  <2> QED
    BY <2>1, <2>3 DEF Senders
<1> HIDE DEF c
<1>3. pty' \in Session
  BY <1>1, PtyWords, <1>2, <1>9 DEF Session
<1>4. /\ pty'.life = pty.life /\ pty'.client = pty.client /\ pty'.open = pty.open /\ pty'.cancelled = pty.cancelled
      /\ pty'.reader = pty.reader /\ pty'.sender = x /\ pty'.pump = pty.pump /\ pty'.keep = pty.keep
      /\ pty'.sent = pty.sent /\ pty'.ch = c /\ pty'.pending = pty.pending /\ pty'.buf = <<Head(pty.ch)>>
      /\ pty'.taken = pty.taken /\ pty'.called = pty.called /\ pty'.applied = pty.applied /\ pty'.guest = pty.guest
      /\ pty'.printed = pty.printed /\ pty'.events = pty.events /\ pty'.stream = pty.stream
      /\ pty'.shown = pty.shown
  BY <1>1 DEF Session
<1>5. OrderInv'
  BY <1>4, <1>9 DEF OrderInv
<1>6. FullInv' /\ HeldInv'
  <2>1. FullInv'
    BY <1>2, <1>4, NoneFacts, <1>9 DEF PtyInv, QueueInv, FullInv
  <2>2. HeldInv'
    BY <1>2, <1>4, NoneFacts, <1>9 DEF PtyInv, QueueInv, HeldInv
  <2> QED
    BY <2>1, <2>2
<1>7. IdleInv'
  BY <1>4 DEF PtyInv, QueueInv, IdleInv
<1>8. OutputInv'
  BY <1>4, OutputSame DEF PtyInv
<1> QED
  BY <1>3, <1>5, <1>6, <1>7, <1>8 DEF PtyInv, QueueInv

LEMMA SentAlong ==
    ASSUME PtyInv, mix.before \in Nat, mix' = mix, pty.life = "open", pty.sender = "coalesce", pty.ch # <<>>,
           pty' = [pty EXCEPT !.buf = Append(pty.buf, Head(pty.ch)), !.ch = Tail(pty.ch)]
    PROVE PtyInv'
<1> DEFINE c == Tail(pty.ch)
           b == Append(pty.buf, Head(pty.ch))
<1>1. pty \in Session /\ pty' = [pty EXCEPT !.buf = b, !.ch = c]
  BY DEF PtyInv
<1>2. /\ Head(pty.ch) \in Nat /\ <<Head(pty.ch)>> \in Seq(Nat) /\ Len(<<Head(pty.ch)>>) <= 1 /\ c \in Seq(Nat) /\ Len(c) <= InputBuffer
      /\ Range(<<Head(pty.ch)>>) = {Head(pty.ch)} /\ Range(pty.ch) = {Head(pty.ch)} \cup Range(c)
  <2>1. pty.ch \in Seq(Nat) /\ Len(pty.ch) \in Nat /\ Len(pty.ch) <= InputBuffer
    BY <1>1, PtyTypes, SeqFacts DEF PtyInv, QueueInv, FullInv
  <2>2. Head(pty.ch) \in Nat /\ c \in Seq(Nat) /\ Len(c) = Len(pty.ch) - 1 /\ Range(pty.ch) = {Head(pty.ch)} \cup Range(c)
    BY <2>1, TailFacts, RangeTail
  <2>3. Len(pty.ch) - 1 <= InputBuffer /\ 1 <= 1
    BY <2>1, Sizes, SMT, SMTT(20)
  <2>4. <<Head(pty.ch)>> \in Seq(Nat) /\ Len(<<Head(pty.ch)>>) = 1 /\ Range(<<Head(pty.ch)>>) = {Head(pty.ch)}
    BY <2>2, OneFacts, RangeOne
  <2> QED
    BY <2>2, <2>3, <2>4
<1>9. Ordered(pty.applied, b, pty.pending, c, pty.sent) /\ b \in Seq(Nat) /\ Range(b) = Range(pty.buf) \cup {Head(pty.ch)} /\ pty.pending = <<>>
  <2>1. pty.pending = <<>>
    BY DEF PtyInv, QueueInv, IdleInv
  <2>2. Ordered(pty.applied, pty.buf, <<>>, pty.ch, pty.sent)
    BY <2>1 DEF PtyInv, OrderInv
  <2>3. Ordered(pty.applied, b, <<>>, c, pty.sent)
    BY <1>1, <2>2, PtyTypes, OrderedAlong
  <2>4. b \in Seq(Nat) /\ Range(b) = Range(pty.buf) \cup {Head(pty.ch)}
    BY <1>1, <1>2, PtyTypes, AppendFacts, RangeAppend
  <2> QED
    BY <2>1, <2>3, <2>4
<1> HIDE DEF c, b
<1>3. pty' \in Session
  BY <1>1, PtyWords, <1>2, <1>9 DEF Session
<1>4. /\ pty'.life = pty.life /\ pty'.client = pty.client /\ pty'.open = pty.open /\ pty'.cancelled = pty.cancelled
      /\ pty'.reader = pty.reader /\ pty'.sender = pty.sender /\ pty'.pump = pty.pump /\ pty'.keep = pty.keep
      /\ pty'.sent = pty.sent /\ pty'.ch = c /\ pty'.pending = pty.pending /\ pty'.buf = b
      /\ pty'.taken = pty.taken /\ pty'.called = pty.called /\ pty'.applied = pty.applied /\ pty'.guest = pty.guest
      /\ pty'.printed = pty.printed /\ pty'.events = pty.events /\ pty'.stream = pty.stream
      /\ pty'.shown = pty.shown
  BY <1>1 DEF Session
<1>5. OrderInv'
  BY <1>4, <1>9 DEF OrderInv
<1>6. FullInv' /\ HeldInv'
  <2>1. FullInv'
    BY <1>2, <1>4, NoneFacts, <1>9 DEF PtyInv, QueueInv, FullInv
  <2>2. HeldInv'
    BY <1>2, <1>4, NoneFacts, <1>9 DEF PtyInv, QueueInv, HeldInv
  <2> QED
    BY <2>1, <2>2
<1>7. IdleInv'
  BY <1>4 DEF PtyInv, QueueInv, IdleInv
<1>8. OutputInv'
  BY <1>4, OutputSame DEF PtyInv
<1> QED
  BY <1>3, <1>5, <1>6, <1>7, <1>8 DEF PtyInv, QueueInv

LEMMA KeptWaiting ==
    ASSUME PtyInv, mix.before \in Nat, mix' = mix, pty.life = "open", pty.sender = "coalesce", pty.ch # <<>>,
           pty' = [pty EXCEPT !.pending = <<Head(pty.ch)>>, !.ch = Tail(pty.ch), !.sender = "call"]
    PROVE PtyInv'
<1> DEFINE c == Tail(pty.ch)
<1>1. pty \in Session /\ pty' = [pty EXCEPT !.pending = <<Head(pty.ch)>>, !.ch = c, !.sender = "call"]
  BY DEF PtyInv
<1>2. /\ Head(pty.ch) \in Nat /\ <<Head(pty.ch)>> \in Seq(Nat) /\ Len(<<Head(pty.ch)>>) <= 1 /\ c \in Seq(Nat) /\ Len(c) <= InputBuffer
      /\ Range(<<Head(pty.ch)>>) = {Head(pty.ch)} /\ Range(pty.ch) = {Head(pty.ch)} \cup Range(c)
  <2>1. pty.ch \in Seq(Nat) /\ Len(pty.ch) \in Nat /\ Len(pty.ch) <= InputBuffer
    BY <1>1, PtyTypes, SeqFacts DEF PtyInv, QueueInv, FullInv
  <2>2. Head(pty.ch) \in Nat /\ c \in Seq(Nat) /\ Len(c) = Len(pty.ch) - 1 /\ Range(pty.ch) = {Head(pty.ch)} \cup Range(c)
    BY <2>1, TailFacts, RangeTail
  <2>3. Len(pty.ch) - 1 <= InputBuffer /\ 1 <= 1
    BY <2>1, Sizes, SMT, SMTT(20)
  <2>4. <<Head(pty.ch)>> \in Seq(Nat) /\ Len(<<Head(pty.ch)>>) = 1 /\ Range(<<Head(pty.ch)>>) = {Head(pty.ch)}
    BY <2>2, OneFacts, RangeOne
  <2> QED
    BY <2>2, <2>3, <2>4
<1>9. Ordered(pty.applied, pty.buf, <<Head(pty.ch)>>, c, pty.sent) /\ pty.pending = <<>>
  <2>1. pty.pending = <<>>
    BY DEF PtyInv, QueueInv, IdleInv
  <2>2. Ordered(pty.applied, pty.buf, <<>>, pty.ch, pty.sent)
    BY <2>1 DEF PtyInv, OrderInv
  <2>3. Ordered(pty.applied, pty.buf, <<Head(pty.ch)>>, c, pty.sent)
    BY <1>1, <2>2, PtyTypes, OrderedKept
  <2> QED
    BY <2>1, <2>3
<1> HIDE DEF c
<1>3. pty' \in Session
  BY <1>1, PtyWords, <1>2 DEF Session
<1>4. /\ pty'.life = pty.life /\ pty'.client = pty.client /\ pty'.open = pty.open /\ pty'.cancelled = pty.cancelled
      /\ pty'.reader = pty.reader /\ pty'.sender = "call" /\ pty'.pump = pty.pump /\ pty'.keep = pty.keep
      /\ pty'.sent = pty.sent /\ pty'.ch = c /\ pty'.pending = <<Head(pty.ch)>> /\ pty'.buf = pty.buf
      /\ pty'.taken = pty.taken /\ pty'.called = pty.called /\ pty'.applied = pty.applied /\ pty'.guest = pty.guest
      /\ pty'.printed = pty.printed /\ pty'.events = pty.events /\ pty'.stream = pty.stream
      /\ pty'.shown = pty.shown
  BY <1>1 DEF Session
<1>5. OrderInv'
  BY <1>4, <1>9 DEF OrderInv
<1>6. FullInv' /\ HeldInv'
  <2>1. FullInv'
    BY <1>2, <1>4, NoneFacts, <1>9 DEF PtyInv, QueueInv, FullInv
  <2>2. HeldInv'
    BY <1>2, <1>4, NoneFacts, <1>9 DEF PtyInv, QueueInv, HeldInv
  <2> QED
    BY <2>1, <2>2
<1>7. IdleInv'
  BY <1>4 DEF PtyInv, QueueInv, IdleInv
<1>8. OutputInv'
  BY <1>4, OutputSame DEF PtyInv
<1> QED
  BY <1>3, <1>5, <1>6, <1>7, <1>8 DEF PtyInv, QueueInv

LEMMA ReadyToCall ==
    ASSUME PtyInv, mix.before \in Nat, mix' = mix, pty.sender = "coalesce", pty' = [pty EXCEPT !.sender = "call"]
    PROVE PtyInv'
<1>1. pty \in Session /\ pty' = [pty EXCEPT !.sender = "call"]
  BY DEF PtyInv
<1>3. pty' \in Session
  BY <1>1, PtyWords DEF Session
<1>4. /\ pty'.life = pty.life /\ pty'.client = pty.client /\ pty'.open = pty.open /\ pty'.cancelled = pty.cancelled
      /\ pty'.reader = pty.reader /\ pty'.sender = "call" /\ pty'.pump = pty.pump /\ pty'.keep = pty.keep
      /\ pty'.sent = pty.sent /\ pty'.ch = pty.ch /\ pty'.pending = pty.pending /\ pty'.buf = pty.buf
      /\ pty'.taken = pty.taken /\ pty'.called = pty.called /\ pty'.applied = pty.applied /\ pty'.guest = pty.guest
      /\ pty'.printed = pty.printed /\ pty'.events = pty.events /\ pty'.stream = pty.stream
      /\ pty'.shown = pty.shown
  BY <1>1 DEF Session
<1>5. OrderInv'
  BY <1>4, OrderSame DEF PtyInv
<1>6. FullInv' /\ HeldInv'
  BY <1>4, HeldSame DEF PtyInv, QueueInv
<1>7. IdleInv'
  BY <1>4 DEF PtyInv, QueueInv, IdleInv
<1>8. OutputInv'
  BY <1>4, OutputSame DEF PtyInv
<1> QED
  BY <1>3, <1>5, <1>6, <1>7, <1>8 DEF PtyInv, QueueInv

LEMMA SenderTakesKept ==
    ASSUME PtyInv, mix.before \in Nat, mix' = mix, SenderTakes
    PROVE PtyInv'
<1>1. pty.life = "open" /\ pty.sender = "idle"
  BY DEF SenderTakes, Running
<1>2. CASE \E x \in {"coalesce", "call"} : pty' = [pty EXCEPT !.buf = pty.buf \o pty.pending, !.pending = <<>>, !.sender = x]
  BY <1>1, <1>2, WaitingTaken
<1>3. CASE /\ pty.pending = <<>> /\ pty.ch # <<>>
           /\ \E x \in {"coalesce", "call"} : pty' = [pty EXCEPT !.buf = <<Head(pty.ch)>>, !.ch = Tail(pty.ch), !.sender = x]
  BY <1>1, <1>3, FirstTaken
<1> QED
  BY <1>2, <1>3 DEF SenderTakes

LEMMA coalescePtyInputKept ==
    ASSUME PtyInv, mix.before \in Nat, mix' = mix, coalescePtyInput
    PROVE PtyInv'
<1>1. pty.life = "open" /\ pty.sender = "coalesce"
  BY DEF coalescePtyInput, Running
<1> QED
  BY <1>1, ReadyToCall, SentAlong, KeptWaiting DEF coalescePtyInput

LEMMA Called ==
    ASSUME PtyInv, mix.before \in Nat, mix' = mix, NEW a, a = pty.applied \/ a = pty.applied \o pty.buf, NEW g \in Guests, g = pty.guest \/ (g = "killed" /\ pty.guest = "runs"),
           pty.sender = "call", pty.life = "open",
           pty' = [pty EXCEPT !.sender = "idle", !.buf = <<>>, !.called = pty.called \cup Range(pty.buf), !.applied = a, !.guest = g]
    PROVE PtyInv'
<1> DEFINE d == pty.called \cup Range(pty.buf)
<1>1. pty \in Session /\ pty' = [pty EXCEPT !.sender = "idle", !.buf = <<>>, !.called = d, !.applied = a, !.guest = g]
  BY DEF PtyInv
<1>2. a \in Seq(Nat) /\ d \in SUBSET Nat /\ <<>> \in Seq(Nat) /\ Ordered(a, <<>>, pty.pending, pty.ch, pty.sent)
  <2>1. /\ pty.applied \in Seq(Nat) /\ pty.buf \in Seq(Nat) /\ pty.pending \in Seq(Nat) /\ pty.ch \in Seq(Nat)
        /\ pty.sent \in Nat /\ pty.called \subseteq Nat
    BY <1>1, PtyTypes
  <2>2. Ordered(pty.applied, pty.buf, pty.pending, pty.ch, pty.sent)
    BY DEF PtyInv, OrderInv
  <2>3. Ordered(a, <<>>, pty.pending, pty.ch, pty.sent)
    BY <2>1, <2>2, OrderedLost, OrderedApplied
  <2>4. a \in Seq(Nat)
    BY <2>1, JoinFacts
  <2>5. Range(pty.buf) \subseteq Nat
    BY <2>1, RangeNat
  <2> QED
    BY <2>1, <2>3, <2>4, <2>5, EmptyFacts
<1>3. pty' \in Session
  BY <1>1, PtyWords, <1>2 DEF Session
<1>4. /\ pty'.life = pty.life /\ pty'.client = pty.client /\ pty'.open = pty.open /\ pty'.cancelled = pty.cancelled
      /\ pty'.reader = pty.reader /\ pty'.sender = "idle" /\ pty'.pump = pty.pump /\ pty'.keep = pty.keep
      /\ pty'.sent = pty.sent /\ pty'.ch = pty.ch /\ pty'.pending = pty.pending /\ pty'.buf = <<>>
      /\ pty'.taken = pty.taken /\ pty'.called = d /\ pty'.applied = a /\ pty'.guest = g
      /\ pty'.printed = pty.printed /\ pty'.events = pty.events /\ pty'.stream = pty.stream
      /\ pty'.shown = pty.shown
  BY <1>1 DEF Session
<1>5. OrderInv'
  BY <1>2, <1>4 DEF OrderInv
<1>6. FullInv' /\ HeldInv'
  <2>1. FullInv'
    BY <1>2, <1>4, NoneFacts DEF PtyInv, QueueInv, FullInv
  <2>2. HeldInv'
    BY <1>2, <1>4, NoneFacts DEF PtyInv, QueueInv, HeldInv
  <2> QED
    BY <2>1, <2>2
<1>7. IdleInv'
  BY <1>4 DEF PtyInv, QueueInv, IdleInv
<1>8. OutputInv'
  <2>1. CASE g = pty.guest
    BY <1>4, <2>1, OutputSame DEF PtyInv
  <2>2. CASE g = "killed" /\ pty.guest = "runs"
    <3>1. pty.stream = "open" => pty.printed = mix.before + Len(pty.shown) + Len(pty.events)
      BY DEF PtyInv, OutputInv
    <3> QED
      BY <1>4, <2>2, <3>1, LiveKept
  <2> QED
    BY <2>1, <2>2
<1> QED
  BY <1>3, <1>5, <1>6, <1>7, <1>8 DEF PtyInv, QueueInv

LEMMA SenderCallsKept ==
    ASSUME PtyInv, mix.before \in Nat, mix' = mix, NEW ok, SenderCalls(ok)
    PROVE PtyInv'
<1> DEFINE reached == ok /\ pty.guest = "runs"
           a == IF reached THEN pty.applied \o pty.buf ELSE pty.applied
           g == IF reached /\ Frame(pty.buf[1]) = "kill" THEN "killed" ELSE pty.guest
<1>1. /\ pty.life = "open" /\ pty.sender = "call"
      /\ pty' = [pty EXCEPT !.sender = "idle", !.buf = <<>>, !.called = pty.called \cup Range(pty.buf), !.applied = a, !.guest = g]
  BY DEF SenderCalls, Running, Range
<1>2. (a = pty.applied \/ a = pty.applied \o pty.buf) /\ (g = pty.guest \/ (g = "killed" /\ pty.guest = "runs"))
  OBVIOUS
<1>3. g \in Guests
  <2>1. pty.guest \in Guests /\ "killed" \in Guests
    BY DEF PtyInv, Session, Guests
  <2> QED
    BY <2>1
<1> HIDE DEF reached, a, g
<1> QED
  BY <1>1, <1>2, <1>3, Called

LEMMA PrintedUnseen ==
    ASSUME PtyInv, mix.before \in Nat, mix' = mix, pty.guest = "runs", pty.life = "open", pty.stream # "open",
           pty' = [pty EXCEPT !.printed = pty.printed + 1, !.events = pty.events]
    PROVE PtyInv'
<1> DEFINE n == pty.printed + 1
<1>1. pty \in Session /\ pty' = [pty EXCEPT !.printed = n, !.events = pty.events]
  BY DEF PtyInv
<1>2. n \in Nat /\ pty.events \in Seq(Nat)
  BY <1>1, PtyTypes, SMT, SMTT(20)
<1> HIDE DEF n
<1>3. pty' \in Session
  BY <1>1, PtyWords, <1>2 DEF Session
<1>4. /\ pty'.life = pty.life /\ pty'.client = pty.client /\ pty'.open = pty.open /\ pty'.cancelled = pty.cancelled
      /\ pty'.reader = pty.reader /\ pty'.sender = pty.sender /\ pty'.pump = pty.pump /\ pty'.keep = pty.keep
      /\ pty'.sent = pty.sent /\ pty'.ch = pty.ch /\ pty'.pending = pty.pending /\ pty'.buf = pty.buf
      /\ pty'.taken = pty.taken /\ pty'.called = pty.called /\ pty'.applied = pty.applied /\ pty'.guest = pty.guest
      /\ pty'.printed = n /\ pty'.events = pty.events /\ pty'.stream = pty.stream /\ pty'.shown = pty.shown
  BY <1>1 DEF Session
<1>5. OrderInv'
  BY <1>4, OrderSame DEF PtyInv
<1>6. FullInv' /\ HeldInv'
  BY <1>4, HeldSame DEF PtyInv, QueueInv
<1>7. IdleInv'
  BY <1>4, IdleSame DEF PtyInv, QueueInv
<1>8. OutputInv'
  BY <1>4, LiveKept
<1> QED
  BY <1>3, <1>5, <1>6, <1>7, <1>8 DEF PtyInv, QueueInv

LEMMA PrintedQueued ==
    ASSUME PtyInv, mix.before \in Nat, mix' = mix, pty.guest = "runs", pty.life = "open", pty.stream = "open", Len(pty.events) < EventBuffer,
           pty' = [pty EXCEPT !.printed = pty.printed + 1, !.events = Append(pty.events, pty.printed + 1)]
    PROVE PtyInv'
<1> DEFINE n == pty.printed + 1
           e == Append(pty.events, n)
           m == mix.before + Len(pty.shown)
<1>1. pty \in Session /\ pty' = [pty EXCEPT !.printed = n, !.events = e]
  BY DEF PtyInv
<1>2. /\ n \in Nat /\ e \in Seq(Nat) /\ Len(e) = Len(pty.events) + 1 /\ Len(e) <= EventBuffer
      /\ n = m + Len(pty.events) + 1 /\ n = m + Len(e) /\ m \in Nat /\ Numbered(e, m)
  <2>1. /\ pty.printed \in Nat /\ pty.events \in Seq(Nat) /\ Len(pty.events) \in Nat /\ m \in Nat
        /\ Numbered(pty.events, m) /\ pty.printed = m + Len(pty.events)
    BY <1>1, PtyTypes, LiveOutput DEF PtyInv, OutputInv
  <2> HIDE DEF m
  <2>2. n \in Nat /\ n = m + Len(pty.events) + 1
    BY <2>1, SMT, SMTT(20)
  <2>3. e \in Seq(Nat) /\ Len(e) = Len(pty.events) + 1
    BY <2>1, <2>2, AppendFacts
  <2>4. Numbered(e, m)
    BY <2>1, <2>2, NumberedAppend
  <2>5. Len(pty.events) + 1 <= EventBuffer /\ n = m + (Len(pty.events) + 1)
    BY <2>1, <2>2, Sizes, SMT, SMTT(20)
  <2> QED
    BY <2>1, <2>2, <2>3, <2>4, <2>5
<1> HIDE DEF n, e
<1>3. pty' \in Session
  BY <1>1, PtyWords, <1>2 DEF Session
<1>4. /\ pty'.life = pty.life /\ pty'.client = pty.client /\ pty'.open = pty.open /\ pty'.cancelled = pty.cancelled
      /\ pty'.reader = pty.reader /\ pty'.sender = pty.sender /\ pty'.pump = pty.pump /\ pty'.keep = pty.keep
      /\ pty'.sent = pty.sent /\ pty'.ch = pty.ch /\ pty'.pending = pty.pending /\ pty'.buf = pty.buf
      /\ pty'.taken = pty.taken /\ pty'.called = pty.called /\ pty'.applied = pty.applied /\ pty'.guest = pty.guest
      /\ pty'.printed = n /\ pty'.events = e /\ pty'.stream = pty.stream /\ pty'.shown = pty.shown
  BY <1>1 DEF Session
<1>5. OrderInv'
  BY <1>4, OrderSame DEF PtyInv
<1>6. FullInv' /\ HeldInv'
  BY <1>4, HeldSame DEF PtyInv, QueueInv
<1>7. IdleInv'
  BY <1>4, IdleSame DEF PtyInv, QueueInv
<1>8. OutputInv'
  <2>1. Exit \notin Range(pty.shown) /\ \A p : Ended(pty.shown, mix.before, p)
    BY LiveOutput, NoExit
  <2>2. Exit \notin Range(e) /\ \A p : Ended(e, m, p)
    BY <1>2, NoExit
  <2> QED
    BY <1>2, <1>4, <2>1, <2>2 DEF OutputInv
<1> QED
  BY <1>3, <1>5, <1>6, <1>7, <1>8 DEF PtyInv, QueueInv

LEMMA GuestPrintsKept ==
    ASSUME PtyInv, mix.before \in Nat, mix' = mix, GuestPrints
    PROVE PtyInv'
<1>1. pty.life = "open" /\ pty.guest = "runs"
  BY DEF GuestPrints, Running
<1>2. CASE pty.stream = "open"
  BY <1>1, <1>2, PrintedQueued DEF GuestPrints
<1>3. CASE pty.stream # "open"
  BY <1>1, <1>3, PrintedUnseen DEF GuestPrints
<1> QED
  BY <1>2, <1>3

LEMMA ExitUnseen ==
    ASSUME PtyInv, mix.before \in Nat, mix' = mix, pty.guest \in {"runs", "killed"}, pty.life = "open", pty.stream # "open",
           pty' = [pty EXCEPT !.guest = "exited", !.events = pty.events, !.stream = pty.stream]
    PROVE PtyInv'
<1>1. pty \in Session /\ pty' = [pty EXCEPT !.guest = "exited", !.events = pty.events, !.stream = pty.stream]
  BY DEF PtyInv
<1>2. pty.events \in Seq(Nat) /\ pty.stream \in Streams
  BY <1>1 DEF Session
<1>3. pty' \in Session
  BY <1>1, PtyWords, <1>2 DEF Session
<1>4. /\ pty'.life = pty.life /\ pty'.client = pty.client /\ pty'.open = pty.open /\ pty'.cancelled = pty.cancelled
      /\ pty'.reader = pty.reader /\ pty'.sender = pty.sender /\ pty'.pump = pty.pump /\ pty'.keep = pty.keep
      /\ pty'.sent = pty.sent /\ pty'.ch = pty.ch /\ pty'.pending = pty.pending /\ pty'.buf = pty.buf
      /\ pty'.taken = pty.taken /\ pty'.called = pty.called /\ pty'.applied = pty.applied /\ pty'.guest = "exited"
      /\ pty'.printed = pty.printed /\ pty'.events = pty.events /\ pty'.stream = pty.stream
      /\ pty'.shown = pty.shown
  BY <1>1 DEF Session
<1>5. OrderInv'
  BY <1>4, OrderSame DEF PtyInv
<1>6. FullInv' /\ HeldInv'
  BY <1>4, HeldSame DEF PtyInv, QueueInv
<1>7. IdleInv'
  BY <1>4, IdleSame DEF PtyInv, QueueInv
<1>8. OutputInv'
  BY <1>4, LiveKept
<1> QED
  BY <1>3, <1>5, <1>6, <1>7, <1>8 DEF PtyInv, QueueInv

LEMMA ExitSent ==
    ASSUME PtyInv, mix.before \in Nat, mix' = mix, pty.guest \in {"runs", "killed"}, pty.life = "open", pty.stream = "open", Len(pty.events) < EventBuffer,
           pty' = [pty EXCEPT !.guest = "exited", !.events = Append(pty.events, Exit), !.stream = "ended"]
    PROVE PtyInv'
<1> DEFINE e == Append(pty.events, Exit)
           m == mix.before + Len(pty.shown)
<1>1. pty \in Session /\ pty' = [pty EXCEPT !.guest = "exited", !.events = e, !.stream = "ended"]
  BY DEF PtyInv
<1>2. e \in Seq(Nat) /\ Ended(e, m, pty.printed) /\ Len(e) <= EventBuffer
  <2>1. /\ pty.printed \in Nat /\ pty.events \in Seq(Nat) /\ Len(pty.events) \in Nat /\ m \in Nat
        /\ Numbered(pty.events, m) /\ pty.printed = m + Len(pty.events)
    BY <1>1, PtyTypes, LiveOutput DEF PtyInv, OutputInv
  <2> HIDE DEF m
  <2>2. e \in Seq(Nat) /\ Ended(e, m, pty.printed)
    BY <2>1, ExitQueued
  <2>3. Exit \in Nat
    BY SMT, SMTT(20) DEF Exit
  <2>4. Len(e) = Len(pty.events) + 1
    BY <2>1, <2>3, AppendFacts
  <2>5. Len(pty.events) + 1 <= EventBuffer
    BY <2>1, Sizes, SMT, SMTT(20)
  <2> QED
    BY <2>2, <2>4, <2>5
<1> HIDE DEF e
<1>3. pty' \in Session
  BY <1>1, PtyWords, <1>2 DEF Session
<1>4. /\ pty'.life = pty.life /\ pty'.client = pty.client /\ pty'.open = pty.open /\ pty'.cancelled = pty.cancelled
      /\ pty'.reader = pty.reader /\ pty'.sender = pty.sender /\ pty'.pump = pty.pump /\ pty'.keep = pty.keep
      /\ pty'.sent = pty.sent /\ pty'.ch = pty.ch /\ pty'.pending = pty.pending /\ pty'.buf = pty.buf
      /\ pty'.taken = pty.taken /\ pty'.called = pty.called /\ pty'.applied = pty.applied /\ pty'.guest = "exited"
      /\ pty'.printed = pty.printed /\ pty'.events = e /\ pty'.stream = "ended" /\ pty'.shown = pty.shown
  BY <1>1 DEF Session
<1>5. OrderInv'
  BY <1>4, OrderSame DEF PtyInv
<1>6. FullInv' /\ HeldInv'
  BY <1>4, HeldSame DEF PtyInv, QueueInv
<1>7. IdleInv'
  BY <1>4, IdleSame DEF PtyInv, QueueInv
<1>8. OutputInv'
  <2>1. Exit \notin Range(pty.shown) /\ \A p : Ended(pty.shown, mix.before, p)
    BY LiveOutput, NoExit
  <2> QED
    BY <1>2, <1>4, <2>1 DEF OutputInv
<1> QED
  BY <1>3, <1>5, <1>6, <1>7, <1>8 DEF PtyInv, QueueInv

LEMMA GuestExitsKept ==
    ASSUME PtyInv, mix.before \in Nat, mix' = mix, GuestExits
    PROVE PtyInv'
<1>1. pty.life = "open" /\ pty.guest \in {"runs", "killed"}
  BY DEF GuestExits, Running
<1>2. CASE pty.stream = "open"
  BY <1>1, <1>2, ExitSent DEF GuestExits
<1>3. CASE pty.stream # "open"
  BY <1>1, <1>3, ExitUnseen DEF GuestExits
<1> QED
  BY <1>2, <1>3

LEMMA Regroup == \A k, m, n \in Nat : k + m + n = k + (m + n)
  BY SMT, SMTT(20)

LEMMA PumpShowsKept ==
    ASSUME PtyInv, mix.before \in Nat, mix' = mix, PumpShows
    PROVE PtyInv'
<1> DEFINE e == Head(pty.events)
           u == Append(pty.shown, e)
           v == Tail(pty.events)
           on == e # Exit
           off == pty.cancelled \/ e = Exit
<1>1. pty \in Session /\ pty' = [pty EXCEPT !.shown = u, !.events = v, !.pump = on, !.cancelled = off]
  BY DEF PtyInv, PumpShows
<1>2. /\ pty.life = "open" /\ pty.events # <<>> /\ pty.events \in Seq(Nat) /\ pty.shown \in Seq(Nat)
      /\ pty.printed \in Nat /\ mix.before \in Nat /\ Len(pty.shown) \in Nat /\ Len(pty.events) \in Nat
  BY <1>1, PtyTypes, SeqFacts DEF PumpShows, Running
<1>9. Exit \notin Range(pty.shown) /\ Numbered(pty.shown, mix.before)
  <2>1. pty.pump
    BY DEF PumpShows
  <2>2. Exit \notin Range(pty.shown)
    BY <2>1 DEF PtyInv, OutputInv
  <2> QED
    BY <2>2, StillNumbered DEF PtyInv, OutputInv
<1>10. /\ u \in Seq(Nat) /\ v \in Seq(Nat) /\ Len(u) = Len(pty.shown) + 1 /\ Len(u) + Len(v) = Len(pty.shown) + Len(pty.events)
       /\ Ended(u, mix.before, pty.printed) /\ Ended(v, mix.before + Len(u), pty.printed)
  BY <1>2, <1>9, HeadShown DEF PtyInv, OutputInv
<1>11. /\ Range(u) = Range(pty.shown) \cup {e} /\ Range(pty.events) = {e} \cup Range(v) /\ Len(v) = Len(pty.events) - 1
  BY <1>2, RangeAppend, RangeTail, TailFacts
<1>12. on \in Flag /\ off \in Flag
  BY <1>1 DEF Session, Flag
<1>13. /\ Len(v) <= EventBuffer
       /\ mix.before + Len(pty.shown) + Len(pty.events) = mix.before + Len(u) + Len(v)
  <2>1. Len(pty.events) <= EventBuffer
    BY DEF PtyInv, OutputInv
  <2>2. Len(u) \in Nat /\ Len(v) \in Nat
    BY <1>10, SeqFacts
  <2>3. Len(v) = Len(pty.events) - 1 /\ Len(u) + Len(v) = Len(pty.shown) + Len(pty.events)
    BY <1>10, <1>11
  <2> HIDE DEF u, v
  <2>4. Len(v) <= EventBuffer
    BY <1>2, <2>1, <2>3, Sizes, SMT, SMTT(20)
  <2>5. mix.before + Len(pty.shown) + Len(pty.events) = mix.before + Len(u) + Len(v)
    <3>1. mix.before \in Nat /\ Len(pty.shown) \in Nat /\ Len(pty.events) \in Nat
      BY <1>2
    <3>2. mix.before + Len(pty.shown) + Len(pty.events) = mix.before + (Len(pty.shown) + Len(pty.events))
      BY <3>1, Regroup
    <3>3. mix.before + Len(u) + Len(v) = mix.before + (Len(u) + Len(v))
      BY <2>2, <3>1, Regroup
    <3> QED
      BY <2>3, <3>2, <3>3
  <2> QED
    BY <2>4, <2>5
<1> HIDE DEF u, v, on, off
<1>3. pty' \in Session
  BY <1>1, PtyWords, <1>10, <1>12 DEF Session
<1>4. /\ pty'.life = pty.life /\ pty'.client = pty.client /\ pty'.open = pty.open /\ pty'.cancelled = off
      /\ pty'.reader = pty.reader /\ pty'.sender = pty.sender /\ pty'.pump = on /\ pty'.keep = pty.keep
      /\ pty'.sent = pty.sent /\ pty'.ch = pty.ch /\ pty'.pending = pty.pending /\ pty'.buf = pty.buf
      /\ pty'.taken = pty.taken /\ pty'.called = pty.called /\ pty'.applied = pty.applied /\ pty'.guest = pty.guest
      /\ pty'.printed = pty.printed /\ pty'.events = v /\ pty'.stream = pty.stream /\ pty'.shown = u
  BY <1>1 DEF Session
<1>5. OrderInv'
  BY <1>4, OrderSame DEF PtyInv
<1>6. FullInv' /\ HeldInv'
  BY <1>4, HeldSame DEF PtyInv, QueueInv
<1>7. IdleInv'
  BY <1>4, IdleSame DEF PtyInv, QueueInv
<1>8. OutputInv'
  <2>1. pty'.life # "none"
    BY <1>2, <1>4
  <2>2. pty'.stream = "open" => pty'.guest \in {"runs", "killed"} /\ pty'.printed = mix.before + Len(u) + Len(v)
    BY <1>4, <1>13 DEF PtyInv, OutputInv
  <2>3. Exit \in Range(u) => pty'.guest = "exited" /\ pty'.pump = FALSE
    BY <1>4, <1>9, <1>11 DEF PtyInv, OutputInv, on
  <2>4. Exit \in Range(v) => pty'.guest = "exited"
    BY <1>4, <1>11 DEF PtyInv, OutputInv
  <2> QED
    BY <1>4, <1>10, <1>13, <2>1, <2>2, <2>3, <2>4 DEF OutputInv
<1> QED
  BY <1>3, <1>5, <1>6, <1>7, <1>8 DEF PtyInv, QueueInv

LEMMA StreamBreaks ==
    ASSUME PtyInv, mix.before \in Nat, mix' = mix, pty.stream = "open", pty' = [pty EXCEPT !.stream = "broken", !.guest = "gone"]
    PROVE PtyInv'
<1>1. pty \in Session /\ pty' = [pty EXCEPT !.stream = "broken", !.guest = "gone"]
  BY DEF PtyInv
<1>3. pty' \in Session
  BY <1>1, PtyWords DEF Session
<1>4. /\ pty'.life = pty.life /\ pty'.client = pty.client /\ pty'.open = pty.open /\ pty'.cancelled = pty.cancelled
      /\ pty'.reader = pty.reader /\ pty'.sender = pty.sender /\ pty'.pump = pty.pump /\ pty'.keep = pty.keep
      /\ pty'.sent = pty.sent /\ pty'.ch = pty.ch /\ pty'.pending = pty.pending /\ pty'.buf = pty.buf
      /\ pty'.taken = pty.taken /\ pty'.called = pty.called /\ pty'.applied = pty.applied /\ pty'.guest = "gone"
      /\ pty'.printed = pty.printed /\ pty'.events = pty.events /\ pty'.stream = "broken" /\ pty'.shown = pty.shown
  BY <1>1 DEF Session
<1>5. OrderInv'
  BY <1>4, OrderSame DEF PtyInv
<1>6. FullInv' /\ HeldInv'
  BY <1>4, HeldSame DEF PtyInv, QueueInv
<1>7. IdleInv'
  BY <1>4, IdleSame DEF PtyInv, QueueInv
<1>8. OutputInv'
  <2>1. pty.guest # "exited" /\ pty.life # "none"
    BY DEF PtyInv, OutputInv
  <2> QED
    BY <1>4, <2>1, LiveKept
<1> QED
  BY <1>3, <1>5, <1>6, <1>7, <1>8 DEF PtyInv, QueueInv

LEMMA ProcessGone ==
    ASSUME PtyInv, mix.before \in Nat, mix' = mix, NEW g \in Guests, g = pty.guest \/ pty.guest \in {"runs", "killed"}, pty.stream # "open",
           pty' = [pty EXCEPT !.guest = g]
    PROVE PtyInv'
<1>1. pty \in Session /\ pty' = [pty EXCEPT !.guest = g]
  BY DEF PtyInv
<1>3. pty' \in Session
  BY <1>1, PtyWords DEF Session
<1>4. /\ pty'.life = pty.life /\ pty'.client = pty.client /\ pty'.open = pty.open /\ pty'.cancelled = pty.cancelled
      /\ pty'.reader = pty.reader /\ pty'.sender = pty.sender /\ pty'.pump = pty.pump /\ pty'.keep = pty.keep
      /\ pty'.sent = pty.sent /\ pty'.ch = pty.ch /\ pty'.pending = pty.pending /\ pty'.buf = pty.buf
      /\ pty'.taken = pty.taken /\ pty'.called = pty.called /\ pty'.applied = pty.applied /\ pty'.guest = g
      /\ pty'.printed = pty.printed /\ pty'.events = pty.events /\ pty'.stream = pty.stream
      /\ pty'.shown = pty.shown
  BY <1>1 DEF Session
<1>5. OrderInv'
  BY <1>4, OrderSame DEF PtyInv
<1>6. FullInv' /\ HeldInv'
  BY <1>4, HeldSame DEF PtyInv, QueueInv
<1>7. IdleInv'
  BY <1>4, IdleSame DEF PtyInv, QueueInv
<1>8. OutputInv'
  <2>1. CASE g = pty.guest
    BY <1>4, <2>1, OutputSame DEF PtyInv
  <2>2. CASE pty.guest \in {"runs", "killed"}
    <3>1. Exit \notin Range(pty.shown) /\ Exit \notin Range(pty.events)
      BY <2>2 DEF PtyInv, OutputInv
    <3> QED
      BY <1>4, <3>1 DEF PtyInv, OutputInv
  <2> QED
    BY <2>1, <2>2
<1> QED
  BY <1>3, <1>5, <1>6, <1>7, <1>8 DEF PtyInv, QueueInv

LEMMA StreamBrokenKept ==
    ASSUME PtyInv, mix.before \in Nat, mix' = mix, pty' = StreamBroken(pty)
    PROVE PtyInv'
<1>1. CASE pty.stream = "open"
  BY <1>1, StreamBreaks DEF StreamBroken
<1>2. CASE pty.stream # "open"
  <2> DEFINE g == IF pty.guest \in {"runs", "killed"} THEN "gone" ELSE pty.guest
  <2>1. pty' = [pty EXCEPT !.guest = g]
    BY <1>2 DEF StreamBroken
  <2>2. g = pty.guest \/ pty.guest \in {"runs", "killed"}
    OBVIOUS
  <2>3. g \in Guests
    <3>1. pty.guest \in Guests /\ "gone" \in Guests
      BY DEF PtyInv, Session, Guests
    <3> QED
      BY <3>1
  <2> HIDE DEF g
  <2> QED
    BY <1>2, <2>1, <2>2, <2>3, ProcessGone
<1> QED
  BY <1>1, <1>2

LEMMA PtySame == ASSUME PtyInv, UNCHANGED <<mix, pty>> PROVE PtyInv'
<1>1. OrderInv'
  BY OrderSame DEF PtyInv
<1>2. FullInv' /\ HeldInv' /\ IdleInv'
  BY HeldSame, IdleSame DEF PtyInv, QueueInv
<1>3. OutputInv'
  BY OutputSame DEF PtyInv
<1> QED
  BY <1>1, <1>2, <1>3 DEF PtyInv, QueueInv

LEMMA TerminalSound ==
    ASSUME PtyInv
    PROVE /\ KeysInOrder /\ InputDrained /\ OutputWhole
          /\ Len(pty.ch) <= InputBuffer /\ Len(pty.events) <= EventBuffer /\ Len(pty.pending) <= 1
<1>1. KeysInOrder
  BY DEF PtyInv, OrderInv, Ordered, Rising, KeysInOrder
<1>2. InputDrained
  <2> SUFFICES ASSUME pty.life = "over" PROVE pty.taken \subseteq pty.called
    BY DEF InputDrained
  <2>1. pty.buf = <<>> /\ pty.pending = <<>> /\ pty.ch = <<>>
    BY DEF PtyInv, QueueInv, IdleInv
  <2> QED
    BY <2>1, RangeEmpty DEF PtyInv, QueueInv, HeldInv
<1>3. OutputWhole
  BY DEF PtyInv, OutputInv, Ended, OutputWhole
<1> QED
  BY <1>1, <1>2, <1>3 DEF PtyInv, QueueInv, FullInv, OutputInv

-----------------------------------------------------------------------------
(* Every operation of the terminal, and of the transfers.                   *)
TerminalOp ==
    \/ pty.life = "none" /\ (runPtyLoop(mix.before > 0) \/ AttachFails)
    \/ ReadFrame \/ ClientLeaves \/ ReaderEnds
    \/ SenderTakes \/ coalescePtyInput \/ SenderCalls(TRUE) \/ SenderCalls(FALSE) \/ SenderEnds
    \/ GuestPrints \/ GuestExits \/ PumpShows \/ PumpEnds \/ KeepEnds \/ Closer \/ SessionOver

LEMMA TerminalKept == ASSUME PtyInv, mix.before \in Nat, mix' = mix, TerminalOp PROVE PtyInv'
<1>1. CASE pty.life = "none" /\ (runPtyLoop(mix.before > 0) \/ AttachFails)
  BY <1>1, runPtyLoopKept, AttachFailsKept
<1>2. CASE SenderCalls(TRUE) \/ SenderCalls(FALSE)
  BY <1>2, SenderCallsKept
<1>3. CASE ReadFrame \/ ClientLeaves \/ ReaderEnds
  BY <1>3, ReadFrameKept, ClientLeavesKept, ReaderEndsKept
<1>4. CASE SenderTakes \/ coalescePtyInput \/ SenderEnds
  BY <1>4, SenderTakesKept, coalescePtyInputKept, SenderEndsKept
<1>5. CASE GuestPrints \/ GuestExits
  BY <1>5, GuestPrintsKept, GuestExitsKept
<1>6. CASE PumpShows \/ PumpEnds \/ KeepEnds
  BY <1>6, PumpShowsKept, PumpEndsKept, KeepEndsKept
<1>7. CASE Closer \/ SessionOver
  BY <1>7, CloserKept, SessionOverKept
<1> QED
  BY <1>1, <1>2, <1>3, <1>4, <1>5, <1>6, <1>7 DEF TerminalOp

LEMMA NewSession == ASSUME pty = NoSession PROVE PtyInv
<1>2. /\ pty.life = "none" /\ pty.reader = FALSE /\ pty.sender = "off" /\ pty.sent = 0 /\ pty.ch = <<>> /\ pty.pending = <<>>
      /\ pty.buf = <<>> /\ pty.taken = {} /\ pty.applied = <<>> /\ pty.events = <<>>
      /\ pty.stream = "none" /\ pty.shown = <<>>
  BY DEF NoSession
<1>3. pty \in Session
  <2>1. 0 \in Nat /\ <<>> \in Seq(Nat) /\ {} \in SUBSET Nat
    BY SMT, SMTT(20)
  <2> QED
    BY <2>1, PtyWords DEF NoSession, Session
<1>4. OrderInv
  BY <1>2, NothingBefore DEF OrderInv, Ordered
<1>5. FullInv /\ HeldInv /\ IdleInv
  <2>1. Len(<<>>) <= InputBuffer
    BY Sizes, EmptyFacts, SMT, SMTT(20)
  <2> QED
    BY <1>2, <2>1, NoneFacts DEF FullInv, HeldInv, IdleInv
<1>6. OutputInv
  <2>1. Len(<<>>) <= EventBuffer
    BY Sizes, EmptyFacts, SMT, SMTT(20)
  <2>2. \A n, p : Ended(<<>>, n, p)
    BY EmptyFacts DEF Ended
  <2> QED
    BY <1>2, <2>1, <2>2, NoneFacts DEF OutputInv
<1> QED
  BY <1>3, <1>4, <1>5, <1>6 DEF PtyInv, QueueInv

TransferOp(fails, gone) ==
    \/ \E ok \in BOOLEAN : xf.at = "none" /\ Begin(ok)
    \/ UploadBreaks \/ UploadReads \/ UploadRefused \/ UploadAtEnd \/ UploadAnswered
    \/ PumpWrites \/ PumpWriteFails \/ PumpDone \/ WriteFileStream \/ GuestStores(fails) \/ GuestLost(gone)
    \/ GuestSends \/ StreamStopped \/ StreamOver(gone) \/ ReadFileStream \/ ExecStream \/ Exec

LEMMA TransferKept == ASSUME XferInv, NEW fails, NEW gone, TransferOp(fails, gone) PROVE XferInv'
<1>1. CASE UpInv
  <2>0. Upload
    BY <1>1 DEF UpInv
  <2>1. CASE \E ok \in BOOLEAN : xf.at = "none" /\ Begin(ok)
    BY <1>1, <2>1, UploadBegins DEF XferInv
  <2>2. CASE UploadBreaks \/ UploadReads \/ UploadRefused \/ UploadAtEnd \/ UploadAnswered
    BY <1>1, <2>2, UploadBreaksKept, UploadReadsKept, UploadRefusedKept, UploadAtEndKept, UploadAnsweredKept DEF XferInv
  <2>3. CASE PumpWrites \/ PumpWriteFails \/ PumpDone \/ WriteFileStream
    BY <1>1, <2>3, PumpWritesKept, PumpWriteFailsKept, PumpDoneKept, WriteFileStreamKept DEF XferInv
  <2>4. CASE GuestStores(fails) \/ GuestLost(gone)
    BY <1>1, <2>4, GuestStoresKept, GuestLostKept DEF XferInv
  <2>5. ~StreamStopped /\ ~GuestSends /\ ~StreamOver(gone)
    BY <2>0 DEF StreamStopped, GuestSends, StreamOver
  <2>6. ~ReadFileStream /\ ~ExecStream /\ ~Exec
    BY <2>0 DEF Upload, ReadFileStream, ExecStream, Exec
  <2> QED
    BY <2>1, <2>2, <2>3, <2>4, <2>5, <2>6 DEF TransferOp
<1>2. CASE OutInv
  <2>0. ~Upload /\ xf.pump = "off"
    BY <1>2 DEF OutInv, Counted
  <2>1. CASE \E ok \in BOOLEAN : xf.at = "none" /\ Begin(ok)
    BY <1>2, <2>1, OutBegins DEF XferInv
  <2>2. CASE GuestSends \/ ReadFileStream \/ ExecStream \/ Exec
    BY <1>2, <2>2, GuestSendsKept, ReadFileStreamKept, ExecStreamKept, ExecKept DEF XferInv
  <2>3. CASE StreamStopped \/ StreamOver(gone)
    BY <1>2, <2>3, StreamStoppedKept, StreamOverKept DEF XferInv
  <2>4. ~UploadBreaks /\ ~UploadReads /\ ~UploadRefused /\ ~UploadAtEnd /\ ~UploadAnswered
    BY <2>0 DEF UploadBreaks, UploadReads, UploadRefused, UploadAtEnd, UploadAnswered
  <2>5. ~PumpWrites /\ ~PumpWriteFails /\ ~PumpDone /\ ~WriteFileStream
    BY <2>0 DEF PumpWrites, PumpWriteFails, PumpDone, WriteFileStream
  <2>6. ~GuestStores(fails) /\ ~GuestLost(gone)
    BY <2>0 DEF GuestStores, GuestLost
  <2> QED
    BY <2>1, <2>2, <2>3, <2>4, <2>5, <2>6 DEF TransferOp
<1> QED
  BY <1>1, <1>2 DEF XferInv

LEMMA XferSame == ASSUME XferInv, UNCHANGED xf PROVE XferInv'
<1>1. ASSUME UpInv PROVE UpInv'
  BY <1>1 DEF UpInv, Upload, Carried, Acked
<1>2. ASSUME OutInv PROVE OutInv'
  BY <1>2 DEF OutInv, Upload, Passed, Counted, EndDue
<1> QED
  BY <1>1, <1>2 DEF XferInv

Fresh(kind, size) == xf = NewTransfer(kind, size)

LEMMA FreshTransfer == ASSUME NEW kind \in Kinds, NEW size \in Nat, Fresh(kind, size) PROVE XferInv
<1>1. kind \in Kinds /\ size \in Nat
  OBVIOUS
<1>2. xf = [kind |-> kind, size |-> size, at |-> "none", told |-> "none", moved |-> 0, wire |-> <<>>,
            ended |-> "no", pump |-> "off", resp |-> "none", reply |-> "none", body |-> <<>>, stored |-> "no", shown |-> <<>>]
  BY DEF Fresh, NewTransfer
<1>3. xf \in Transfer
  <2>1. "none" \in Ats /\ "none" \in Tolds /\ "no" \in Ends /\ "off" \in Pumps /\ "none" \in Resps /\ "none" \in Replies /\ "no" \in Stores
    BY DEF Ats, Tolds, Ends, Pumps, Resps, Replies, Stores
  <2>2. 0 \in Nat /\ <<>> \in Seq(Nat)
    BY SMT, SMTT(20)
  <2> QED
    BY <1>1, <1>2, <2>1, <2>2 DEF Transfer
<1>4. /\ xf.at = "none" /\ xf.told = "none" /\ xf.moved = 0 /\ xf.wire = <<>> /\ xf.ended = "no" /\ xf.size = size
      /\ xf.pump = "off" /\ xf.resp = "none" /\ xf.reply = "none" /\ xf.body = <<>> /\ xf.shown = <<>>
  BY <1>2
<1>5. Len(<<>>) = 0 /\ Len(<<>>) + Len(<<>>) = 0 /\ 0 <= size
  BY <1>1, SMT, SMTT(20)
<1>6. CASE Upload
  <2>1. Carried
    BY <1>4, <1>5, EmptyFacts DEF Carried, Numbered
  <2>2. Acked
    BY <1>4, SMT, SMTT(20) DEF Acked
  <2> QED
    BY <1>3, <1>6, <2>1, <2>2 DEF XferInv, UpInv
<1>7. CASE ~Upload
  <2>1. Passed
    BY <1>4, EmptyFacts DEF Passed, Numbered
  <2>2. ~EndDue
    BY <1>4 DEF EndDue
  <2>3. Counted
    BY <1>4, <1>5, <2>2 DEF Counted
  <2> QED
    BY <1>3, <1>7, <2>1, <2>3 DEF XferInv, OutInv
<1> QED
  BY <1>6, <1>7
=============================================================================
