------------------------------- MODULE FoEProofs -------------------------------
(***************************************************************************)
(* FoE on the mailbox of a slave implements FileTransfer: what a read that *)
(* returns EC_OK has read is the file, and after a write that returns      *)
(* EC_OK the file is on the slave, for all files, sizes of mailboxes and   *)
(* numbers of buffers, beside SoE and EoE; and the frames EoE receives     *)
(* come to the virtual network device whole and in order.                  *)
(***************************************************************************)
EXTENDS ServicesProofs

OneIf(c, m) == IF c THEN <<m>> ELSE <<>>

\* What is on its way to the slave, ...
Wrote   == OneIf(wrote # NULL, wrote)
Sending == OneIf(handler.does = "send", handler.with)
Out     == Wrote \o Sending \o send_queued

\* ... and to the thread in FoE, in their order, with messages of others that may get lost
\* or go elsewhere.
Waits == [k \in DOMAIN recv_pool["foe"] |-> data[recv_pool["foe"][k]]]
Full  == OneIf(full # NULL, full)
In    == Waits \o Full \o answers

Foes(s)   == {i \in DOMAIN s : s[i].pool = "foe"}
Is(s, op) == {i \in Foes(s) : s[i].op = op}

-----------------------------------------------------------------------------
FoeFields == {"pc", "call", "ret", "got", "pos", "nr", "last"}

ServerFields == {"mode", "file", "pos", "nr", "got"}

FoeTypes ==
    /\ DOMAIN foe = FoeFields
    /\ DOMAIN server = ServerFields
    /\ foe.pc \in {"idle", "read", "write", "packet", "sent"}
    /\ foe_calls \in Seq([op : {"read", "write"}, file : DOMAIN Files])
    /\ foe.call \in 0 .. Len(foe_calls)
    /\ foe.pc # "idle" => foe.call >= 1
    /\ foe.pc = "read" => Call.op = "read"
    /\ foe.pc \in {"write", "packet", "sent"} => Call.op = "write"

\* The parts of the invariant, with o for Out and q for In.  What is on its way to the
\* slave: a request belongs to where the thread is, and is the only one; nothing is on its
\* way back then.  Acknowledgements may be late.
Request(m) ==
    /\ m.op \in {"RRQ", "WRQ", "DATA", "ACK"}
    /\ m.op = "RRQ" => foe.pc = "read" /\ foe.got = <<>> /\ m.nr = Call.file
    /\ m.op = "WRQ" => foe.pc = "write"
    /\ m.op = "DATA" => /\ foe.pc = "sent" /\ server.mode = "write"
                        /\ m.nr = foe.nr /\ server.nr = foe.nr
                        /\ Len(server.got) \in 0 .. Len(Content)
                        /\ server.got = SubSeq(Content, 1, Len(server.got))
                        /\ m.payload = Part(Content, Len(server.got), room.read)
                        /\ foe.pos = Len(server.got) + Len(m.payload)
                        /\ foe.last = (Len(m.payload) < room.read)
    /\ m.op = "ACK" => m.nr \in Nat

OutOk(o, q) ==
    /\ \A i \in Foes(o) : Request(o[i])
    /\ \A i, j \in Foes(o) : o[i].op # "ACK" /\ o[j].op # "ACK" => i = j
    /\ \A i \in Foes(o) : o[i].op # "ACK" => Foes(q) = {}
    /\ foe.call = 0 => Foes(o) = {}
    /\ foe.call = 1 /\ Is(o, "RRQ") # {} => Is(o, "ACK") = {}

\* Acknowledgements of an earlier read can only end the server's part of it.
Between(o) == /\ foe.pc # "idle" \/ foe.call < Len(foe_calls)
              /\ foe.pc = "read" => Is(o, "RRQ") # {}

LeftOver(o) == Between(o) /\ server.mode = "read" =>
    \A i \in Is(o, "ACK") : o[i].nr = server.nr => Len(FoeSends(server).payload) < room.read

\* The server has got the first foe.pos units and waits for the next.
Waiting(nr) == /\ server.mode = "write" /\ server.nr = nr
               /\ foe.pos <= Len(Content) /\ server.got = SubSeq(Content, 1, foe.pos)

WriteOk ==
    /\ foe.pc = "write" => foe.nr = 0 /\ foe.pos = 0 /\ ~foe.last
    /\ foe.pc \in {"packet", "sent"} => foe.nr \in Nat /\ foe.pos \in Nat
    /\ foe.pc = "packet" => Waiting(foe.nr + 1) /\ foe.pos = foe.nr * room.read
    /\ foe.pc = "sent" => IF foe.last THEN foe.pos = Len(Content)
                          ELSE foe.pos = foe.nr * room.read /\ foe.pos < Len(Content)

\* What is on its way back.
ReadAnswers(q) ==
    /\ \A i \in Foes(q) : q[i].op \in {"DATA", "BUSY", "ERR"}
    /\ \A i \in Is(q, "BUSY"), j \in Foes(q) : i <= j
    /\ \A i \in Is(q, "ERR"), j \in Foes(q) : i = j
    /\ Is(q, "ERR") # {} => server.mode # "read"

InOk(q) ==
    /\ foe.pc = "packet" \/ (foe.pc = "idle" /\ foe.call < Len(foe_calls)) => Foes(q) = {}
    /\ foe.pc \in {"write", "sent"} => \A i, j \in Foes(q) : i = j
    /\ foe.pc = "write" => \A i \in Foes(q) : /\ q[i].op \in {"ACK", "ERR", "BUSY"}
                                              /\ q[i].op = "ACK" => Waiting(1)
    /\ foe.pc = "sent" => \A i \in Foes(q) :
          q[i].op = "ACK" /\ IF foe.last THEN store = Content ELSE Waiting(foe.nr + 1)
    /\ foe.pc = "read" => ReadAnswers(q)

\* A read: the thread has a packets, the server has sent s; those in between are on their
\* way, in their order, all of them when no message was lost.  In the first call there is
\* one of them at most.
Packet(m, a, s) == /\ m.nr \in a + 1 .. s
                   /\ (m.nr - 1) * room.read <= Len(Content)
                   /\ m.payload = Part(Content, (m.nr - 1) * room.read, room.read)

Chain(o, q, lost, a, s) ==
    /\ a <= s
    /\ a * room.read <= Len(Content) /\ foe.got = SubSeq(Content, 1, a * room.read)
    /\ \A i \in Is(q, "DATA") : Packet(q[i], a, s)
    /\ \A i, j \in Is(q, "DATA") : i < j => q[i].nr < q[j].nr
    /\ lost = 0 => \A n \in a + 1 .. s : \E i \in Is(q, "DATA") : q[i].nr = n
    /\ foe.call = 1 => s <= a + 1 /\ \A i \in Is(o, "ACK") : o[i].nr <= a
    /\ server.mode = "read" =>
          /\ s = server.nr /\ s >= 1 /\ server.file = Call.file
          /\ server.pos = (s - 1) * room.read /\ server.pos <= Len(Content)
    /\ server.mode # "write"

ReadOk(o, q, lost) ==
    foe.pc = "read" /\ Is(o, "RRQ") = {} => \E a, s \in Nat : Chain(o, q, lost, a, s)

GoodWith(o, q, lost) == OutOk(o, q) /\ LeftOver(o) /\ WriteOk /\ InOk(q) /\ ReadOk(o, q, lost)

Good == GoodWith(Out, In, losses)

-----------------------------------------------------------------------------
(* Messages that are put in and left out.                                  *)

\* t is s with m put in at p.
Inserted(s, p, m, t) ==
    /\ Len(s) \in Nat /\ DOMAIN s = 1 .. Len(s) /\ DOMAIN t = 1 .. Len(s) + 1
    /\ p \in 1 .. Len(s) + 1
    /\ t[p] = m
    /\ \A i \in 1 .. Len(s) : IF i < p THEN t[i] = s[i] ELSE t[i + 1] = s[i]

LEMMA InsertIs ==
    ASSUME NEW a, IsSeq(a), NEW b, IsSeq(b), NEW m
    PROVE  Inserted(a \o b, Len(a) + 1, m, (a \o <<m>>) \o b)
<1> DEFINE h == <<m>>
<1>1. IsSeq(h) /\ Len(h) = 1 /\ h[1] = m
  BY OneIs
<1> HIDE DEF h
<1> DEFINE s == a \o b
           c == a \o h
           t == c \o b
<1>2. Len(a) \in Nat /\ Len(b) \in Nat
  BY SeqLen
<1>3. IsSeq(s) /\ Len(s) = Len(a) + Len(b)
  BY CatIs
<1>4. IsSeq(c) /\ Len(c) = Len(a) + 1
  <2>1. IsSeq(c) /\ Len(c) = Len(a) + Len(h)
    BY <1>1, CatIs
  <2>2. QED
    BY <1>1, <2>1
<1>5. IsSeq(t) /\ Len(t) = Len(c) + Len(b)
  BY <1>4, CatIs
<1>6. Len(a) + 1 \in 1 .. Len(c) /\ c[Len(a) + 1] = m
  <2>1. Len(a) + 1 \in Len(a) + 1 .. Len(a) + Len(h) /\ (Len(a) + 1) - Len(a) = 1
    BY <1>1, <1>2
  <2>2. c[Len(a) + 1] = h[(Len(a) + 1) - Len(a)]
    BY <1>1, <2>1, CatIs
  <2>3. QED
    BY <1>1, <1>2, <1>4, <2>1, <2>2
<1>7. t[Len(a) + 1] = m
  BY <1>4, <1>6, CatIs
<1>8. ASSUME NEW i \in 1 .. Len(s)
      PROVE  IF i < Len(a) + 1 THEN t[i] = s[i] ELSE t[i + 1] = s[i]
  <2>1. CASE i < Len(a) + 1
    <3>1. i \in 1 .. Len(a) /\ i \in 1 .. Len(c)
      BY <1>2, <1>4, <2>1
    <3>2. s[i] = a[i] /\ c[i] = a[i] /\ t[i] = c[i]
      BY <1>1, <1>4, <3>1, CatIs
    <3>3. QED
      BY <2>1, <3>2
  <2>2. CASE ~(i < Len(a) + 1)
    <3>1. /\ i \in Len(a) + 1 .. Len(a) + Len(b)
          /\ i + 1 \in Len(c) + 1 .. Len(c) + Len(b)
          /\ (i + 1) - Len(c) = i - Len(a)
      BY <1>2, <1>3, <1>4, <2>2
    <3>2. s[i] = b[i - Len(a)] /\ t[i + 1] = b[(i + 1) - Len(c)]
      BY <1>4, <3>1, CatIs
    <3>3. QED
      BY <2>2, <3>1, <3>2
  <2>3. QED
    BY <2>1, <2>2
<1>9. /\ DOMAIN s = 1 .. Len(s) /\ DOMAIN t = 1 .. Len(s) + 1
      /\ Len(s) \in Nat /\ Len(a) + 1 \in 1 .. Len(s) + 1
  BY <1>2, <1>3, <1>4, <1>5, SeqLen
<1>10. Inserted(s, Len(a) + 1, m, t)
  <2> HIDE DEF s, t
  <2>1. QED
    BY <1>7, <1>8, <1>9 DEF Inserted
<1>11. QED
  BY <1>10 DEF h

\* Outside the places N of t, the messages of FoE in it are some of those in s outside M, in
\* their order ...
Kept(s, M, t, N) ==
    \E g : \A i \in Foes(t) \ N :
              /\ g[i] \in Foes(s) \ M /\ t[i] = s[g[i]]
              /\ \A j \in Foes(t) \ N : i < j => g[i] < g[j]

\* ... and all of those.
AllKept(s, M, t) == \A i \in Foes(s) \ M : \E j \in Foes(t) : t[j] = s[i]

LEMMA InsertKeeps ==
    ASSUME NEW s, NEW p, NEW m, NEW t, Inserted(s, p, m, t)
    PROVE  /\ Kept(s, {}, t, {p}) /\ AllKept(s, {}, t)
           /\ m.pool # "foe" => Kept(s, {}, t, {})
           /\ p \in DOMAIN t /\ t[p] = m
           /\ \A i \in DOMAIN t : t[i] = m \/ \E j \in DOMAIN s : t[i] = s[j]
<1> DEFINE g == [i \in DOMAIN t |-> IF i < p THEN i ELSE i - 1]
<1>1. ASSUME NEW i \in DOMAIN t, i # p
      PROVE  /\ g[i] \in DOMAIN s /\ t[i] = s[g[i]]
             /\ \A j \in DOMAIN t : j # p /\ i < j => g[i] < g[j]
  <2>1. CASE i < p
    <3>1. i \in 1 .. Len(s) /\ g[i] = i
      BY <1>1, <2>1 DEF Inserted
    <3>2. QED
      BY <2>1, <3>1 DEF Inserted
  <2>2. CASE ~(i < p)
    <3>1. i - 1 \in 1 .. Len(s) /\ g[i] = i - 1 /\ ~(i - 1 < p) /\ (i - 1) + 1 = i
      BY <1>1, <2>2 DEF Inserted
    <3>2. t[(i - 1) + 1] = s[i - 1]
      BY <3>1 DEF Inserted
    <3>3. QED
      BY <2>2, <3>1, <3>2 DEF Inserted
  <2>3. QED
    BY <2>1, <2>2
<1>2. \A i \in Foes(t) \ {p} : /\ g[i] \in Foes(s) \ {} /\ t[i] = s[g[i]]
                               /\ \A j \in Foes(t) \ {p} : i < j => g[i] < g[j]
  <2> HIDE DEF g
  <2>1. QED
    BY <1>1 DEF Foes
<1>3. Kept(s, {}, t, {p})
  <2> HIDE DEF g
  <2>1. QED
    BY <1>2 DEF Kept
<1>4. p \in DOMAIN t /\ t[p] = m
  BY DEF Inserted
<1>5. m.pool # "foe" => Foes(t) \ {p} = Foes(t) \ {}
  BY <1>4 DEF Foes
<1>6. AllKept(s, {}, t)
  <2>1. ASSUME NEW i \in Foes(s) PROVE \E j \in Foes(t) : t[j] = s[i]
    <3>1. i \in 1 .. Len(s) /\ Len(s) \in Nat /\ s[i].pool = "foe"
      BY DEF Foes, Inserted
    <3>2. \/ i \in DOMAIN t /\ t[i] = s[i]
          \/ i + 1 \in DOMAIN t /\ t[i + 1] = s[i]
      BY <3>1 DEF Inserted
    <3>3. QED
      BY <3>1, <3>2 DEF Foes
  <2>2. QED
    BY <2>1 DEF AllKept
<1>7. ASSUME NEW i \in DOMAIN t PROVE t[i] = m \/ \E j \in DOMAIN s : t[i] = s[j]
  <2> HIDE DEF g
  <2>1. QED
    BY <1>1, <1>4
<1>8. m.pool # "foe" => Kept(s, {}, t, {})
  BY <1>3, <1>5 DEF Kept
<1>9. QED
  BY <1>3, <1>4, <1>6, <1>7, <1>8

LEMMA RemoveKeeps ==
    ASSUME NEW s, NEW p, NEW m, NEW t, Inserted(t, p, m, s)
    PROVE  /\ Kept(s, {p}, t, {}) /\ AllKept(s, {p}, t)
           /\ m.pool # "foe" => AllKept(s, {}, t)
           /\ p \in DOMAIN s /\ s[p] = m
           /\ \A i \in DOMAIN t : \E j \in DOMAIN s : t[i] = s[j]
<1> DEFINE g == [i \in DOMAIN t |-> IF i < p THEN i ELSE i + 1]
<1>1. ASSUME NEW i \in DOMAIN t
      PROVE  /\ g[i] \in DOMAIN s /\ g[i] # p /\ t[i] = s[g[i]]
             /\ \A j \in DOMAIN t : i < j => g[i] < g[j]
  BY DEF Inserted
<1>2. \A i \in Foes(t) \ {} : /\ g[i] \in Foes(s) \ {p} /\ t[i] = s[g[i]]
                              /\ \A j \in Foes(t) \ {} : i < j => g[i] < g[j]
  <2> HIDE DEF g
  <2>1. QED
    BY <1>1 DEF Foes
<1>3. Kept(s, {p}, t, {})
  <2> HIDE DEF g
  <2>1. QED
    BY <1>2 DEF Kept
<1>4. p \in DOMAIN s /\ s[p] = m
  BY DEF Inserted
<1>5. AllKept(s, {p}, t)
  <2>1. ASSUME NEW i \in Foes(s), i # p PROVE \E j \in Foes(t) : t[j] = s[i]
    <3>1. i \in 1 .. Len(t) + 1 /\ Len(t) \in Nat /\ s[i].pool = "foe" /\ p \in 1 .. Len(t) + 1
      BY DEF Foes, Inserted
    <3>2. CASE i < p
      <4>1. i \in DOMAIN t /\ t[i] = s[i]
        BY <3>1, <3>2 DEF Inserted
      <4>2. QED
        BY <3>1, <4>1 DEF Foes
    <3>3. CASE ~(i < p)
      <4>1. i - 1 \in 1 .. Len(t) /\ ~(i - 1 < p) /\ (i - 1) + 1 = i
        BY <2>1, <3>1, <3>3
      <4>2. s[(i - 1) + 1] = t[i - 1] /\ i - 1 \in DOMAIN t
        BY <4>1 DEF Inserted
      <4>3. QED
        BY <3>1, <4>1, <4>2 DEF Foes
    <3>4. QED
      BY <3>2, <3>3
  <2>2. QED
    BY <2>1 DEF AllKept
<1>6. m.pool # "foe" => Foes(s) \ {p} = Foes(s) \ {}
  BY <1>4 DEF Foes
<1>7. m.pool # "foe" => AllKept(s, {}, t)
  BY <1>5, <1>6 DEF AllKept
<1>8. \A i \in DOMAIN t : \E j \in DOMAIN s : t[i] = s[j]
  <2> HIDE DEF g
  <2>1. QED
    BY <1>1
<1>9. QED
  BY <1>3, <1>4, <1>5, <1>7, <1>8

LEMMA SameKept ==
    ASSUME NEW s, IsSeq(s)
    PROVE  Kept(s, {}, s, {}) /\ AllKept(s, {}, s)
<1> DEFINE g == [i \in DOMAIN s |-> i]
<1>1. \A i \in Foes(s) \ {} : /\ g[i] \in Foes(s) \ {} /\ s[i] = s[g[i]]
                              /\ \A j \in Foes(s) \ {} : i < j => g[i] < g[j]
  BY DEF Foes
<1> HIDE DEF g
<1>2. Kept(s, {}, s, {})
  BY <1>1 DEF Kept
<1>3. QED
  BY <1>2 DEF AllKept

LEMMA JoinKeeps ==
    ASSUME NEW s, IsSeq(s), NEW u, IsSeq(u)
    PROVE  /\ Kept(s, {}, s \o u, Len(s) + 1 .. Len(s) + Len(u)) /\ AllKept(s, {}, s \o u)
           /\ (\A i \in DOMAIN u : u[i].pool # "foe") => Kept(s, {}, s \o u, {})
           /\ DOMAIN (s \o u) = 1 .. Len(s) + Len(u)
<1> DEFINE t == s \o u
           N == Len(s) + 1 .. Len(s) + Len(u)
           g == [i \in DOMAIN s |-> i]
<1>1. Len(s) \in Nat /\ DOMAIN s = 1 .. Len(s) /\ Len(u) \in Nat /\ DOMAIN u = 1 .. Len(u)
  BY SeqLen
<1>2. IsSeq(t) /\ Len(t) = Len(s) + Len(u)
  BY CatIs
<1>3. DOMAIN t = 1 .. Len(s) + Len(u)
  BY <1>2, SeqLen
<1>4. ASSUME NEW i \in DOMAIN s PROVE i \in DOMAIN t /\ t[i] = s[i]
  <2>1. t[i] = s[i]
    BY <1>1, CatIs
  <2>2. QED
    BY <1>1, <1>3, <2>1
<1>5. ASSUME NEW i \in N PROVE i - Len(s) \in DOMAIN u /\ t[i] = u[i - Len(s)]
  <2>1. t[i] = u[i - Len(s)]
    BY <1>1, CatIs
  <2>2. QED
    BY <1>1, <2>1
<1>6. DOMAIN t \ N = DOMAIN s
  BY <1>1, <1>3
<1> HIDE DEF t, N
<1>7. \A i \in Foes(t) \ N : /\ g[i] \in Foes(s) \ {} /\ t[i] = s[g[i]]
                             /\ \A j \in Foes(t) \ N : i < j => g[i] < g[j]
  BY <1>4, <1>6 DEF Foes
<1> HIDE DEF g
<1>8. Kept(s, {}, t, N)
  BY <1>7 DEF Kept
<1>9. AllKept(s, {}, t)
  BY <1>4 DEF AllKept, Foes
<1>10. (\A i \in DOMAIN u : u[i].pool # "foe") => Foes(t) \ N = Foes(t) \ {}
  BY <1>5 DEF Foes
<1>11. QED
  BY <1>3, <1>8, <1>9, <1>10 DEF Kept, t, N

\* Three queues in a row.
LEMMA RowInserts ==
    ASSUME NEW a, IsSeq(a), NEW b, IsSeq(b), NEW c, IsSeq(c), NEW m
    PROVE  /\ Inserted((a \o b) \o c, Len(a \o b) + 1, m, (a \o b) \o (<<m>> \o c))
           /\ Inserted((a \o b) \o c, Len((a \o b) \o c) + 1, m, (a \o b) \o Append(c, m))
           /\ Inserted((<<>> \o b) \o c, 1, m, (<<m>> \o b) \o c)
           /\ Inserted((a \o <<>>) \o c, Len(a) + 1, m, (a \o <<m>>) \o c)
<1> DEFINE h == <<m>>
           e == <<>>
           ab == a \o b
           bc == b \o c
           s  == ab \o c
<1>1. IsSeq(h) /\ IsSeq(e) /\ Len(e) = 0
  BY OneIs, NoneIs
<1>2. IsSeq(ab) /\ IsSeq(bc)
  BY CatIs
<1>3. Inserted(ab \o c, Len(ab) + 1, m, ab \o (h \o c))
  <2>1. Inserted(ab \o c, Len(ab) + 1, m, (ab \o h) \o c)
    BY <1>2, InsertIs
  <2>2. (ab \o h) \o c = ab \o (h \o c)
    <3>1. IsSeq(ab) /\ IsSeq(h) /\ IsSeq(c)
      BY <1>1, <1>2
    <3> HIDE DEF h, ab, e, bc, s
    <3>2. QED
      BY <3>1, CatAssoc, SMTT(30)
  <2>3. QED
    BY <2>1, <2>2
<1>4. Inserted(s, Len(s) + 1, m, ab \o Append(c, m))
  <2>1. IsSeq(s)
    BY <1>2, CatIs
  <2>2. Inserted(s \o e, Len(s) + 1, m, (s \o h) \o e)
    <3> HIDE DEF s, e
    <3>1. QED
      BY <1>1, <2>1, InsertIs DEF h
  <2>3. s \o e = s /\ (s \o h) \o e = s \o h
    <3>1. IsSeq(s \o h)
      BY <1>1, <2>1, CatIs
    <3>2. QED
      BY <2>1, <3>1, CatEmpty
  <2>4. s \o h = ab \o (c \o h)
    <3>1. IsSeq(ab) /\ IsSeq(h) /\ IsSeq(c)
      BY <1>1, <1>2
    <3> HIDE DEF h, ab, e, bc, s
    <3>2. QED
      BY <3>1, CatAssoc, SMTT(30) DEF s
  <2>5. Append(c, m) = c \o h
    BY AppendIs
  <2>6. QED
    BY <2>2, <2>3, <2>4, <2>5
<1>5. Inserted((e \o b) \o c, 1, m, (h \o b) \o c)
  <2>1. Inserted(e \o bc, Len(e) + 1, m, (e \o h) \o bc)
    <3> HIDE DEF bc, e
    <3>1. QED
      BY <1>1, <1>2, InsertIs DEF h
  <2>2. e \o bc = bc /\ e \o h = h /\ e \o b = b
    BY <1>1, <1>2, CatEmpty
  <2>3. (h \o b) \o c = h \o bc
    <3>1. IsSeq(h)
      BY <1>1
    <3> HIDE DEF h
    <3>2. (h \o b) \o c = h \o (b \o c)
      BY <3>1, CatAssoc, SMTT(30)
    <3> QED  BY <3>2
  <2>4. Len(e) + 1 = 1
    BY <1>1
  <2> HIDE DEF e, h
  <2>5. (e \o b) \o c = bc
    BY <2>2
  <2>6. QED
    BY <2>1, <2>2, <2>3, <2>4, <2>5
<1>6. Inserted((a \o e) \o c, Len(a) + 1, m, (a \o h) \o c)
  <2>1. Inserted(a \o c, Len(a) + 1, m, (a \o h) \o c)
    BY InsertIs
  <2>2. a \o e = a
    BY CatEmpty
  <2> HIDE DEF e
  <2>3. QED
    BY <2>1, <2>2
<1>7. QED
  BY <1>3, <1>4, <1>5, <1>6

LEMMA CatFirst ==
    ASSUME NEW a, NEW f, IsSeq(f), NEW r, IsSeq(r), a = f \o r, NEW b, IsSeq(b)
    PROVE  a \o b = f \o (r \o b)
BY CatAssoc

LEMMA RowShifts ==
    ASSUME NEW a, IsSeq(a), NEW b, IsSeq(b), NEW c, IsSeq(c), NEW u, IsSeq(u), NEW m
    PROVE  /\ c # <<>> => (a \o <<Head(c)>>) \o Tail(c) = (a \o <<>>) \o c
           /\ (a \o <<m>>) \o c = (a \o <<>>) \o (<<m>> \o c)
           /\ (Append(a, m) \o <<>>) \o c = (a \o <<m>>) \o c
           /\ (<<m>> \o <<>>) \o c = (<<>> \o <<m>>) \o c
           /\ (a \o b) \o (c \o u) = ((a \o b) \o c) \o u
           /\ a # <<>> => Inserted((Tail(a) \o b) \o c, 1, Head(a), (a \o b) \o c)
<1> DEFINE h == <<m>>
           e == <<>>
<1>1. IsSeq(h) /\ IsSeq(e)
  BY OneIs, NoneIs
<1>2. a \o e = a /\ h \o e = h /\ e \o h = h
  BY <1>1, CatEmpty
<1>3. c # <<>> => (a \o <<Head(c)>>) \o Tail(c) = (a \o e) \o c
  <2> SUFFICES ASSUME c # <<>> PROVE (a \o <<Head(c)>>) \o Tail(c) = (a \o e) \o c
    OBVIOUS
  <2> DEFINE f == <<Head(c)>>
             r == Tail(c)
  <2>1. IsSeq(f) /\ IsSeq(r) /\ c = f \o r
    BY OneIs, HeadTailIs
  <2> HIDE DEF f, r, e
  <2>2. (a \o f) \o r = a \o (f \o r)
    BY <2>1, CatAssoc, SMTT(30)
  <2>3. QED
    BY <1>2, <2>1, <2>2 DEF f, r
<1>4. (a \o h) \o c = (a \o e) \o (h \o c)
  <2> HIDE DEF h, e
  <2>1. (a \o h) \o c = a \o (h \o c)
    BY <1>1, CatAssoc, SMTT(30)
  <2>2. QED
    BY <1>2, <2>1
<1>5. (Append(a, m) \o e) \o c = (a \o h) \o c
  <2>1. Append(a, m) = a \o h /\ IsSeq(a \o h)
    BY <1>1, AppendIs, CatIs
  <2>2. (a \o h) \o e = a \o h
    BY <2>1, CatEmpty
  <2>3. QED
    BY <2>1, <2>2
<1>6. (h \o e) \o c = (e \o h) \o c
  <2> HIDE DEF h, e
  <2>1. QED
    BY <1>2
<1>7. (a \o b) \o (c \o u) = ((a \o b) \o c) \o u
  <2>1. IsSeq(a \o b)
    BY CatIs
  <2> DEFINE ab == a \o b
  <2>2. IsSeq(ab)
    BY <2>1
  <2> HIDE DEF ab, h, e
  <2>3. (ab \o c) \o u = ab \o (c \o u)
    BY <2>2, CatAssoc, SMTT(30)
  <2>4. QED
    BY <2>3 DEF ab
<1>8. a # <<>> => Inserted((Tail(a) \o b) \o c, 1, Head(a), (a \o b) \o c)
  <2> SUFFICES ASSUME a # <<>> PROVE Inserted((Tail(a) \o b) \o c, 1, Head(a), (a \o b) \o c)
    OBVIOUS
  <2> DEFINE f == <<Head(a)>>
             r == Tail(a)
             v == r \o b
  <2>1. IsSeq(f) /\ IsSeq(r) /\ a = f \o r /\ IsSeq(v)
    BY OneIs, HeadTailIs, CatIs
  <2>2. Inserted((e \o v) \o c, 1, Head(a), (f \o v) \o c)
    <3> HIDE DEF v
    <3>1. QED
      BY <2>1, RowInserts
  <2>3. e \o v = v
    BY <2>1, CatEmpty
  <2>4. a \o b = f \o v
    <3>1. IsSeq(f) /\ IsSeq(r) /\ a = f \o r
      BY <2>1
    <3> HIDE DEF f, r, v, h, e
    <3>2. QED
      BY <3>1, CatFirst DEF v
  <2> HIDE DEF e, f, v
  <2>5. QED
    BY <2>2, <2>3, <2>4 DEF v
<1>9. QED
  BY <1>3, <1>4, <1>5, <1>6, <1>7, <1>8

-----------------------------------------------------------------------------
(* The mailbox.                                                            *)

\* NULL is no message, no call and no result.
NullIsNone ==
    /\ \A pool, op, nr, payload, more : Message(pool, op, nr, payload, more) # NULL
    /\ \A op, file : [op |-> op, file |-> file] # NULL
    /\ \A ok, got, of : [ok |-> ok, data |-> got, of |-> of] # NULL
    /\ NULL \notin {"ok", "no_buffer", "refused", "no_ack", "timeout"}

FoeOps == {"RRQ", "WRQ", "DATA", "ACK"}

\* A message for the slave; a request of SoE belongs to a call.
Proper(m) == /\ m # NULL
             /\ m.pool = "foe" => m.op \in FoeOps
             /\ m.pool = "soe" /\ m.op = "READ_REQ" => m.nr \in DOMAIN soe_calls

OutPort == /\ IsSeq(send_queued) /\ \A i \in DOMAIN send_queued : Proper(send_queued[i])
           /\ handler.does = "send" => Proper(handler.with)
           /\ wrote # NULL => Proper(wrote)

InPort == /\ IsSeq(answers) /\ \A i \in DOMAIN answers : answers[i] # NULL
          /\ DOMAIN data = Buffers
          /\ \A k \in DOMAIN recv_pool["foe"] : data[recv_pool["foe"][k]].pool = "foe"
          /\ losses \in Nat

PortOk == RecvInv /\ OutPort /\ InPort

\* What the slave's answers for SoE and EoE are made of.
OthersOk == /\ IsSeq(soe_calls) /\ \A i \in DOMAIN soe_calls : IsSeq(soe_calls[i].value)
            /\ "call" \in DOMAIN soe /\ soe.call \in 0 .. Len(soe_calls)
            /\ {"frames", "sent"} \subseteq DOMAIN node /\ node.sent \in Nat
            /\ IsSeq(node.frames) /\ \A i \in DOMAIN node.frames : IsSeq(node.frames[i])
            /\ room.read \in Nat \ {0}

\* A step leaves the messages of FoE on their way, apart from those that get lost.
OutKeeps == Kept(Out, {}, Out', {}) /\ AllKept(Out, {}, Out')
InKeeps  == /\ Kept(In, {}, In', {}) /\ losses' >= losses
            /\ losses' = losses => AllKept(In, {}, In')

LEMMA OneIfIs ==
    ASSUME NEW c \in BOOLEAN, NEW m
    PROVE  IsSeq(OneIf(c, m)) /\ (c => OneIf(c, m) = <<m>>) /\ (~c => OneIf(c, m) = <<>>)
<1>1. (c => OneIf(c, m) = <<m>>) /\ (~c => OneIf(c, m) = <<>>)
  BY DEF OneIf
<1>2. IsSeq(OneIf(c, m))
  BY <1>1, OneIs, NoneIs, Zenon
<1>3. QED
  BY <1>1, <1>2

LEMMA OutIs ==
    /\ IsSeq(Wrote) /\ IsSeq(Sending)
    /\ wrote = NULL => Wrote = <<>>
    /\ wrote # NULL => Wrote = <<wrote>>
    /\ handler.does = "send" => Sending = <<handler.with>>
    /\ handler.does # "send" => Sending = <<>>
BY OneIfIs DEF Wrote, Sending

LEMMA OutIsNext ==
    /\ IsSeq(Wrote') /\ IsSeq(Sending')
    /\ wrote' = NULL => Wrote' = <<>>
    /\ wrote' # NULL => Wrote' = <<wrote'>>
    /\ handler'.does = "send" => Sending' = <<handler'.with>>
    /\ handler'.does # "send" => Sending' = <<>>
BY OneIfIs DEF Wrote, Sending

LEMMA InIs ==
    ASSUME RecvInv
    PROVE  /\ IsSeq(Waits) /\ IsSeq(Full)
           /\ recv_pool["foe"] \in Seq(Buffers)
           /\ DOMAIN Waits = DOMAIN recv_pool["foe"] /\ Len(Waits) = Len(recv_pool["foe"])
           /\ \A k \in DOMAIN Waits : Waits[k] = data[recv_pool["foe"][k]]
           /\ full = NULL => Full = <<>>
           /\ full # NULL => Full = <<full>>
<1> DEFINE pool == recv_pool["foe"]
           S == {data[pool[k]] : k \in DOMAIN pool}
<1>1. pool \in Seq(Buffers)
  BY DEF RecvInv, Pools
<1>2. Len(pool) \in Nat /\ DOMAIN pool = 1 .. Len(pool)
  BY <1>1
<1>3. Waits \in [1 .. Len(pool) -> S]
  BY <1>2 DEF Waits
<1> HIDE DEF S
<1>4. Waits \in Seq(S) /\ Len(Waits) = Len(pool)
  BY <1>2, <1>3
<1>5. IsSeq(Waits)
  BY <1>4, Zenon DEF IsSeq
<1>6. IsSeq(Full) /\ (full = NULL => Full = <<>>) /\ (full # NULL => Full = <<full>>)
  BY OneIfIs DEF Full
<1>7. QED
  BY <1>1, <1>2, <1>4, <1>5, <1>6 DEF Waits

\* A message that is queued comes to those on their way, ...
LEMMA SendInserts ==
    ASSUME OutPort, NEW m, SendHead(m) \/ SendTail(m), UNCHANGED <<wrote, handler>>
    PROVE  /\ \E p : Inserted(Out, p, m, Out')
           /\ IsSeq(send_queued')
           /\ \A i \in DOMAIN send_queued' :
                 send_queued'[i] = m \/ \E j \in DOMAIN send_queued : send_queued'[i] = send_queued[j]
<1> DEFINE a == Wrote
           b == Sending
           c == send_queued
           h == <<m>>
<1>1. IsSeq(a) /\ IsSeq(b) /\ IsSeq(c) /\ a' = a /\ b' = b
  BY OutIs DEF OutPort, Wrote, Sending
<1>2. IsSeq(h) /\ Len(h) = 1 /\ h[1] = m
  BY OneIs
<1>3. CASE SendHead(m)
  <2>1. send_queued' = h \o c
    BY <1>3 DEF SendHead
  <2> HIDE DEF a, b, c, h
  <2>2. Inserted((a \o b) \o c, Len(a \o b) + 1, m, (a \o b) \o (h \o c))
    BY <1>1, RowInserts DEF h
  <2>3. Inserted(Out, Len(a \o b) + 1, m, Out')
    BY <1>1, <2>1, <2>2 DEF Out, a, b, c
  <2>4. IsSeq(h \o c) /\ Len(h \o c) = 1 + Len(c) /\ Len(c) \in Nat
    <3>1. IsSeq(h \o c) /\ Len(h \o c) = Len(h) + Len(c)
      BY <1>1, <1>2, CatIs
    <3>2. Len(c) \in Nat
      BY <1>1, SeqLen
    <3>3. QED
      BY <1>2, <3>1, <3>2
  <2>5. ASSUME NEW i \in DOMAIN (h \o c)
        PROVE  (h \o c)[i] = m \/ \E j \in DOMAIN c : (h \o c)[i] = c[j]
    <3>1. i \in 1 .. 1 + Len(c) /\ DOMAIN c = 1 .. Len(c)
      BY <1>1, <2>4, <2>5, SeqLen
    <3>2. CASE i = 1
      <4>1. i \in 1 .. Len(h)
        BY <1>2, <3>2
      <4>2. QED
        BY <1>1, <1>2, <3>2, <4>1, CatIs
    <3>3. CASE i # 1
      <4>1. i \in Len(h) + 1 .. Len(h) + Len(c) /\ i - Len(h) \in DOMAIN c
        BY <1>2, <2>4, <3>1, <3>3
      <4>2. (h \o c)[i] = c[i - Len(h)]
        BY <1>1, <1>2, <4>1, CatIs
      <4>3. QED
        BY <4>1, <4>2
    <3>4. QED
      BY <3>2, <3>3
  <2>6. QED
    BY <2>1, <2>3, <2>4, <2>5 DEF c
<1>4. CASE SendTail(m)
  <2>1. send_queued' = Append(c, m) /\ Append(c, m) = c \o h
    BY <1>1, <1>4, AppendIs DEF SendTail
  <2> HIDE DEF a, b, c, h
  <2>2. Inserted((a \o b) \o c, Len((a \o b) \o c) + 1, m, (a \o b) \o Append(c, m))
    BY <1>1, RowInserts
  <2>3. Inserted(Out, Len((a \o b) \o c) + 1, m, Out')
    BY <1>1, <2>1, <2>2 DEF Out, a, b, c
  <2>4. IsSeq(c \o h) /\ Len(c \o h) = Len(c) + 1 /\ Len(c) \in Nat
    <3>1. IsSeq(c \o h) /\ Len(c \o h) = Len(c) + Len(h)
      BY <1>1, <1>2, CatIs
    <3>2. Len(c) \in Nat
      BY <1>1, SeqLen
    <3>3. QED
      BY <1>2, <3>1, <3>2
  <2>5. ASSUME NEW i \in DOMAIN (c \o h)
        PROVE  (c \o h)[i] = m \/ \E j \in DOMAIN c : (c \o h)[i] = c[j]
    <3>1. i \in 1 .. Len(c) + 1 /\ DOMAIN c = 1 .. Len(c)
      BY <1>1, <2>4, <2>5, SeqLen
    <3>2. CASE i <= Len(c)
      <4>1. i \in 1 .. Len(c)
        BY <2>4, <3>1, <3>2
      <4>2. (c \o h)[i] = c[i]
        BY <1>1, <1>2, <4>1, CatIs
      <4>3. QED
        BY <3>1, <4>1, <4>2
    <3>3. CASE i > Len(c)
      <4>1. i \in Len(c) + 1 .. Len(c) + Len(h) /\ i - Len(c) = 1
        BY <1>2, <2>4, <3>1, <3>3
      <4>2. (c \o h)[i] = h[i - Len(c)]
        BY <1>1, <1>2, <4>1, CatIs
      <4>3. QED
        BY <1>2, <4>1, <4>2
    <3>4. QED
      BY <2>4, <3>1, <3>2, <3>3
  <2>6. QED
    BY <2>1, <2>3, <2>4, <2>5 DEF c
<1>5. QED
  BY <1>3, <1>4

\* ... and the handler takes them in their order, and puts one back in front.
LEMMA HandlerOut ==
    ASSUME OutPort, HandlerPop \/ HandlerSend \/ HandlerRequeue
    PROVE  Out' = Out /\ IsSeq(send_queued')
<1> DEFINE a == Wrote
           c == send_queued
           e == <<>>
<1>1. IsSeq(a) /\ IsSeq(c) /\ IsSeq(e)
  BY OutIs, NoneIs DEF OutPort
<1>2. CASE HandlerPop
  <2>1. /\ c # <<>> /\ c' = Tail(c) /\ a' = a
        /\ Sending = e /\ Sending' = <<Head(c)>>
    BY <1>2, OutIs, OutIsNext DEF HandlerPop, Idle, slave, Wrote
  <2> HIDE DEF a, c, e
  <2>2. (a \o <<Head(c)>>) \o Tail(c) = (a \o e) \o c
    BY <1>1, <2>1, RowShifts DEF e
  <2>3. IsSeq(Tail(c))
    BY <1>1, <2>1, HeadTailIs
  <2>4. QED
    BY <2>1, <2>2, <2>3 DEF Out, a, c
<1> DEFINE h == <<handler.with>>
<1>3. CASE HandlerSend
  <2>1. /\ handler.does = "send" /\ wrote = NULL /\ wrote' = handler.with /\ handler.with # NULL
        /\ handler'.does # "send" /\ c' = c
    BY <1>3 DEF HandlerSend, Idle, OutPort, Proper
  <2>2. Sending = h /\ Sending' = e /\ Wrote = e /\ Wrote' = h
    BY <2>1, OutIs, OutIsNext
  <2>3. (h \o e) \o c = (e \o h) \o c
    BY <1>1, RowShifts
  <2> HIDE DEF h, c, e
  <2>4. QED
    BY <1>1, <2>1, <2>2, <2>3 DEF Out, c
<1>4. CASE HandlerRequeue
  <2>1. /\ handler.does = "send" /\ a' = a
        /\ handler'.does # "send" /\ c' = h \o c
    BY <1>4 DEF HandlerRequeue, Idle, slave, Wrote
  <2>2. Sending = h /\ Sending' = e
    BY <2>1, OutIs, OutIsNext
  <2>3. IsSeq(h)
    BY OneIs
  <2>4. (a \o h) \o c = (a \o e) \o (h \o c)
    <3> HIDE DEF a, c
    <3>1. QED
      BY <1>1, RowShifts
  <2> HIDE DEF h, c, e, a
  <2>5. IsSeq(h \o c)
    BY <1>1, <2>3, CatIs
  <2>6. QED
    BY <2>1, <2>2, <2>4, <2>5 DEF Out, c, a
<1>5. QED
  BY <1>2, <1>3, <1>4

\* The slave takes the first, and says something to it.
LEMMA SlaveTakesFirst ==
    ASSUME OutPort, InPort, RecvInv, wrote # NULL, NEW replies, IsSeq(replies), SlaveTakes(replies)
    PROVE  Inserted(Out', 1, wrote, Out) /\ In' = In \o replies
<1> DEFINE b == Sending
           c == send_queued
           h == <<wrote>>
           e == <<>>
<1>1. /\ IsSeq(b) /\ IsSeq(c) /\ b' = b /\ c' = c
      /\ Wrote = h /\ Wrote' = e
  BY OutIs, OutIsNext DEF OutPort, SlaveTakes, sends, recvs, Sending
<1>2. Inserted((e \o b) \o c, 1, wrote, (h \o b) \o c)
  <2> HIDE DEF b, c
  <2>1. QED
    BY <1>1, RowInserts
<1>3. Inserted(Out', 1, wrote, Out)
  <2> HIDE DEF h, e
  <2>1. QED
    BY <1>1, <1>2 DEF Out
<1> DEFINE d == Waits \o Full
<1>4. answers = e /\ answers' = replies /\ d' = d
  BY DEF SlaveTakes, recvs, Waits, Full
<1>5. IsSeq(d)
  <2>1. IsSeq(Waits) /\ IsSeq(Full)
    BY InIs
  <2>2. QED
    BY <2>1, CatIs
<1>6. d \o e = d
  <2> HIDE DEF d
  <2>1. QED
    BY <1>5, CatEmpty
<1> HIDE DEF e, d
<1>7. In = d \o e /\ In' = d \o replies
  BY <1>4 DEF In, d
<1>8. QED
  BY <1>3, <1>6, <1>7
LEMMA InIsNext ==
    /\ full' = NULL => Full' = <<>>
    /\ full' # NULL => Full' = <<full'>>
BY OneIfIs DEF Full

LEMMA OnceApart ==
    ASSUME NEW P, NEW S, Once(P, S), NEW x \in DOMAIN P, NEW y \in DOMAIN P, x # y,
           NEW j \in DOMAIN P[x], NEW k \in DOMAIN P[y]
    PROVE  P[x][j] # P[y][k]
BY Zenon DEF Once

\* No buffer of a service's pool is free, or with the handler.
LEMMA PoolApart ==
    ASSUME RecvInv, NEW p \in Pools
    PROVE  /\ recv_free \in Seq(Buffers) /\ recv_pool[p] \in Seq(Buffers)
           /\ recv_free # <<>> =>
                 Head(recv_free) \in Buffers
                 /\ \A k \in DOMAIN recv_pool[p] : recv_pool[p][k] # Head(recv_free)
           /\ handler.does = "receive" =>
                 handler.with \in Buffers
                 /\ \A k \in DOMAIN recv_pool[p] : recv_pool[p][k] # handler.with
<1>1. /\ recv_free \in Seq(Buffers) /\ recv_pool[p] \in Seq(Buffers)
      /\ Place[p] = recv_pool[p] /\ p \in Places /\ p # "free" /\ p # "hand"
  BY PlaceIs DEF RecvInv, Places, Pools
<1>2. ASSUME recv_free # <<>>, NEW k \in DOMAIN recv_pool[p]
      PROVE  Head(recv_free) \in Buffers /\ recv_pool[p][k] # Head(recv_free)
  <2>1. 1 \in DOMAIN recv_free /\ Head(recv_free) = recv_free[1] /\ recv_free[1] \in Buffers
    BY <1>1, <1>2
  <2>2. Place["free"] = recv_free /\ "free" \in Places
    BY PlaceIs DEF Places
  <2>3. Place[p][k] # Place["free"][1]
    <3>1. DOMAIN Place = Places /\ k \in DOMAIN Place[p] /\ 1 \in DOMAIN Place["free"]
      BY <1>1, <1>2, <2>1, <2>2, PlaceIs
    <3>2. Once(Place, Buffers)
      BY DEF RecvInv
    <3>3. QED
      BY <1>1, <2>2, <3>1, <3>2, OnceApart
  <2>4. QED
    BY <1>1, <2>1, <2>2, <2>3
<1>3. ASSUME handler.does = "receive", NEW k \in DOMAIN recv_pool[p]
      PROVE  recv_pool[p][k] # handler.with
  <2>1. Place["hand"] = <<handler.with>> /\ "hand" \in Places
    BY <1>3, PlaceIs DEF Places
  <2>2. 1 \in DOMAIN Place["hand"] /\ Place["hand"][1] = handler.with
    BY <2>1, OneIs
  <2>3. Place[p][k] # Place["hand"][1]
    <3>1. DOMAIN Place = Places /\ k \in DOMAIN Place[p] /\ 1 \in DOMAIN Place["hand"]
      BY <1>1, <1>3, <2>1, <2>2, PlaceIs
    <3>2. Once(Place, Buffers)
      BY DEF RecvInv
    <3>3. QED
      BY <1>1, <2>1, <3>1, <3>2, OnceApart
  <2>4. QED
    BY <1>1, <2>2, <2>3
<1>4. recv_free # <<>> => Head(recv_free) \in Buffers
  BY <1>1
<1>5. QED
  BY <1>1, <1>2, <1>3, <1>4 DEF RecvInv

\* Whoever takes a buffer from another pool, or the handler that takes a free one, leaves
\* what FoE waits for.
LEMMA WaitsSame ==
    ASSUME RecvInv, InPort, recv_pool'["foe"] = recv_pool["foe"], DOMAIN data' = DOMAIN data,
           \A k \in DOMAIN recv_pool["foe"] : data'[recv_pool["foe"][k]] = data[recv_pool["foe"][k]]
    PROVE  /\ Waits' = Waits
           /\ \A k \in DOMAIN recv_pool'["foe"] : data'[recv_pool'["foe"][k]].pool = "foe"
BY DEF Waits, InPort

LEMMA HandlerReceives ==
    ASSUME RecvInv, InPort, HandlerBuffer
    PROVE  In' = In /\ InPort'
<1>1. /\ recv_free # <<>> /\ data' = [data EXCEPT ![Head(recv_free)] = Zeroed]
      /\ UNCHANGED <<recv_pool, slave, losses>>
  BY DEF HandlerBuffer
<1>2. Waits' = Waits /\ \A k \in DOMAIN recv_pool'["foe"] : data'[recv_pool'["foe"][k]].pool = "foe"
  BY <1>1, PoolApart, WaitsSame DEF InPort, Pools
<1>3. UNCHANGED <<answers, full>> /\ DOMAIN data' = Buffers
  BY <1>1 DEF slave, InPort
<1>4. Full' = Full
  BY <1>3 DEF Full
<1>5. In' = In
  BY <1>2, <1>3, <1>4 DEF In
<1>6. QED
  BY <1>1, <1>2, <1>3, <1>5 DEF InPort

LEMMA SameSequence ==
    ASSUME NEW s, IsSeq(s), s' = s
    PROVE  IsSeq(s')
OBVIOUS

\* A message of FoE the handler has read waits behind those that came before; another one
\* goes elsewhere, ...
LEMMA HandlerReads ==
    ASSUME RecvInv, InPort, HandlerRead
    PROVE  /\ InPort'
           /\ losses' = losses
           /\ full.pool = "foe" => In' = In
           /\ full.pool # "foe" => \E p : Inserted(In', p, full, In)
<1> DEFINE a == Waits
           c == answers
           e == <<>>
           h == <<full>>
           pool == recv_pool["foe"]
           b == handler.with
<1>1. /\ handler.does = "receive" /\ full # NULL /\ full' = NULL
      /\ data' = [data EXCEPT ![b] = full]
      /\ UNCHANGED <<answers, losses>>
  BY DEF HandlerRead
<1>2. IsSeq(a) /\ IsSeq(c) /\ Full = h /\ Full' = e
  BY <1>1, InIs, InIsNext DEF InPort
<1>3. b \in Buffers /\ pool \in Seq(Buffers) /\ \A k \in DOMAIN pool : pool[k] # b
  BY <1>1, PoolApart, InIs DEF Pools
<1>4. /\ DOMAIN data' = Buffers /\ data'[b] = full
      /\ \A k \in DOMAIN pool : data'[pool[k]] = data[pool[k]]
  BY <1>1, <1>3 DEF InPort
<1>5. CASE full.pool # "foe"
  <2>1. recv_pool'["foe"] = pool
    BY <1>5 DEF HandlerRead, RecvInv, Pools
  <2>2. a' = a /\ \A k \in DOMAIN recv_pool'["foe"] : data'[recv_pool'["foe"][k]].pool = "foe"
    BY <1>4, <2>1, WaitsSame DEF InPort
  <2>3. Inserted((a \o e) \o c, Len(a) + 1, full, (a \o h) \o c)
    <3> HIDE DEF a, c
    <3>1. QED
      BY <1>2, RowInserts
  <2> HIDE DEF a, c, e, h
  <2>4. In = (a \o h) \o c /\ In' = (a \o e) \o c
    BY <1>1, <1>2, <2>2 DEF In, a, c
  <2>5. InPort'
    BY <1>1, <1>4, <2>2 DEF InPort
  <2>6. QED
    BY <1>1, <1>5, <2>3, <2>4, <2>5
<1>6. CASE full.pool = "foe"
  <2>1. recv_pool'["foe"] = Append(pool, b)
    BY <1>6 DEF HandlerRead, RecvInv, Pools
  <2>2. /\ Append(pool, b) \in Seq(Buffers) /\ Len(pool) \in Nat
        /\ DOMAIN Append(pool, b) = 1 .. Len(pool) + 1 /\ DOMAIN pool = 1 .. Len(pool)
        /\ Append(pool, b)[Len(pool) + 1] = b
        /\ \A k \in DOMAIN pool : Append(pool, b)[k] = pool[k]
    BY <1>3
  <2>3. ASSUME NEW k \in 1 .. Len(pool) + 1
        PROVE  data'[recv_pool'["foe"][k]] = IF k <= Len(pool) THEN a[k] ELSE full
    <3>1. CASE k <= Len(pool)
      <4>1. k \in DOMAIN pool
        BY <2>2, <3>1
      <4>2. recv_pool'["foe"][k] = pool[k] /\ a[k] = data[pool[k]]
        BY <2>1, <2>2, <4>1 DEF Waits
      <4>3. QED
        BY <1>4, <3>1, <4>1, <4>2
    <3>2. CASE ~(k <= Len(pool))
      <4>1. k = Len(pool) + 1
        BY <2>2, <3>2
      <4>2. QED
        BY <1>4, <2>1, <2>2, <3>2, <4>1
    <3>3. QED
      BY <3>1, <3>2
  <2>4. a' = Append(a, full)
    <3>1. a' = [k \in 1 .. Len(pool) + 1 |-> IF k <= Len(pool) THEN a[k] ELSE full]
      BY <2>1, <2>2, <2>3 DEF Waits
    <3>2. IsSeq(a) /\ Len(a) = Len(pool)
      BY <1>2, InIs
    <3> HIDE DEF a, pool
    <3>3. Append(a, full) = [k \in 1 .. Len(pool) + 1 |-> IF k <= Len(pool) THEN a[k] ELSE full]
      <4>1. PICK S : a \in Seq(S)
        BY <3>2 DEF IsSeq
      <4>2. a \in Seq(S \cup {full}) /\ full \in S \cup {full}
        BY <4>1, SeqMonotonic
      <4> DEFINE t == Append(a, full)
      <4>3. t \in Seq(S \cup {full}) /\ Len(t) = Len(a) + 1 /\ Len(a) \in Nat
        BY <4>2
      <4>4. \A k \in 1 .. Len(a) + 1 : t[k] = IF k <= Len(a) THEN a[k] ELSE full
        BY <4>2
      <4> HIDE DEF t
      <4>5. t = [k \in 1 .. Len(a) + 1 |-> IF k <= Len(a) THEN a[k] ELSE full]
        BY <4>3, <4>4
      <4>6. QED
        BY <3>2, <4>5 DEF t
    <3>4. QED
      BY <3>1, <3>3
  <2>5. \A k \in DOMAIN recv_pool'["foe"] : data'[recv_pool'["foe"][k]].pool = "foe"
    <3>1. \A k \in 1 .. Len(pool) : a[k].pool = "foe"
      BY <2>2 DEF Waits, InPort
    <3>2. QED
      BY <1>6, <2>1, <2>2, <2>3, <3>1
  <2>6. (Append(a, full) \o e) \o c = (a \o h) \o c
    <3> HIDE DEF a, c
    <3>1. QED
      BY <1>2, RowShifts
  <2> HIDE DEF a, c, e, h
  <2>7. In = (a \o h) \o c /\ In' = (Append(a, full) \o e) \o c
    BY <1>1, <1>2, <2>4 DEF In, a, c
  <2>8. InPort'
    BY <1>1, <1>4, <2>5 DEF InPort
  <2>9. QED
    BY <1>1, <1>6, <2>6, <2>7, <2>8
<1>7. QED
  BY <1>5, <1>6

\* ... or is lost.
LEMMA HandlerLoses ==
    ASSUME RecvInv, InPort, HandlerEmpty
    PROVE  /\ InPort'
           /\ \/ In' = In /\ losses' = losses
              \/ losses' = losses + 1 /\ \E p : Inserted(In', p, full, In)
<1> DEFINE a == Waits
           c == answers
           e == <<>>
           h == <<full>>
<1>1. UNCHANGED <<answers, data, recv_pool>> /\ a' = a
  BY DEF HandlerEmpty, Waits
<1>2. InPort'
  BY <1>1 DEF InPort, HandlerEmpty
<1>3. CASE full = NULL
  <2>1. UNCHANGED <<full, losses>>
    BY <1>3 DEF HandlerEmpty
  <2>2. Full' = Full
    BY <2>1 DEF Full
  <2> HIDE DEF a
  <2>3. In' = In
    BY <1>1, <2>2 DEF In, a
  <2>4. QED
    BY <1>2, <2>1, <2>3
<1>4. CASE full # NULL
  <2>1. losses' = losses + 1 /\ full' = NULL
    BY <1>4 DEF HandlerEmpty
  <2>2. IsSeq(a) /\ IsSeq(c) /\ Full = h /\ Full' = e
    BY <1>4, <2>1, InIs, InIsNext DEF InPort
  <2>3. Inserted((a \o e) \o c, Len(a) + 1, full, (a \o h) \o c)
    <3> HIDE DEF a, c
    <3>1. QED
      BY <2>2, RowInserts
  <2> HIDE DEF a, c, e, h
  <2>4. In = (a \o h) \o c /\ In' = (a \o e) \o c
    BY <1>1, <2>2 DEF In, a, c
  <2>5. QED
    BY <1>2, <2>1, <2>3, <2>4
<1>5. QED
  BY <1>3, <1>4

LEMMA SlaveFills ==
    ASSUME RecvInv, InPort, SlaveAnswers
    PROVE  In' = In /\ InPort'
<1> DEFINE a == Waits
           c == answers
           e == <<>>
           h == <<Head(c)>>
<1>1. /\ c # <<>> /\ full = NULL /\ full' = Head(c) /\ c' = Tail(c)
      /\ UNCHANGED <<data, recv_pool, losses>> /\ a' = a
  BY DEF SlaveAnswers, recvs, Waits
<1>2. IsSeq(a) /\ IsSeq(c)
  BY InIs DEF InPort
<1>3. /\ IsSeq(Tail(c)) /\ Len(Tail(c)) = Len(c) - 1 /\ Len(c) \in Nat
      /\ 1 \in DOMAIN c /\ Head(c) = c[1]
      /\ \A i \in 1 .. Len(Tail(c)) : Tail(c)[i] = c[i + 1]
  <2> HIDE DEF c
  <2>1. QED
    BY <1>1, <1>2, HeadTailIs
<1>4. full' # NULL
  BY <1>1, <1>3 DEF InPort
<1>5. Full = e /\ Full' = h
  BY <1>1, <1>4, InIs, InIsNext
<1>6. (a \o h) \o Tail(c) = (a \o e) \o c
  <2> HIDE DEF a, c
  <2>1. QED
    BY <1>1, <1>2, RowShifts
<1>7. \A i \in DOMAIN answers' : answers'[i] # NULL
  <2> DEFINE t == Tail(c)
  <2>1. DOMAIN t = 1 .. Len(t) /\ DOMAIN c = 1 .. Len(c)
    BY <1>2, <1>3, SeqLen
  <2>2. ASSUME NEW i \in DOMAIN t PROVE t[i] # NULL
    <3>1. i + 1 \in DOMAIN c /\ t[i] = c[i + 1]
      BY <1>3, <2>1
    <3>2. QED
      BY <3>1 DEF InPort
  <2>3. QED
    BY <1>1, <2>2
<1>8. IsSeq(answers')
  BY <1>1, <1>3
<1>9. InPort'
  BY <1>1, <1>7, <1>8 DEF InPort
<1> HIDE DEF a, c, e, h
<1>10. In = (a \o e) \o c /\ In' = (a \o h) \o Tail(c)
  BY <1>1, <1>5 DEF In, a, c
<1>11. QED
  BY <1>6, <1>9, <1>10

\* FoE takes the first message that waits for it.
LEMMA FoeTakes ==
    ASSUME RecvInv, InPort, TakeAndReturn("foe")
    PROVE  Inserted(In', 1, Received("foe"), In) /\ InPort' /\ 1 \in Foes(In)
<1> DEFINE a == Waits
           b == Full
           c == answers
           pool == recv_pool["foe"]
<1>1. /\ pool # <<>> /\ recv_pool' = [recv_pool EXCEPT !["foe"] = Tail(@)]
      /\ UNCHANGED <<data, losses, full, answers>> /\ b' = b
  BY DEF TakeAndReturn, Arrived, slave, Full
<1>2. /\ IsSeq(a) /\ IsSeq(b) /\ IsSeq(c) /\ pool \in Seq(Buffers) /\ Len(a) = Len(pool)
      /\ \A k \in DOMAIN pool : a[k] = data[pool[k]] /\ a[k].pool = "foe"
  BY InIs DEF InPort
<1>3. recv_pool'["foe"] = Tail(pool)
  BY <1>1 DEF RecvInv, Pools
<1>4. /\ Len(pool) \in Nat /\ Len(pool) >= 1 /\ DOMAIN pool = 1 .. Len(pool)
      /\ Len(Tail(pool)) = Len(pool) - 1 /\ DOMAIN Tail(pool) = 1 .. Len(pool) - 1
      /\ \A k \in 1 .. Len(pool) - 1 : Tail(pool)[k] = pool[k + 1]
      /\ Head(pool) = pool[1]
  BY <1>1, <1>2
<1>5. a # <<>>
  BY <1>2, <1>4, NoneIs
<1>6. /\ IsSeq(Tail(a)) /\ Len(Tail(a)) = Len(a) - 1 /\ Head(a) = a[1]
      /\ \A i \in 1 .. Len(Tail(a)) : Tail(a)[i] = a[i + 1]
  <2> HIDE DEF a
  <2>1. QED
    BY <1>2, <1>5, HeadTailIs
<1>7. Head(a) = Received("foe") /\ Received("foe").pool = "foe"
  BY <1>2, <1>4, <1>6 DEF Received, Oldest
<1>8. a' = Tail(a)
  <2>1. a' = [k \in 1 .. Len(pool) - 1 |-> data[pool[k + 1]]]
    <3>1. DOMAIN recv_pool'["foe"] = 1 .. Len(pool) - 1
      BY <1>3, <1>4
    <3>2. \A k \in 1 .. Len(pool) - 1 : data'[recv_pool'["foe"][k]] = data[pool[k + 1]]
      BY <1>1, <1>3, <1>4
    <3> HIDE DEF pool
    <3>3. QED
      BY <3>1, <3>2 DEF Waits
  <2> DEFINE t == Tail(a)
  <2>2. IsSeq(t) /\ Len(t) = Len(pool) - 1 /\ DOMAIN t = 1 .. Len(pool) - 1
    BY <1>2, <1>6, SeqLen
  <2>3. \A k \in 1 .. Len(pool) - 1 : t[k] = data[pool[k + 1]]
    BY <1>2, <1>4, <1>6
  <2> HIDE DEF t
  <2>4. t = [k \in 1 .. Len(pool) - 1 |-> data[pool[k + 1]]]
    <3>1. PICK S : t \in Seq(S)
      BY <2>2 DEF IsSeq
    <3>2. QED
      BY <2>2, <2>3, <3>1
  <2>5. QED
    BY <2>1, <2>4 DEF t
<1>9. Inserted((Tail(a) \o b) \o c, 1, Head(a), (a \o b) \o c)
  <2> HIDE DEF a, b, c
  <2>1. QED
    BY <1>2, <1>5, RowShifts
<1>10. Inserted(In', 1, Received("foe"), In)
  <2> HIDE DEF a, b, c
  <2>1. In = (a \o b) \o c /\ In' = (Tail(a) \o b) \o c
    BY <1>1, <1>8 DEF In, a, b, c
  <2>2. QED
    BY <1>7, <1>9, <2>1
<1>11. InPort'
  <2>1. \A k \in DOMAIN recv_pool'["foe"] : data'[recv_pool'["foe"][k]].pool = "foe"
    BY <1>1, <1>2, <1>3, <1>4
  <2>2. QED
    BY <1>1, <2>1 DEF InPort
<1>12. 1 \in Foes(In)
  BY <1>7, <1>10 DEF Inserted, Foes
<1>13. QED
  BY <1>10, <1>11, <1>12
-----------------------------------------------------------------------------
(* What the others do.                                                     *)

LEMMA FunIsSeq ==
    ASSUME NEW n \in Nat, NEW f, f = [k \in 1 .. n |-> f[k]]
    PROVE  IsSeq(f) /\ Len(f) = n /\ DOMAIN f = 1 .. n
<1> DEFINE S == {f[k] : k \in 1 .. n}
<1>1. f \in [1 .. n -> S]
  OBVIOUS
<1> HIDE DEF S
<1>2. f \in Seq(S) /\ Len(f) = n
  BY <1>1
<1>3. IsSeq(f)
  BY <1>2, Zenon DEF IsSeq
<1>4. QED
  BY <1>2, <1>3

LEMMA FragmentsIs ==
    ASSUME NEW value, IsSeq(value), NEW size \in Nat \ {0}
    PROVE  IsSeq(Fragments(value, size))
<1> DEFINE last == IF value = <<>> THEN 0 ELSE (Len(value) - 1) \div size
           f == Fragments(value, size)
<1>1. last + 1 \in Nat
  <2>1. CASE value = <<>>
    BY <2>1
  <2>2. CASE value # <<>>
    <3>1. Len(value) \in Nat /\ Len(value) >= 1
      BY <2>2, HeadTailIs
    <3>2. (Len(value) - 1) \div size \in Nat
      BY <3>1
    <3>3. QED
      BY <2>2, <3>2
  <2>3. QED
    BY <2>1, <2>2
<1>2. f = [k \in 1 .. last + 1 |-> f[k]]
  BY DEF Fragments
<1> HIDE DEF last, f
<1>3. IsSeq(f)
  BY <1>1, <1>2, FunIsSeq
<1>4. QED
  BY <1>3 DEF f

LEMMA OutSeq == IsSeq(send_queued) => IsSeq(Out)
<1> SUFFICES ASSUME IsSeq(send_queued) PROVE IsSeq(Out)
  OBVIOUS
<1> DEFINE a == Wrote \o Sending
<1>1. IsSeq(a)
  BY OutIs, CatIs
<1> HIDE DEF a
<1>2. IsSeq(a \o send_queued)
  BY <1>1, CatIs
<1>3. QED
  BY <1>2 DEF Out, a

LEMMA InSeq == RecvInv /\ InPort => IsSeq(In)
<1> SUFFICES ASSUME RecvInv, InPort PROVE IsSeq(In)
  OBVIOUS
<1> DEFINE a == Waits \o Full
<1>1. IsSeq(a)
  BY InIs, CatIs
<1> HIDE DEF a
<1>2. IsSeq(a \o answers)
  BY <1>1, CatIs DEF InPort
<1>3. QED
  BY <1>2 DEF In, a

LEMMA OutStays ==
    ASSUME OutPort, UNCHANGED <<send_queued, wrote, soe_calls>>,
           handler' = handler \/ (handler.does # "send" /\ handler'.does # "send")
    PROVE  Out' = Out /\ OutPort'
<1>1. Sending' = Sending
  BY OutIs, OutIsNext DEF Sending
<1>2. Wrote' = Wrote
  BY DEF Wrote
<1>3. Out' = Out
  BY <1>1, <1>2 DEF Out
<1>4. \A m : Proper(m)' = Proper(m)
  BY DEF Proper
<1>5. OutPort'
  BY DEF OutPort, Proper
<1>6. QED
  BY <1>3, <1>5

LEMMA InStays ==
    ASSUME RecvInv, InPort, UNCHANGED <<data, answers, full, losses>>,
           recv_pool'["foe"] = recv_pool["foe"]
    PROVE  In' = In /\ InPort'
<1>1. Waits' = Waits /\ \A k \in DOMAIN recv_pool'["foe"] : data'[recv_pool'["foe"][k]].pool = "foe"
  BY WaitsSame
<1>2. Full' = Full
  BY DEF Full
<1>3. In' = In
  BY <1>1, <1>2 DEF In
<1>4. InPort'
  BY <1>1 DEF InPort
<1>5. QED
  BY <1>3, <1>4

LEMMA OutSame == OutPort /\ Out' = Out => OutKeeps
BY OutSeq, SameKept DEF OutPort, OutKeeps

LEMMA InSame == RecvInv /\ InPort /\ In' = In /\ losses' = losses => InKeeps
BY InSeq, SameKept DEF InPort, InKeeps

\* Messages for others come and go.
LEMMA OutComes ==
    ASSUME NEW p, NEW m, m.pool # "foe", Inserted(Out, p, m, Out') \/ Inserted(Out', p, m, Out)
    PROVE  OutKeeps
<1>1. CASE Inserted(Out, p, m, Out')
  BY <1>1, InsertKeeps DEF OutKeeps
<1>2. CASE Inserted(Out', p, m, Out)
  <2>1. Kept(Out, {p}, Out', {}) /\ AllKept(Out, {}, Out')
    BY <1>2, RemoveKeeps
  <2>2. Kept(Out, {}, Out', {})
    BY <2>1 DEF Kept
  <2>3. QED
    BY <2>1, <2>2 DEF OutKeeps
<1>3. QED
  BY <1>1, <1>2

LEMMA InGoes ==
    ASSUME NEW p, NEW m, Inserted(In', p, m, In), losses \in Nat,
           losses' = losses + 1 \/ (losses' = losses /\ m.pool # "foe")
    PROVE  InKeeps
<1>1. Kept(In, {p}, In', {}) /\ (m.pool # "foe" => AllKept(In, {}, In'))
  BY RemoveKeeps
<1>2. Kept(In, {}, In', {})
  BY <1>1 DEF Kept
<1>3. QED
  BY <1>1, <1>2 DEF InKeeps

LEMMA InJoins ==
    ASSUME RecvInv, InPort, NEW u, IsSeq(u), \A i \in DOMAIN u : u[i].pool # "foe",
           In' = In \o u, losses' = losses
    PROVE  InKeeps
<1>1. Kept(In, {}, In \o u, {}) /\ AllKept(In, {}, In \o u)
  BY InSeq, JoinKeeps
<1> DEFINE t == In \o u
<1> HIDE DEF t
<1>2. In' = t /\ Kept(In, {}, t, {}) /\ AllKept(In, {}, t)
  BY <1>1 DEF t
<1>3. QED
  BY <1>2 DEF InKeeps, InPort

LEMMA AnswersJoin ==
    ASSUME InPort, NEW u, IsSeq(u), \A i \in DOMAIN u : u[i] # NULL,
           answers' = answers \o u, UNCHANGED <<recvs, losses>>
    PROVE  InPort'
<1> DEFINE a == answers
           t == a \o u
<1>1. IsSeq(a) /\ \A i \in DOMAIN a : a[i] # NULL
  BY DEF InPort
<1>2. IsSeq(t) /\ Len(t) = Len(a) + Len(u)
  BY <1>1, CatIs
<1>3. /\ DOMAIN t = 1 .. Len(t) /\ DOMAIN a = 1 .. Len(a) /\ DOMAIN u = 1 .. Len(u)
      /\ Len(a) \in Nat /\ Len(u) \in Nat
  BY <1>1, <1>2, SeqLen
<1>4. ASSUME NEW i \in DOMAIN t PROVE t[i] # NULL
  <2>1. CASE i <= Len(a)
    <3>1. i \in 1 .. Len(a) /\ t[i] = a[i]
      BY <1>1, <1>2, <1>3, <2>1, CatIs
    <3>2. QED
      BY <1>1, <1>3, <3>1
  <2>2. CASE i > Len(a)
    <3>1. i \in Len(a) + 1 .. Len(a) + Len(u) /\ i - Len(a) \in DOMAIN u
      BY <1>2, <1>3, <2>2
    <3>2. t[i] = u[i - Len(a)]
      BY <1>1, <3>1, CatIs
    <3>3. QED
      BY <3>1, <3>2
  <2>3. QED
    BY <1>2, <1>3, <2>1, <2>2
<1> HIDE DEF t
<1>5. answers' = t
  BY DEF t
<1>6. QED
  BY <1>2, <1>4, <1>5 DEF InPort, recvs

-----------------------------------------------------------------------------
\* A step of SoE or EoE.
ServiceStep ==
    /\ \/ UNCHANGED sends
       \/ \E m : (SendHead(m) \/ SendTail(m)) /\ Proper(m) /\ m.pool # "foe"
    /\ recv_pool'["foe"] = recv_pool["foe"]
    /\ UNCHANGED <<data, handler, wrote, answers, full, losses, soe_calls, fvars>>

LEMMA QueuesProper ==
    ASSUME OutPort, NEW m, Proper(m), SendHead(m) \/ SendTail(m),
           UNCHANGED <<wrote, handler, soe_calls>>
    PROVE  OutPort' /\ \E p : Inserted(Out, p, m, Out')
<1>1. /\ IsSeq(send_queued')
      /\ \A i \in DOMAIN send_queued' :
            send_queued'[i] = m \/ \E j \in DOMAIN send_queued : send_queued'[i] = send_queued[j]
      /\ \E p : Inserted(Out, p, m, Out')
  BY SendInserts
<1>2. ASSUME NEW i \in DOMAIN send_queued' PROVE Proper(send_queued'[i])
  BY <1>1 DEF OutPort
<1>3. \A x : Proper(x)' <=> Proper(x)
  BY DEF Proper
<1>4. OutPort'
  BY <1>1, <1>2 DEF OutPort, Proper
<1>5. QED
  BY <1>1, <1>4

LEMMA ServiceKeeps ==
    ASSUME PortOk, ServiceStep
    PROVE  OutPort' /\ InPort' /\ OutKeeps /\ InKeeps
<1>1. RecvInv /\ OutPort /\ InPort
  BY DEF PortOk
<1>2. /\ recv_pool'["foe"] = recv_pool["foe"]
      /\ UNCHANGED <<data, handler, wrote, answers, full, losses, soe_calls>>
  BY DEF ServiceStep
<1>3. InPort' /\ InKeeps
  BY <1>1, <1>2, InStays, InSame
<1>4. CASE UNCHANGED sends
  BY <1>1, <1>2, <1>3, <1>4, OutStays, OutSame DEF sends
<1>5. CASE \E m : (SendHead(m) \/ SendTail(m)) /\ Proper(m) /\ m.pool # "foe"
  <2>1. PICK m : (SendHead(m) \/ SendTail(m)) /\ Proper(m) /\ m.pool # "foe"
    BY <1>5
  <2>2. OutPort' /\ \E p : Inserted(Out, p, m, Out')
    BY <1>1, <1>2, <2>1, QueuesProper
  <2>3. QED
    BY <1>3, <2>1, <2>2, OutComes
<1>6. QED
  BY <1>4, <1>5 DEF ServiceStep

LEMMA SoeDoes ==
    ASSUME NullIsNone, PortOk, OthersOk, SoeThread, ~SoeReturnsAgain
    PROVE  ServiceStep /\ OthersOk' /\ lates \subseteq lates'
<1>1. UNCHANGED <<fvars, evars, soe_calls>> /\ SoeNext
  BY DEF SoeThread, Lives, SoeNext, SoeCall, SoeReadFragment, SoeReadMore, SoeReadSpins,
         SoeReturnsAgain, SoeWriteFragment, SoeWriteAnswer, SoeTimeout, SoeOnly
<1>2. ASSUME "call" \in DOMAIN soe', soe'.call \in 0 .. Len(soe_calls) PROVE OthersOk'
  BY <1>1, <1>2 DEF OthersOk, fvars, evars
<1>3. "call" \in DOMAIN soe /\ soe.call \in 0 .. Len(soe_calls) /\ IsSeq(soe_calls)
  BY DEF OthersOk
<1>4. ASSUME TakeAndReturn("soe")
      PROVE  /\ recv_pool'["foe"] = recv_pool["foe"]
             /\ UNCHANGED <<data, handler, wrote, answers, full, losses, lates>>
  BY <1>4 DEF TakeAndReturn, slave
<1>5. ASSUME UNCHANGED <<recvs, slave, losses, lates>>
      PROVE  /\ recv_pool'["foe"] = recv_pool["foe"]
             /\ UNCHANGED <<data, handler, wrote, answers, full, losses, lates>>
  BY <1>5 DEF recvs, slave
<1>6. CASE SoeCall
  <2>1. UNCHANGED <<recvs, slave, losses, lates>> /\ soe.call < Len(soe_calls)
    BY <1>6 DEF SoeCall
  <2> DEFINE n == soe.call + 1
             m == SoeMessage("READ_REQ", n, <<>>, FALSE)
  <2>2. n \in 1 .. Len(soe_calls) /\ DOMAIN soe_calls = 1 .. Len(soe_calls)
    BY <1>3, <2>1, SeqLen
  <2> DEFINE call == soe_calls[n]
             next == [pc |-> call.op, call |-> n, ret |-> "timeout", got |-> <<>>,
                      left |-> IF call.op = "read" THEN call.len ELSE Len(call.value),
                      first |-> TRUE, buffer |-> NULL]
  <2>a. \/ SoeSend(SoeMessage("READ_REQ", next.call, <<>>, FALSE), next)
        \/ /\ soe' = [next EXCEPT !.pc = IF call.value = <<>> THEN "idle" ELSE "fragment"]
           /\ UNCHANGED sends
    BY <1>6 DEF SoeCall
  <2>b. DOMAIN next = {"pc", "call", "ret", "got", "left", "first", "buffer"} /\ next.call = n
    OBVIOUS
  <2> HIDE DEF next
  <2>3. "call" \in DOMAIN soe' /\ soe'.call = n /\ (SendHead(m) \/ UNCHANGED sends)
    BY <2>a, <2>b DEF SoeSend
  <2>4. Proper(m) /\ m.pool # "foe"
    <3>1. m # NULL
      BY DEF NullIsNone, SoeMessage
    <3>2. m.pool = "soe" /\ m.nr = n
      BY DEF SoeMessage, Message
    <3>3. QED
      BY <2>2, <3>1, <3>2 DEF Proper
  <2>5. soe'.call \in 0 .. Len(soe_calls)
    BY <2>2, <2>3
  <2> HIDE DEF n, m
  <2>6. ServiceStep
    BY <1>1, <1>5, <2>1, <2>3, <2>4 DEF ServiceStep
  <2>7. QED
    BY <1>2, <2>1, <2>3, <2>5, <2>6
<1>7. CASE SoeReadFragment
  <2>1. "call" \in DOMAIN soe' /\ soe'.call = soe.call /\ TakeAndReturn("soe") /\ UNCHANGED sends
    BY <1>3, <1>7 DEF SoeReadFragment
  <2>2. QED
    BY <1>1, <1>2, <1>3, <1>4, <2>1 DEF ServiceStep
<1>8. CASE SoeReadMore
  <2>1. "call" \in DOMAIN soe' /\ soe'.call = soe.call /\ UNCHANGED port
    BY <1>3, <1>8 DEF SoeReadMore
  <2>2. QED
    BY <1>1, <1>2, <1>3, <1>5, <2>1 DEF ServiceStep, port
<1>9. CASE SoeReadSpins
  <2>1. "call" \in DOMAIN soe' /\ soe'.call = soe.call /\ TakeAndReturn("soe") /\ UNCHANGED sends
    BY <1>3, <1>9 DEF SoeReadSpins
  <2>2. QED
    BY <1>1, <1>2, <1>3, <1>4, <2>1 DEF ServiceStep
<1>10. CASE SoeWriteFragment
  <2>1. PICK part, left : SoeSend(SoeMessage("WRITE_REQ", 0, part, left # 0),
                                  [soe EXCEPT !.pc = "write", !.left = left])
    BY <1>10 DEF SoeWriteFragment
  <2> DEFINE m == SoeMessage("WRITE_REQ", 0, part, left # 0)
  <2>2. "call" \in DOMAIN soe' /\ soe'.call = soe.call /\ (SendHead(m) \/ UNCHANGED sends)
    BY <1>3, <2>1 DEF SoeSend
  <2>3. Proper(m) /\ m.pool # "foe"
    <3>1. m # NULL
      BY DEF NullIsNone, SoeMessage
    <3>2. m.pool = "soe" /\ m.op = "WRITE_REQ"
      BY DEF SoeMessage, Message
    <3>3. QED
      BY <3>1, <3>2 DEF Proper
  <2>4. UNCHANGED <<recvs, slave, losses, lates>>
    BY <1>10 DEF SoeWriteFragment
  <2> HIDE DEF m
  <2>5. ServiceStep
    BY <1>1, <1>5, <2>2, <2>3, <2>4 DEF ServiceStep
  <2>6. QED
    BY <1>2, <1>3, <2>2, <2>4, <2>5
<1>11. CASE SoeWriteAnswer
  <2>1. TakeAndReturn("soe") /\ UNCHANGED sends
    BY <1>11 DEF SoeWriteAnswer
  <2>2. "call" \in DOMAIN soe' /\ soe'.call = soe.call
    BY <1>3, <1>11 DEF SoeWriteAnswer, SoeGoOn
  <2>3. QED
    BY <1>1, <1>2, <1>3, <1>4, <2>1, <2>2 DEF ServiceStep
<1>12. CASE SoeTimeout
  <2>1. UNCHANGED <<sends, recvs, slave, losses>> /\ lates \subseteq lates'
    BY <1>12 DEF SoeTimeout, Expires
  <2>2. "call" \in DOMAIN soe' /\ soe'.call = soe.call
    BY <1>3, <1>12 DEF SoeTimeout, SoeGoOn, SoeReturn
  <2>3. QED
    BY <1>1, <1>2, <1>3, <2>1, <2>2 DEF ServiceStep, recvs, slave
<1>13. QED
  BY <1>1, <1>6, <1>7, <1>8, <1>9, <1>10, <1>11, <1>12 DEF SoeNext

LEMMA EoeDoes ==
    ASSUME NullIsNone, PortOk, OthersOk, EoeThread
    PROVE  ServiceStep /\ OthersOk' /\ lates \subseteq lates'
<1>1. UNCHANGED <<fvars, sevars, node>> /\ EoeNext
  BY DEF EoeThread, Lives, EoeNext, EoeCall, EoeFragment, EoeNoBuffer, EoeSynced, EoeIpAnswer,
         EoeTimeout, EoeOnly
<1>2. OthersOk' /\ soe_calls' = soe_calls
  BY <1>1 DEF OthersOk, fvars, sevars
<1>3. ASSUME UNCHANGED <<recvs, slave, losses, lates>>
      PROVE  /\ recv_pool'["foe"] = recv_pool["foe"]
             /\ UNCHANGED <<data, handler, wrote, answers, full, losses>>
  BY <1>3 DEF recvs, slave
<1>4. CASE EoeCall
  <2> DEFINE m == Message("ip", "SET_IP", 0, <<>>, FALSE)
  <2>1. UNCHANGED <<recvs, slave, losses, lates>> /\ (SendTail(m) \/ UNCHANGED sends)
    BY <1>4 DEF EoeCall
  <2>2. Proper(m) /\ m.pool # "foe"
    BY DEF NullIsNone, Proper, Message
  <2> HIDE DEF m
  <2>3. ServiceStep
    BY <1>1, <1>2, <1>3, <2>1, <2>2 DEF ServiceStep
  <2>4. QED
    BY <1>2, <2>1, <2>3
<1>5. CASE EoeFragment
  <2>1. PICK part : SendTail(EoeMessage(eoe.nr, part, Len(part) = room.write))
    BY <1>5 DEF EoeFragment
  <2> DEFINE m == EoeMessage(eoe.nr, part, Len(part) = room.write)
  <2>2. m # NULL /\ m.pool = "eoe"
    BY DEF NullIsNone, EoeMessage, Message
  <2>3. UNCHANGED <<recvs, slave, losses, lates>> /\ SendTail(m)
    BY <1>5, <2>1 DEF EoeFragment
  <2> HIDE DEF m
  <2>4. ServiceStep
    BY <1>1, <1>2, <1>3, <2>2, <2>3 DEF ServiceStep, Proper
  <2>5. QED
    BY <1>2, <2>3, <2>4
<1>6. CASE EoeSynced
  BY <1>1, <1>2, <1>3, <1>6 DEF EoeSynced, ServiceStep, port
<1>7. CASE EoeIpAnswer
  BY <1>1, <1>2, <1>7 DEF EoeIpAnswer, TakeAndReturn, ServiceStep, slave
<1>8. CASE EoeTimeout
  BY <1>1, <1>2, <1>8 DEF EoeTimeout, Expires, ServiceStep, recvs, slave
<1>9. CASE EoeNoBuffer
  BY <1>1, <1>2, <1>3, <1>9 DEF EoeNoBuffer, ServiceStep, port
<1>10. QED
  BY <1>1, <1>4, <1>5, <1>6, <1>7, <1>8, <1>9 DEF EoeNext

LEMMA HandlerDoes ==
    ASSUME PortOk,
           HandlerPop \/ HandlerBuffer \/ HandlerEmpty \/ HandlerRead \/ HandlerRequeue
           \/ HandlerSends \/ HandlerFrames,
           UNCHANGED <<soe_calls, lates>>
    PROVE  OutPort' /\ InPort' /\ OutKeeps /\ InKeeps
<1>1. RecvInv /\ OutPort /\ InPort
  BY DEF PortOk
<1>2. \A x : Proper(x)' <=> Proper(x)
  BY DEF Proper
<1>3. ASSUME UNCHANGED <<send_queued, wrote>>,
             handler' = handler \/ (handler.does # "send" /\ handler'.does # "send")
      PROVE  OutPort' /\ OutKeeps
  BY <1>1, <1>3, OutStays, OutSame
<1>4. ASSUME UNCHANGED <<data, answers, full, losses>>, recv_pool'["foe"] = recv_pool["foe"]
      PROVE  InPort' /\ InKeeps
  BY <1>1, <1>4, InStays, InSame
<1>5. CASE HandlerPop
  <2>1. /\ send_queued # <<>> /\ send_queued' = Tail(send_queued)
        /\ handler' = [does |-> "send", with |-> Head(send_queued)]
        /\ UNCHANGED <<data, answers, full, losses, recv_pool, wrote>>
    BY <1>5 DEF HandlerPop, slave
  <2>2. Out' = Out /\ IsSeq(send_queued')
    BY <1>1, <1>5, HandlerOut
  <2>3. OutPort'
    <3> DEFINE c == send_queued
               t == Tail(c)
    <3>1. /\ 1 \in DOMAIN c /\ Head(c) = c[1] /\ Len(t) = Len(c) - 1 /\ Len(c) \in Nat
          /\ \A i \in 1 .. Len(t) : t[i] = c[i + 1]
          /\ IsSeq(t) /\ IsSeq(c)
      <4>1. IsSeq(c) /\ c # <<>>
        BY <1>1, <2>1 DEF OutPort
      <4> HIDE DEF c
      <4>2. QED
        BY <4>1, HeadTailIs
    <3>2. DOMAIN t = 1 .. Len(t) /\ DOMAIN c = 1 .. Len(c)
      BY <3>1, SeqLen
    <3>3. \A i \in DOMAIN c : Proper(c[i])
      BY <1>1 DEF OutPort
    <3>4. Proper(Head(c))
      BY <3>1, <3>3
    <3>5. ASSUME NEW i \in DOMAIN t PROVE Proper(t[i])
      <4>1. i + 1 \in DOMAIN c /\ t[i] = c[i + 1]
        BY <3>1, <3>2
      <4>2. QED
        BY <3>3, <4>1
    <3>6. \A i \in DOMAIN send_queued' : Proper(send_queued'[i])
      BY <2>1, <3>5
    <3>7. handler'.with = Head(c) /\ wrote' = wrote
      BY <2>1
    <3> HIDE DEF c, t
    <3>8. QED
      BY <1>1, <1>2, <2>2, <3>4, <3>6, <3>7 DEF OutPort, Proper
  <2>4. QED
    BY <1>1, <1>4, <2>1, <2>2, <2>3, OutSame
<1>6. CASE HandlerBuffer
  <2>1. InPort' /\ In' = In /\ losses' = losses
    BY <1>1, <1>6, HandlerReceives DEF HandlerBuffer
  <2>2. QED
    BY <1>1, <1>3, <1>6, <2>1, InSame DEF HandlerBuffer, Idle, sends, slave
<1>7. CASE HandlerEmpty
  <2>1. OutPort' /\ OutKeeps
    BY <1>3, <1>7 DEF HandlerEmpty, Idle, sends
  <2>2. InPort' /\ InKeeps
    BY <1>1, <1>7, HandlerLoses, InSame, InGoes DEF InPort
  <2>3. QED
    BY <2>1, <2>2
<1>8. CASE HandlerRead
  <2>1. OutPort' /\ OutKeeps
    BY <1>3, <1>8 DEF HandlerRead, Idle, sends
  <2>2. InPort' /\ InKeeps
    BY <1>1, <1>8, HandlerReads, InSame, InGoes DEF InPort
  <2>3. QED
    BY <2>1, <2>2
<1>9. CASE HandlerRequeue
  <2>1. /\ send_queued' = <<handler.with>> \o send_queued /\ handler' = Idle
        /\ handler.does = "send"
        /\ UNCHANGED <<data, answers, full, losses, recv_pool, wrote>>
    BY <1>9 DEF HandlerRequeue, slave
  <2>2. Out' = Out /\ IsSeq(send_queued')
    BY <1>1, <1>9, HandlerOut
  <2>3. OutPort'
    <3> DEFINE h == <<handler.with>>
               c == send_queued
               t == h \o c
    <3>1. IsSeq(h) /\ Len(h) = 1 /\ h[1] = handler.with /\ IsSeq(c)
      BY <1>1, OneIs DEF OutPort
    <3>2. /\ Proper(handler.with) /\ \A i \in DOMAIN c : Proper(c[i])
          /\ DOMAIN c = 1 .. Len(c) /\ Len(c) \in Nat
      BY <1>1, <2>1, SeqLen DEF OutPort
    <3> HIDE DEF h, c
    <3>3. IsSeq(t) /\ Len(t) = Len(h) + Len(c)
      BY <3>1, CatIs
    <3>4. ASSUME NEW i \in DOMAIN t PROVE Proper(t[i])
      <4>1. i \in 1 .. 1 + Len(c)
        BY <3>1, <3>3, SeqLen
      <4>2. CASE i = 1
        <5>1. i \in 1 .. Len(h)
          BY <3>1, <4>2
        <5>2. t[i] = h[i]
          BY <3>1, <5>1, CatIs
        <5>3. QED
          BY <3>1, <3>2, <4>2, <5>2
      <4>3. CASE i # 1
        <5>1. i \in Len(h) + 1 .. Len(h) + Len(c) /\ i - Len(h) \in DOMAIN c
          BY <3>1, <3>2, <4>1, <4>3
        <5>2. t[i] = c[i - Len(h)]
          BY <3>1, <5>1, CatIs
        <5>3. QED
          BY <3>2, <5>1, <5>2
      <4>4. QED
        BY <4>2, <4>3
    <3>5. send_queued' = t
      BY <2>1 DEF h, c
    <3> HIDE DEF t
    <3>6. \A i \in DOMAIN send_queued' : Proper(send_queued'[i])
      BY <3>4, <3>5
    <3>7. QED
      BY <1>1, <1>2, <2>1, <2>2, <3>6 DEF OutPort, Proper, Idle
  <2>4. QED
    BY <1>1, <1>4, <2>1, <2>2, <2>3, OutSame
<1>10. CASE HandlerSends
  <2>1. HandlerSend
    BY <1>10 DEF HandlerSends
  <2>2. Out' = Out
    BY <1>1, <2>1, HandlerOut
  <2>3. /\ wrote' = handler.with /\ handler.does = "send" /\ handler' = Idle
        /\ UNCHANGED <<send_queued, data, answers, full, losses, recv_pool>>
    BY <2>1 DEF HandlerSend
  <2>4. OutPort'
    BY <1>1, <1>2, <2>3 DEF OutPort, Proper, Idle
  <2>5. QED
    BY <1>1, <1>4, <2>2, <2>3, <2>4, OutSame
<1>11. CASE HandlerFrames
  <2>1. /\ UNCHANGED <<send_queued, wrote, data, answers, full, losses>>
        /\ handler.does = "frames" /\ handler'.does \in {"nothing", "frames"}
    BY <1>11 DEF HandlerFrames, EoeNoFrame, EoeNoMemory, EoeNoStart, EoeFrame, Processing,
                 HandlerLeaves, Idle, sends, slave
  <2>2. recv_pool'["foe"] = recv_pool["foe"]
    <3>1. \A n : EoeReleases(n) => recv_pool'["foe"] = recv_pool["foe"]
      BY <1>1 DEF EoeReleases, RecvInv
    <3>2. UNCHANGED recv_pool \/ \E n : EoeReleases(n)
      BY <1>11, Zenon DEF HandlerFrames, EoeNoFrame, EoeNoMemory, EoeNoStart, EoeFrame
    <3>3. QED
      BY <3>1, <3>2
  <2>3. QED
    BY <1>3, <1>4, <2>1, <2>2
<1>12. QED
  BY <1>5, <1>6, <1>7, <1>8, <1>9, <1>10, <1>11

\* Messages of services other than FoE, and no frames of EoE.
Elsewhere(u) == IsSeq(u) /\ \A i \in DOMAIN u : u[i].pool \in {"soe", "ip", "log"} /\ u[i] # NULL

LEMMA OneAnswer ==
    ASSUME NullIsNone, NEW pool \in {"soe", "ip", "log"}, NEW op, NEW nr, NEW payload,
           NEW u, u = <<Message(pool, op, nr, payload, FALSE)>>
    PROVE  Elsewhere(u)
<1> DEFINE m == Message(pool, op, nr, payload, FALSE)
<1>1. m # NULL /\ m.pool = pool
  BY DEF NullIsNone, Message
<1> HIDE DEF m
<1>2. u = <<m>>
  BY DEF m
<1>3. IsSeq(<<m>>) /\ DOMAIN <<m>> = {1} /\ <<m>>[1] = m
  BY OneIs
<1>4. QED
  BY <1>1, <1>2, <1>3 DEF Elsewhere

\* The slave takes a message for SoE or EoE.
LEMMA SlaveTakesOther ==
    ASSUME PortOk, wrote # NULL, wrote.pool # "foe", UNCHANGED soe_calls,
           NEW u, IsSeq(u), \A i \in DOMAIN u : u[i].pool # "foe" /\ u[i] # NULL,
           SlaveTakes(u)
    PROVE  OutPort' /\ InPort' /\ OutKeeps /\ InKeeps
<1>1. RecvInv /\ OutPort /\ InPort
  BY DEF PortOk
<1>2. Inserted(Out', 1, wrote, Out) /\ In' = In \o u
  BY <1>1, SlaveTakesFirst
<1>3. UNCHANGED <<sends, recvs, losses>> /\ answers = <<>> /\ answers' = u /\ wrote' = NULL
  BY DEF SlaveTakes
<1>4. answers' = answers \o u
  <2>1. <<>> \o u = u
    BY CatEmpty
  <2>2. QED
    BY <1>3, <2>1
<1>5. InPort' /\ InKeeps
  BY <1>1, <1>2, <1>3, <1>4, AnswersJoin, InJoins
<1>6. OutPort'
  BY <1>1, <1>3 DEF OutPort, Proper, sends, recvs
<1>7. QED
  BY <1>2, <1>5, <1>6, OutComes

\* The slave says what nobody asked for.
LEMMA SlaveSays ==
    ASSUME PortOk, UNCHANGED soe_calls,
           NEW u, IsSeq(u), \A i \in DOMAIN u : u[i].pool # "foe" /\ u[i] # NULL,
           SlaveSpeaks(u)
    PROVE  OutPort' /\ InPort' /\ OutKeeps /\ InKeeps
<1>1. RecvInv /\ OutPort /\ InPort
  BY DEF PortOk
<1>2. UNCHANGED <<sends, recvs, wrote, full, losses>> /\ answers' = answers \o u
  BY DEF SlaveSpeaks
<1>3. OutPort' /\ OutKeeps
  BY <1>1, <1>2, OutStays, OutSame DEF sends, recvs
<1> DEFINE a == Waits
           b == Full
           c == answers
<1>4. IsSeq(a) /\ IsSeq(b) /\ IsSeq(c) /\ a' = a /\ b' = b
  BY <1>1, <1>2, InIs DEF InPort, Waits, Full, recvs
<1>5. In' = In \o u
  <2> HIDE DEF a, b, c
  <2>1. (a \o b) \o (c \o u) = ((a \o b) \o c) \o u
    BY <1>4, RowShifts
  <2>2. In = (a \o b) \o c /\ In' = (a \o b) \o (c \o u)
    BY <1>2, <1>4 DEF In, a, b, c
  <2>3. QED
    BY <2>1, <2>2
<1>6. InPort' /\ InKeeps
  BY <1>1, <1>2, <1>5, AnswersJoin, InJoins
<1>7. QED
  BY <1>3, <1>6

\* The fragments of an answer of the drive, and of a frame.
LEMMA RepliesAre ==
    ASSUME NullIsNone, NEW parts, IsSeq(parts), NEW u,
           \/ u = [k \in DOMAIN parts |->
                      SoeMessage("READ_RES", Len(parts) - k, parts[k], k < Len(parts))]
           \/ u = [k \in DOMAIN parts |-> EoeMessage(k - 1, parts[k], k < Len(parts))]
    PROVE  IsSeq(u) /\ \A i \in DOMAIN u : u[i].pool # "foe" /\ u[i] # NULL
<1>1. Len(parts) \in Nat /\ DOMAIN parts = 1 .. Len(parts)
  BY SeqLen
<1>2. u = [k \in 1 .. Len(parts) |-> u[k]]
  BY <1>1, Zenon
<1>3. IsSeq(u) /\ DOMAIN u = 1 .. Len(parts)
  BY <1>1, <1>2, FunIsSeq
<1>4. ASSUME NEW i \in DOMAIN u PROVE u[i].pool # "foe" /\ u[i] # NULL
  <2>1. CASE u = [k \in DOMAIN parts |->
                     SoeMessage("READ_RES", Len(parts) - k, parts[k], k < Len(parts))]
    <3>1. u[i] = SoeMessage("READ_RES", Len(parts) - i, parts[i], i < Len(parts))
      BY <1>4, <2>1, Zenon
    <3>2. SoeMessage("READ_RES", Len(parts) - i, parts[i], i < Len(parts)).pool = "soe"
      BY DEF SoeMessage, Message
    <3>3. SoeMessage("READ_RES", Len(parts) - i, parts[i], i < Len(parts)) # NULL
      BY Zenon DEF SoeMessage, NullIsNone
    <3>4. QED
      BY <3>1, <3>2, <3>3
  <2>2. CASE u = [k \in DOMAIN parts |-> EoeMessage(k - 1, parts[k], k < Len(parts))]
    <3>1. u[i] = EoeMessage(i - 1, parts[i], i < Len(parts))
      BY <1>4, <2>2, Zenon
    <3>2. EoeMessage(i - 1, parts[i], i < Len(parts)).pool = "eoe"
      BY DEF EoeMessage, Message
    <3>3. EoeMessage(i - 1, parts[i], i < Len(parts)) # NULL
      BY Zenon DEF EoeMessage, NullIsNone
    <3>4. QED
      BY <3>1, <3>2, <3>3
  <2>3. QED
    BY <2>1, <2>2
<1>5. QED
  BY <1>3, <1>4

\* What the slave answers to SoE and EoE, ...
LEMMA SlaveReplies ==
    ASSUME NullIsNone, PortOk, OthersOk, SlaveSoe \/ SlaveEoe
    PROVE  \E u : Elsewhere(u) /\ SlaveTakes(u)
<1>1. RecvInv /\ OutPort /\ InPort /\ room.read \in Nat \ {0}
  BY DEF PortOk, OthersOk
<1>2. ASSUME NEW pool \in {"soe", "ip"}, NEW op, NEW payload,
             SlaveTakes(<<Message(pool, op, 0, payload, FALSE)>>)
      PROVE  \E u : Elsewhere(u) /\ SlaveTakes(u)
  <2> DEFINE u == <<Message(pool, op, 0, payload, FALSE)>>
  <2>1. SlaveTakes(u) /\ u = <<Message(pool, op, 0, payload, FALSE)>>
    BY <1>2
  <2> HIDE DEF u
  <2>2. Elsewhere(u)
    BY <2>1, OneAnswer
  <2>3. QED
    BY <2>1, <2>2
<1>3. CASE SlaveSoe
  <2>1. CASE wrote.op = "READ_REQ" /\ SlaveTakes(DriveAnswers(soe_calls[wrote.nr].value))
    <3> DEFINE v == soe_calls[wrote.nr].value
               parts == Fragments(v, room.read)
               u == DriveAnswers(v)
    <3>1. wrote.nr \in DOMAIN soe_calls
      BY <1>1, <1>3, <2>1 DEF SlaveSoe, OutPort, Proper
    <3>2. IsSeq(v)
      BY <3>1 DEF OthersOk
    <3>3. IsSeq(parts)
      <4> HIDE DEF v
      <4>1. QED
        BY <1>1, <3>2, FragmentsIs
    <3>4. u = [k \in DOMAIN parts |->
                  SoeMessage("READ_RES", Len(parts) - k, parts[k], k < Len(parts))]
      BY DEF DriveAnswers
    <3>5. SlaveTakes(u)
      BY <2>1
    <3> HIDE DEF u, v, parts
    <3>6. IsSeq(u) /\ \A i \in DOMAIN u : u[i] # NULL
      BY <3>3, <3>4, RepliesAre
    <3>7. ASSUME NEW i \in DOMAIN u PROVE u[i].pool = "soe"
      <4>1. u[i] = SoeMessage("READ_RES", Len(parts) - i, parts[i], i < Len(parts))
        BY <3>4, Zenon
      <4>2. QED
        BY <4>1 DEF SoeMessage, Message
    <3>8. QED
      BY <3>5, <3>6, <3>7 DEF Elsewhere
  <2>2. CASE SlaveTakes(<<SoeMessage("READ_RES", 0, Refusal, FALSE)>>)
    BY <1>2, <2>2 DEF SoeMessage
  <2>3. CASE SlaveTakes(<<SoeMessage("WRITE_RES", 0, <<>>, FALSE)>>)
    BY <1>2, <2>3 DEF SoeMessage
  <2>4. QED
    BY <1>3, <2>1, <2>2, <2>3 DEF SlaveSoe
<1>4. CASE SlaveEoe
  <2>1. CASE SlaveTakes(<<>>)
    <3> DEFINE u == <<>>
    <3>1. SlaveTakes(u)
      BY <2>1
    <3>2. IsSeq(u) /\ DOMAIN u = {}
      BY NoneIs
    <3> HIDE DEF u
    <3>3. QED
      BY <3>1, <3>2 DEF Elsewhere
  <2>2. CASE SlaveTakes(<<Message("ip", "SET_IP", 0, <<>>, FALSE)>>)
    BY <1>2, <2>2
  <2>3. QED
    BY <1>4, <2>1, <2>2 DEF SlaveEoe
<1>5. QED
  BY <1>3, <1>4

\* ... and what a drive says that nobody asked for.
LEMMA DriveSays ==
    ASSUME NullIsNone, DriveSpeaks
    PROVE  \E u : Elsewhere(u) /\ SlaveSpeaks(u)
<1>1. PICK m \in {Message("log", "NOTIFICATION", 0, <<>>, FALSE),
                  SoeMessage("EMERGENCY", 0, <<>>, FALSE)} : SlaveSpeaks(<<m>>)
  BY DEF DriveSpeaks
<1> DEFINE u == <<m>>
<1>2. SlaveSpeaks(u) /\ u = <<m>>
  BY <1>1
<1> HIDE DEF u
<1>3. Elsewhere(u)
  <2>1. CASE m = Message("log", "NOTIFICATION", 0, <<>>, FALSE)
    BY <1>2, <2>1, OneAnswer
  <2>2. CASE m = Message("soe", "EMERGENCY", 0, <<>>, FALSE)
    BY <1>2, <2>2, OneAnswer
  <2>3. QED
    BY <1>1, <2>1, <2>2 DEF SoeMessage
<1>4. QED
  BY <1>2, <1>3

LEMMA SlaveDoes ==
    ASSUME NullIsNone, PortOk, OthersOk,
           \/ SlaveSoe /\ Lives(<<fvars, evars>>)
           \/ SlaveEoe /\ Lives(<<fvars, sevars>>)
           \/ SlaveAnswers /\ Lives(<<fvars, sevars, evars>>)
           \/ DriveSpeaks /\ Lives(<<fvars, evars>>)
           \/ NodeSends /\ Lives(<<fvars, sevars>>)
    PROVE  OutPort' /\ InPort' /\ OthersOk' /\ OutKeeps /\ InKeeps /\ UNCHANGED <<fvars, lates>>
<1>1. RecvInv /\ OutPort /\ InPort /\ room.read \in Nat \ {0}
  BY DEF PortOk, OthersOk
<1>2. ASSUME UNCHANGED <<fvars, soe, soe_calls, node>> PROVE OthersOk'
  BY <1>2 DEF OthersOk, fvars
<1>3. CASE SlaveSoe /\ Lives(<<fvars, evars>>)
  <2>1. UNCHANGED <<fvars, evars, soe, soe_calls>> /\ wrote # NULL /\ wrote.pool = "soe"
    BY <1>3 DEF SlaveSoe, Lives
  <2>2. OthersOk'
    BY <1>2, <2>1 DEF evars
  <2>4. PICK u : Elsewhere(u) /\ SlaveTakes(u)
    BY <1>3, SlaveReplies
  <2>5. lates' = lates
    BY <2>4 DEF SlaveTakes
  <2>6. QED
    BY <2>1, <2>2, <2>4, <2>5, SlaveTakesOther DEF Elsewhere
<1>4. CASE SlaveEoe /\ Lives(<<fvars, sevars>>)
  <2>1. UNCHANGED <<fvars, sevars>> /\ wrote # NULL /\ wrote.pool # "foe"
    BY <1>4 DEF SlaveEoe, Lives
  <2>2. \/ SlaveTakes(<<>>) /\ node' = NodeReceives(wrote)
        \/ SlaveTakes(<<Message("ip", "SET_IP", 0, <<>>, FALSE)>>) /\ UNCHANGED node
    BY <1>4 DEF SlaveEoe
  <2>3. OthersOk'
    <3>1. {"frames", "sent"} \subseteq DOMAIN node' /\ node'.frames = node.frames /\ node'.sent = node.sent
      BY <2>2 DEF OthersOk, NodeReceives
    <3>2. QED
      BY <2>1, <3>1 DEF OthersOk, fvars, sevars
  <2>5. PICK u : Elsewhere(u) /\ SlaveTakes(u)
    BY <1>4, SlaveReplies
  <2>6. lates' = lates /\ soe_calls' = soe_calls
    BY <2>1, <2>5 DEF SlaveTakes, sevars
  <2>7. QED
    BY <2>1, <2>3, <2>5, <2>6, SlaveTakesOther DEF Elsewhere
<1>5. CASE SlaveAnswers /\ Lives(<<fvars, sevars, evars>>)
  <2>1. UNCHANGED <<fvars, sevars, evars, sends, recvs, wrote, losses, lates>>
    BY <1>5 DEF SlaveAnswers, Lives
  <2>2. OthersOk' /\ OutPort' /\ OutKeeps
    BY <1>1, <1>2, <2>1, OutStays, OutSame DEF sevars, evars, sends, recvs
  <2>3. In' = In /\ InPort'
    BY <1>1, <1>5, SlaveFills
  <2>4. QED
    BY <1>1, <2>1, <2>2, <2>3, InSame
<1>6. CASE DriveSpeaks /\ Lives(<<fvars, evars>>)
  <2>1. UNCHANGED <<fvars, evars, soe, soe_calls>>
    BY <1>6 DEF DriveSpeaks, Lives
  <2>4. PICK u : Elsewhere(u) /\ SlaveSpeaks(u)
    BY <1>6, DriveSays
  <2>5. OutPort' /\ InPort' /\ OutKeeps /\ InKeeps
    BY <2>1, <2>4, SlaveSays DEF Elsewhere
  <2>6. QED
    BY <1>2, <2>1, <2>4, <2>5 DEF evars, SlaveSpeaks
<1>7. CASE NodeSends /\ Lives(<<fvars, sevars>>)
  <2> DEFINE parts == Fragments(node.frames[node.sent + 1], room.read)
             u == [k \in DOMAIN parts |-> EoeMessage(k - 1, parts[k], k < Len(parts))]
  <2>1. /\ UNCHANGED <<fvars, sevars>> /\ node.sent < Len(node.frames)
        /\ node' = [node EXCEPT !.sent = @ + 1] /\ SlaveSpeaks(u)
    BY <1>7 DEF NodeSends, Lives
  <2>2. IsSeq(node.frames[node.sent + 1])
    <3>1. node.sent + 1 \in DOMAIN node.frames
      BY <2>1, SeqLen DEF OthersOk
    <3>2. QED
      BY <3>1 DEF OthersOk
  <2>3. IsSeq(parts)
    BY <1>1, <2>2, FragmentsIs
  <2>4. OthersOk'
    <3>1. /\ {"frames", "sent"} \subseteq DOMAIN node' /\ node'.frames = node.frames
          /\ node'.sent = node.sent + 1
      BY <2>1 DEF OthersOk
    <3>2. QED
      BY <2>1, <3>1 DEF OthersOk, fvars, sevars
  <2>5. IsSeq(u) /\ \A i \in DOMAIN u : u[i].pool # "foe" /\ u[i] # NULL
    <3> HIDE DEF parts
    <3>1. QED
      BY <2>3, RepliesAre
  <2> HIDE DEF u, parts
  <2>6. OutPort' /\ InPort' /\ OutKeeps /\ InKeeps
    BY <2>1, <2>5, SlaveSays DEF sevars
  <2>7. QED
    BY <2>1, <2>4, <2>6 DEF SlaveSpeaks
<1>8. QED
  BY <1>3, <1>4, <1>5, <1>6, <1>7

\* Every step but those of FoE and of its server leaves the messages of FoE.
LEMMA OthersKeep ==
    ASSUME NullIsNone, PortOk, OthersOk, [Next]_vars, ~SoeReturnsAgain, ~FoeThread,
           ~(SlaveFoe /\ Lives(<<sevars, evars>>))
    PROVE  /\ PortOk' /\ OthersOk' /\ OutKeeps /\ InKeeps
           /\ UNCHANGED fvars /\ lates \subseteq lates'
<1>1. RecvInv'
  BY RecvKeeps DEF PortOk
<1>2. ASSUME UNCHANGED <<fvars, sevars, node>> PROVE OthersOk'
  BY <1>2 DEF OthersOk, fvars, sevars
<1>3. CASE SoeThread \/ EoeThread
  <2>1. ServiceStep /\ OthersOk' /\ lates \subseteq lates'
    BY <1>3, SoeDoes, EoeDoes
  <2>2. QED
    BY <1>1, <2>1, ServiceKeeps DEF PortOk, ServiceStep
<1>4. CASE Pops \/ Takes \/ Ends \/ Sends \/ Frames
  <2>1. /\ HandlerPop \/ HandlerBuffer \/ HandlerEmpty \/ HandlerRead \/ HandlerRequeue
           \/ HandlerSends \/ HandlerFrames
        /\ UNCHANGED <<fvars, sevars>> /\ node' = node
    BY <1>4 DEF Pops, Takes, Ends, Sends, Frames, Handler, Lives, HandlerSends, HandlerFrames, evars
  <2>2. lates' = lates
    BY <2>1 DEF HandlerPop, HandlerBuffer, HandlerEmpty, HandlerRead, HandlerRequeue, HandlerSends,
                HandlerSend, HandlerFrames
  <2>3. QED
    BY <1>1, <1>2, <2>1, <2>2, HandlerDoes DEF PortOk, sevars
<1>5. CASE \/ SlaveSoe /\ Lives(<<fvars, evars>>)
           \/ SlaveEoe /\ Lives(<<fvars, sevars>>)
           \/ SlaveAnswers /\ Lives(<<fvars, sevars, evars>>)
           \/ DriveSpeaks /\ Lives(<<fvars, evars>>)
           \/ NodeSends /\ Lives(<<fvars, sevars>>)
  BY <1>1, <1>5, SlaveDoes DEF PortOk
<1>6. CASE UNCHANGED vars
  <2>1. UNCHANGED <<fvars, sevars, node, sends, recvs, slave, losses, lates>>
    BY <1>6 DEF vars, port, evars
  <2>2. RecvInv /\ OutPort /\ InPort
    BY DEF PortOk
  <2>3. OutPort' /\ OutKeeps
    BY <2>1, <2>2, OutStays, OutSame DEF sends, recvs, slave, sevars
  <2>4. InPort' /\ InKeeps
    BY <2>1, <2>2, InStays, InSame DEF recvs, slave
  <2>5. QED
    BY <1>1, <1>2, <2>1, <2>3, <2>4 DEF PortOk
<1>7. QED
  BY <1>3, <1>4, <1>5, <1>6 DEF Next, Slave
-----------------------------------------------------------------------------
(* Parts of a file.                                                        *)

LEMMA SubSeqIs ==
    ASSUME NEW S, NEW s \in Seq(S), NEW m \in 1 .. Len(s) + 1, NEW n \in Nat, n <= Len(s), m <= n + 1
    PROVE  /\ SubSeq(s, m, n) \in Seq(S) /\ Len(SubSeq(s, m, n)) = n - m + 1
           /\ \A i \in 1 .. n - m + 1 : SubSeq(s, m, n)[i] = s[m - 1 + i]
<1> DEFINE t == SubSeq(s, m, n)
<1>1. Len(s) \in Nat /\ DOMAIN s = 1 .. Len(s) /\ m \in Nat /\ m >= 1
  OBVIOUS
<1>2. t \in Seq(S) /\ Len(t) = n - m + 1
  BY <1>1
<1>3. \A i \in 1 .. n - m + 1 : t[i] = s[m - 1 + i]
  BY <1>1
<1>4. QED
  BY <1>2, <1>3

\* What Part takes, behind what was taken before.
LEMMA PartIs ==
    ASSUME NEW S, NEW s \in Seq(S), NEW n \in Nat, n <= Len(s), NEW r \in Nat \ {0}
    PROVE  /\ Part(s, n, r) \in Seq(S)
           /\ Len(Part(s, n, r)) \in Nat /\ Len(Part(s, n, r)) <= r
           /\ n + Len(Part(s, n, r)) <= Len(s)
           /\ Len(Part(s, n, r)) < r => n + Len(Part(s, n, r)) = Len(s)
           /\ SubSeq(s, 1, n) \in Seq(S) /\ Len(SubSeq(s, 1, n)) = n
           /\ SubSeq(s, 1, n) \o Part(s, n, r) = SubSeq(s, 1, n + Len(Part(s, n, r)))
<1> DEFINE e == Least(n + r, Len(s))
           p == Part(s, n, r)
           f == SubSeq(s, 1, n)
           k == n + Len(p)
           g == SubSeq(s, 1, k)
<1>1. Len(s) \in Nat /\ e \in Nat /\ n <= e /\ e <= Len(s) /\ e <= n + r /\ (e < n + r => e = Len(s))
  BY DEF Least
<1>2. p = SubSeq(s, n + 1, e)
  BY DEF Part
<1>3. /\ p \in Seq(S) /\ Len(p) = e - n
      /\ \A i \in 1 .. e - n : p[i] = s[n + i]
  <2>1. n + 1 \in 1 .. Len(s) + 1 /\ n + 1 <= e + 1 /\ e - (n + 1) + 1 = e - n /\ n + 1 - 1 = n
    BY <1>1
  <2> HIDE DEF e, p
  <2>2. /\ SubSeq(s, n + 1, e) \in Seq(S) /\ Len(SubSeq(s, n + 1, e)) = e - (n + 1) + 1
        /\ \A i \in 1 .. e - (n + 1) + 1 : SubSeq(s, n + 1, e)[i] = s[n + 1 - 1 + i]
    BY <1>1, <2>1, SubSeqIs
  <2>3. QED
    BY <1>2, <2>1, <2>2
<1>4. k = e /\ k \in Nat
  BY <1>1, <1>3
<1>5. /\ f \in Seq(S) /\ Len(f) = n
      /\ \A i \in 1 .. n : f[i] = s[i]
  OBVIOUS
<1>6. /\ g \in Seq(S) /\ Len(g) = e
      /\ \A i \in 1 .. e : g[i] = s[i]
  BY <1>1, <1>4
<1> HIDE DEF e, p, f, g, k
<1>7. f \o p = g
  <2>1. IsSeq(f) /\ IsSeq(p) /\ IsSeq(g)
    BY <1>3, <1>5, <1>6, Zenon DEF IsSeq
  <2>2. IsSeq(f \o p) /\ Len(f \o p) = Len(f) + Len(p)
    BY <2>1, CatIs
  <2>3. Len(f \o p) = Len(g)
    BY <1>1, <1>3, <1>5, <1>6, <2>2
  <2>4. ASSUME NEW i \in 1 .. Len(f \o p) PROVE (f \o p)[i] = g[i]
    <3>1. i \in 1 .. e
      BY <1>1, <1>3, <1>5, <2>2
    <3>2. CASE i <= n
      <4>1. i \in 1 .. Len(f)
        BY <1>5, <3>1, <3>2
      <4>2. (f \o p)[i] = f[i]
        BY <2>1, <4>1, CatIs
      <4>3. QED
        BY <1>5, <1>6, <3>1, <4>1, <4>2
    <3>3. CASE i > n
      <4>1. /\ i \in Len(f) + 1 .. Len(f) + Len(p) /\ i - Len(f) \in 1 .. e - n
            /\ n + (i - Len(f)) = i
        BY <1>1, <1>3, <1>5, <3>1, <3>3
      <4>2. (f \o p)[i] = p[i - Len(f)]
        BY <2>1, <4>1, CatIs
      <4>3. QED
        BY <1>3, <1>6, <3>1, <4>1, <4>2
    <3>4. QED
      BY <3>1, <3>2, <3>3
  <2>5. QED
    BY <2>1, <2>2, <2>3, <2>4, SameSeq, Zenon
<1>8. QED
  BY <1>1, <1>3, <1>4, <1>5, <1>7 DEF p, f, g, k

LEMMA WholeIs ==
    ASSUME NEW S, NEW s \in Seq(S)
    PROVE  /\ SubSeq(s, 1, Len(s)) = s /\ SubSeq(s, 1, 0) = <<>>
           /\ \A r \in Nat : Len(s) <= r => Part(s, 0, r) = s
<1>1. Len(s) \in Nat
  OBVIOUS
<1>2. SubSeq(s, 1, Len(s)) = s
  <2> DEFINE t == SubSeq(s, 1, Len(s))
  <2>1. t \in Seq(S) /\ Len(t) = Len(s) /\ \A i \in 1 .. Len(s) : t[i] = s[i]
    BY <1>1
  <2> HIDE DEF t
  <2>2. t = s
    BY <2>1, SeqEqual
  <2>3. QED
    BY <2>2 DEF t
<1>3. SubSeq(s, 1, 0) = <<>>
  OBVIOUS
<1>4. ASSUME NEW r \in Nat, Len(s) <= r PROVE Part(s, 0, r) = s
  <2>1. Least(0 + r, Len(s)) = Len(s) /\ 0 + 1 = 1
    BY <1>1, <1>4 DEF Least
  <2>2. QED
    BY <1>2, <2>1 DEF Part
<1>5. QED
  BY <1>2, <1>3, <1>4

LEMMA FileIs ==
    ASSUME FoeTypes, foe.call >= 1
    PROVE  /\ Call \in [op : {"read", "write"}, file : DOMAIN Files]
           /\ Call = [op |-> Call.op, file |-> Call.file]
           /\ Content \in Seq(Units)
<1>1. foe.call \in 1 .. Len(foe_calls)
  BY DEF FoeTypes
<1>2. Call \in [op : {"read", "write"}, file : DOMAIN Files]
  <2> DEFINE R == [op : {"read", "write"}, file : DOMAIN Files]
  <2>1. foe_calls \in Seq(R)
    BY DEF FoeTypes
  <2> HIDE DEF R
  <2>2. foe_calls[foe.call] \in R
    BY <1>1, <2>1
  <2>3. QED
    BY <2>2 DEF R, Call
<1>3. Content \in Seq(Units)
  BY <1>2, FoEAssumption DEF Content
<1>4. QED
  BY <1>2, <1>3

-----------------------------------------------------------------------------
\* What is said of the messages is said of those that are left as well; acknowledgements
\* may go.
LEMMA KeptGood ==
    ASSUME NEW o, IsSeq(o), NEW o2, IsSeq(o2), Kept(o, {}, o2, {}),
           \A i \in Foes(o) : o[i].op = "ACK" \/ \E j \in Foes(o2) : o2[j] = o[i],
           NEW q, IsSeq(q), NEW q2, IsSeq(q2), Kept(q, {}, q2, {}),
           NEW l \in Nat, NEW l2 \in Nat, l2 >= l, l2 = l => AllKept(q, {}, q2),
           GoodWith(o, q, l)
    PROVE  GoodWith(o2, q2, l2)
<1>1. PICK f : \A i \in Foes(o2) : /\ f[i] \in Foes(o) /\ o2[i] = o[f[i]]
                                   /\ \A j \in Foes(o2) : i < j => f[i] < f[j]
  BY DEF Kept
<1>2. PICK g : \A i \in Foes(q2) : /\ g[i] \in Foes(q) /\ q2[i] = q[g[i]]
                                   /\ \A j \in Foes(q2) : i < j => g[i] < g[j]
  BY DEF Kept
<1>3. Foes(o) \cup Foes(o2) \subseteq Nat /\ Foes(q) \cup Foes(q2) \subseteq Nat
  BY SeqLen DEF Foes
<1>4. \A i, j \in Foes(o2) : f[i] = f[j] => i = j
  BY <1>1, <1>3
<1>5. \A i, j \in Foes(q2) : g[i] = g[j] => i = j
  BY <1>2, <1>3
<1>6. \A op : \A i \in Is(o2, op) : f[i] \in Is(o, op)
  BY <1>1 DEF Is
<1>7. \A op : \A i \in Is(q2, op) : g[i] \in Is(q, op)
  BY <1>2 DEF Is
<1>8. OutOk(o2, q2)
  <2>1. OutOk(o, q)
    BY DEF GoodWith
  <2>2. \A i \in Foes(o2) : Request(o2[i])
    BY <1>1, <2>1 DEF OutOk
  <2>3. \A i, j \in Foes(o2) : o2[i].op # "ACK" /\ o2[j].op # "ACK" => i = j
    BY <1>1, <1>4, <2>1 DEF OutOk
  <2>4. \A i \in Foes(o2) : o2[i].op # "ACK" => Foes(q2) = {}
    BY <1>1, <1>2, <2>1 DEF OutOk
  <2>5. foe.call = 0 => Foes(o2) = {}
    BY <1>1, <2>1 DEF OutOk
  <2>6. foe.call = 1 /\ Is(o2, "RRQ") # {} => Is(o2, "ACK") = {}
    BY <1>6, <2>1 DEF OutOk
  <2>7. QED
    BY <2>2, <2>3, <2>4, <2>5, <2>6 DEF OutOk
<1>9. LeftOver(o2)
  <2>1. Between(o2) => Between(o)
    BY <1>6 DEF Between
  <2>2. \A i \in Is(o2, "ACK") : f[i] \in Is(o, "ACK") /\ o2[i].nr = o[f[i]].nr
    BY <1>1, <1>6 DEF Is
  <2>3. QED
    BY <2>1, <2>2 DEF GoodWith, LeftOver
<1>10. InOk(q2)
  <2>1. InOk(q)
    BY DEF GoodWith
  <2>2. ASSUME ReadAnswers(q) PROVE ReadAnswers(q2)
    <3>1. \A i \in Foes(q2) : q2[i].op \in {"DATA", "BUSY", "ERR"}
      BY <1>2, <2>2 DEF ReadAnswers
    <3>2. ASSUME NEW i \in Is(q2, "BUSY"), NEW j \in Foes(q2) PROVE i <= j
      <4>1. g[i] \in Is(q, "BUSY") /\ g[j] \in Foes(q) /\ i \in Foes(q2)
        BY <1>2, <1>7 DEF Is
      <4>2. g[i] <= g[j]
        BY <2>2, <4>1 DEF ReadAnswers
      <4>3. ~(g[j] < g[i])
        BY <1>3, <4>1, <4>2 DEF Is
      <4>4. QED
        BY <1>2, <1>3, <4>1, <4>3
    <3>3. ASSUME NEW i \in Is(q2, "ERR"), NEW j \in Foes(q2) PROVE i = j
      <4>1. g[i] \in Is(q, "ERR") /\ g[j] \in Foes(q) /\ i \in Foes(q2)
        BY <1>2, <1>7 DEF Is
      <4>2. QED
        BY <1>5, <2>2, <4>1 DEF ReadAnswers
    <3>4. Is(q2, "ERR") # {} => server.mode # "read"
      BY <1>7, <2>2 DEF ReadAnswers
    <3>5. QED
      BY <3>1, <3>2, <3>3, <3>4 DEF ReadAnswers
  <2>3. foe.pc = "packet" \/ (foe.pc = "idle" /\ foe.call < Len(foe_calls)) => Foes(q2) = {}
    BY <1>2, <2>1 DEF InOk
  <2>4. foe.pc \in {"write", "sent"} => \A i, j \in Foes(q2) : i = j
    BY <1>2, <1>5, <2>1 DEF InOk
  <2>5. foe.pc = "write" => \A i \in Foes(q2) : /\ q2[i].op \in {"ACK", "ERR", "BUSY"}
                                                /\ q2[i].op = "ACK" => Waiting(1)
    BY <1>2, <2>1 DEF InOk
  <2>6. foe.pc = "sent" => \A i \in Foes(q2) :
           q2[i].op = "ACK" /\ IF foe.last THEN store = Content ELSE Waiting(foe.nr + 1)
    BY <1>2, <2>1 DEF InOk
  <2>7. foe.pc = "read" => ReadAnswers(q2)
    BY <2>1, <2>2 DEF InOk
  <2>8. QED
    BY <2>3, <2>4, <2>5, <2>6, <2>7 DEF InOk
<1>11. ReadOk(o2, q2, l2)
  <2> SUFFICES ASSUME foe.pc = "read", Is(o2, "RRQ") = {}
               PROVE  \E a, s \in Nat : Chain(o2, q2, l2, a, s)
    BY DEF ReadOk
  <2>1. Is(o, "RRQ") = {}
    BY DEF Is
  <2>2. PICK a, s \in Nat : Chain(o, q, l, a, s)
    BY <2>1 DEF GoodWith, ReadOk
  <2>3. \A i \in Is(q2, "DATA") : g[i] \in Is(q, "DATA") /\ q2[i] = q[g[i]] /\ i \in Foes(q2)
    BY <1>2, <1>7 DEF Is
  <2>4. \A i \in Is(q2, "DATA") : Packet(q2[i], a, s)
    BY <2>2, <2>3 DEF Chain
  <2>5. \A i, j \in Is(q2, "DATA") : i < j => q2[i].nr < q2[j].nr
    BY <1>2, <2>2, <2>3 DEF Chain
  <2>6. l2 = 0 => \A n \in a + 1 .. s : \E i \in Is(q2, "DATA") : q2[i].nr = n
    <3> SUFFICES ASSUME l2 = 0, NEW n \in a + 1 .. s
                 PROVE  \E i \in Is(q2, "DATA") : q2[i].nr = n
      OBVIOUS
    <3>1. l = 0 /\ l2 = l
      OBVIOUS
    <3>2. PICK i \in Is(q, "DATA") : q[i].nr = n
      BY <2>2, <3>1 DEF Chain
    <3>3. PICK j \in Foes(q2) : q2[j] = q[i]
      BY <3>1, <3>2 DEF AllKept, Is
    <3>4. QED
      BY <3>2, <3>3 DEF Is
  <2>7. foe.call = 1 => s <= a + 1 /\ \A i \in Is(o2, "ACK") : o2[i].nr <= a
    <3>1. \A i \in Is(o2, "ACK") : f[i] \in Is(o, "ACK") /\ o2[i].nr = o[f[i]].nr
      BY <1>1, <1>6 DEF Is
    <3>2. QED
      BY <2>2, <3>1 DEF Chain
  <2>8. Chain(o2, q2, l2, a, s)
    BY <2>2, <2>4, <2>5, <2>6, <2>7 DEF Chain
  <2>9. QED
    BY <2>8
<1>12. QED
  BY <1>8, <1>9, <1>10, <1>11 DEF GoodWith
-----------------------------------------------------------------------------
(* The steps of FoE.                                                       *)

\* What foe becomes: the call, the fields that the thread sets.
LEMMA CallSame ==
    ASSUME FoeTypes, foe'.call = foe.call, UNCHANGED foe_calls
    PROVE  Call' = Call /\ Content' = Content
BY DEF Call, Content

LEMMA FoeTypesKeep ==
    ASSUME FoeTypes, FoeNext
    PROVE  FoeTypes' /\ UNCHANGED <<foe_calls, room, server, store>>
<1>1. UNCHANGED <<foe_calls, room, server, store>>
  BY DEF FoeNext, FoeCall, FoeReadData, FoeReadOther, FoeWriteAnswer, FoeWritePacket, FoeTimeout,
         FoeOnly
<1>2. ASSUME DOMAIN foe' = FoeFields, foe'.call = foe.call,
             foe'.pc = foe.pc \/ foe'.pc = "idle"
             \/ (foe.pc \in {"write", "packet", "sent"} /\ foe'.pc \in {"packet", "sent"})
      PROVE  FoeTypes'
  <2>1. Call' = Call
    BY <1>1, <1>2, CallSame
  <2>2. foe'.pc # "idle" => foe.pc # "idle"
    BY <1>2
  <2>3. foe'.pc = "read" => foe.pc = "read"
    BY <1>2
  <2>4. foe'.pc \in {"write", "packet", "sent"} => foe.pc \in {"write", "packet", "sent"}
    BY <1>2 DEF FoeTypes
  <2>5. foe'.pc \in {"idle", "read", "write", "packet", "sent"}
    BY <1>2 DEF FoeTypes
  <2>6. QED
    BY <1>1, <1>2, <2>1, <2>2, <2>3, <2>4, <2>5 DEF FoeTypes
<1>3. CASE FoeCall
  <2> DEFINE n == foe.call + 1
             call == foe_calls[n]
             R == [op : {"read", "write"}, file : DOMAIN Files]
  <2>1. foe.call < Len(foe_calls) /\ foe_calls \in Seq(R) /\ foe.call \in 0 .. Len(foe_calls)
    BY <1>3 DEF FoeCall, FoeTypes
  <2>2. n \in 1 .. Len(foe_calls) /\ call \in R
    <3> HIDE DEF R
    <3>1. QED
      BY <2>1
  <2>3. /\ DOMAIN foe' = FoeFields /\ foe'.call = n
        /\ foe'.pc \in {call.op, "idle"}
    <3> DEFINE next == [pc |-> call.op, call |-> n, ret |-> NULL, got |-> <<>>,
                        pos |-> 0, nr |-> 0, last |-> FALSE]
    <3>1. foe' = next \/ foe' = [next EXCEPT !.pc = "idle", !.ret = "no_buffer"]
      BY <1>3 DEF FoeCall, FoeSend
    <3>2. DOMAIN next = FoeFields /\ next.call = n /\ next.pc = call.op
      BY DEF FoeFields
    <3> HIDE DEF next
    <3>3. QED
      BY <3>1, <3>2 DEF FoeFields
  <2>4. Call' = call
    BY <1>1, <2>3 DEF Call
  <2>5. call.op \in {"read", "write"}
    BY <2>2
  <2> HIDE DEF n, call
  <2>6. foe'.pc \in {"idle", "read", "write"} /\ (foe'.pc # "idle" => foe'.pc = call.op)
    BY <2>3, <2>5
  <2>7. n \in 0 .. Len(foe_calls)' /\ n >= 1
    BY <1>1, <2>2
  <2>8. foe_calls' \in Seq([op : {"read", "write"}, file : DOMAIN Files])
    BY <1>1, <2>1
  <2>9. QED
    BY <1>1, <2>3, <2>4, <2>6, <2>7, <2>8 DEF FoeTypes
<1>4. CASE FoeReadData
  <2> DEFINE m    == Received("foe")
             got  == [foe EXCEPT !.got = @ \o m.payload]
             next == IF Len(m.payload) < room.read THEN [got EXCEPT !.pc = "idle", !.ret = "ok"] ELSE got
  <2>1. foe' = next \/ foe' = [next EXCEPT !.pc = "idle", !.ret = "no_buffer"]
    BY <1>4 DEF FoeReadData, FoeSend
  <2>2. DOMAIN got = FoeFields /\ got.call = foe.call /\ got.pc = foe.pc
    BY DEF FoeTypes, FoeFields
  <2> HIDE DEF got
  <2>3. DOMAIN next = FoeFields /\ next.call = foe.call /\ next.pc \in {foe.pc, "idle"}
    BY <2>2 DEF FoeFields
  <2> HIDE DEF next
  <2>4. DOMAIN foe' = FoeFields /\ foe'.call = foe.call /\ foe'.pc \in {foe.pc, "idle"}
    BY <2>1, <2>3 DEF FoeFields
  <2>5. QED
    BY <1>1, <1>2, <2>4
<1>5. ASSUME NEW ret, FoeReturn(ret) PROVE FoeTypes'
  <2>1. DOMAIN foe' = FoeFields /\ foe'.call = foe.call /\ foe'.pc = "idle"
    BY <1>5 DEF FoeReturn, FoeTypes, FoeFields
  <2>2. QED
    BY <1>2, <2>1
<1>6. CASE UNCHANGED foe
  <2>1. DOMAIN foe' = FoeFields /\ foe'.call = foe.call /\ foe'.pc = foe.pc
    BY <1>6 DEF FoeTypes
  <2>2. QED
    BY <1>1, <1>2, <2>1
<1>7. CASE FoeReadOther
  BY <1>1, <1>5, <1>6, <1>7 DEF FoeReadOther
<1>8. CASE FoeWriteAnswer
  <2>1. foe.pc \in {"write", "sent"} /\ (foe' = [foe EXCEPT !.pc = "packet"] \/ \E ret : FoeReturn(ret))
    BY <1>8 DEF FoeWriteAnswer
  <2>2. CASE foe' = [foe EXCEPT !.pc = "packet"]
    <3>1. DOMAIN foe' = FoeFields /\ foe'.call = foe.call /\ foe'.pc = "packet"
      BY <2>2 DEF FoeTypes, FoeFields
    <3>2. QED
      BY <1>1, <1>2, <2>1, <3>1
  <2>3. QED
    BY <1>1, <1>5, <2>1, <2>2
<1>9. CASE FoeWritePacket
  <2>1. PICK part : FoeSend(FoeMessage("DATA", foe.nr + 1, part),
                            [foe EXCEPT !.pc = "sent", !.nr = @ + 1, !.pos = @ + Len(part),
                                        !.last = Len(part) < room.read])
    BY <1>9 DEF FoeWritePacket
  <2> DEFINE next == [foe EXCEPT !.pc = "sent", !.nr = @ + 1, !.pos = @ + Len(part),
                                 !.last = Len(part) < room.read]
  <2>2. DOMAIN next = FoeFields /\ next.call = foe.call /\ next.pc = "sent"
    BY DEF FoeTypes, FoeFields
  <2>3. foe' = next \/ foe' = [next EXCEPT !.pc = "idle", !.ret = "no_buffer"]
    BY <2>1 DEF FoeSend
  <2> HIDE DEF next
  <2>4. DOMAIN foe' = FoeFields /\ foe'.call = foe.call /\ foe'.pc \in {"sent", "idle"} /\ foe.pc = "packet"
    BY <1>9, <2>2, <2>3 DEF FoeFields, FoeWritePacket
  <2>5. QED
    BY <1>1, <1>2, <2>4
<1>10. CASE FoeTimeout
  BY <1>1, <1>5, <1>10 DEF FoeTimeout
<1>11. QED
  BY <1>1, <1>3, <1>4, <1>7, <1>8, <1>9, <1>10 DEF FoeNext

\* A message is sent, or there is no buffer.
Sent(m) == \E p : Inserted(Out, p, m, Out')

LEMMA FoeSendIs ==
    ASSUME NullIsNone, OutPort, NEW op, op \in FoeOps, NEW nr, NEW payload, NEW next,
           FoeSend(FoeMessage(op, nr, payload), next), UNCHANGED <<wrote, handler, soe_calls>>
    PROVE  /\ OutPort'
           /\ \/ Sent(FoeMessage(op, nr, payload)) /\ foe' = next
              \/ Out' = Out /\ foe' = [next EXCEPT !.pc = "idle", !.ret = "no_buffer"]
<1> DEFINE m == FoeMessage(op, nr, payload)
<1>1. m # NULL /\ m.pool = "foe" /\ m.op = op
  <2>1. m # NULL
    BY Zenon DEF NullIsNone, FoeMessage
  <2>2. m.pool = "foe" /\ m.op = op
    BY DEF FoeMessage, Message
  <2>3. QED
    BY <2>1, <2>2
<1> HIDE DEF m
<1>2. Proper(m)
  BY <1>1 DEF Proper
<1>3. \/ SendHead(m) /\ foe' = next
      \/ UNCHANGED sends /\ foe' = [next EXCEPT !.pc = "idle", !.ret = "no_buffer"]
  BY DEF FoeSend, m
<1>4. CASE SendHead(m) /\ foe' = next
  <2>1. OutPort' /\ \E p : Inserted(Out, p, m, Out')
    BY <1>2, <1>4, QueuesProper
  <2>2. QED
    BY <1>4, <2>1 DEF Sent, m
<1>5. CASE UNCHANGED sends /\ foe' = [next EXCEPT !.pc = "idle", !.ret = "no_buffer"]
  <2>1. Out' = Out /\ OutPort'
    BY <1>5, OutStays DEF sends
  <2>2. QED
    BY <1>5, <2>1
<1>6. QED
  BY <1>3, <1>4, <1>5

LEMMA FoePort ==
    ASSUME NullIsNone, PortOk, OthersOk, FoeThread
    PROVE  OutPort' /\ InPort' /\ OthersOk' /\ losses' = losses /\ lates \subseteq lates'
<1>1. UNCHANGED <<sevars, evars, room>> /\ FoeNext
  BY DEF FoeThread, Lives, FoeNext, FoeCall, FoeReadData, FoeReadOther, FoeWriteAnswer,
         FoeWritePacket, FoeTimeout, FoeOnly
<1>2. OthersOk' /\ soe_calls' = soe_calls
  BY <1>1 DEF OthersOk, sevars, evars
<1>3. RecvInv /\ OutPort /\ InPort
  BY DEF PortOk
<1>4. ASSUME UNCHANGED <<recvs, slave, losses, lates>> PROVE InPort'
  BY <1>3, <1>4, InStays DEF recvs, slave
<1>5. ASSUME TakeAndReturn("foe") PROVE InPort' /\ UNCHANGED <<wrote, handler, losses, lates>>
  BY <1>3, <1>5, FoeTakes DEF TakeAndReturn, slave
<1>6. ASSUME UNCHANGED <<sends, wrote, handler>> PROVE OutPort'
  BY <1>2, <1>3, <1>6, OutStays DEF sends
<1>7. CASE FoeCall
  <2>1. PICK op \in FoeOps : \E nr, next : FoeSend(FoeMessage(op, nr, <<>>), next)
    <3>1. PICK call : \E next :
             FoeSend(FoeMessage(IF call.op = "read" THEN "RRQ" ELSE "WRQ", call.file, <<>>), next)
      BY <1>7, Zenon DEF FoeCall
    <3>2. (IF call.op = "read" THEN "RRQ" ELSE "WRQ") \in FoeOps
      BY DEF FoeOps
    <3>3. QED
      BY <3>1, <3>2, Zenon
  <2>2. UNCHANGED <<recvs, slave, losses, lates>>
    BY <1>7 DEF FoeCall
  <2>3. QED
    BY <1>2, <1>3, <1>4, <2>1, <2>2, FoeSendIs DEF recvs, slave
<1>8. CASE FoeReadData
  <2>1. PICK nr, next : FoeSend(FoeMessage("ACK", nr, <<>>), next)
    BY <1>8, Zenon DEF FoeReadData
  <2>2. TakeAndReturn("foe")
    BY <1>8 DEF FoeReadData
  <2>3. "ACK" \in FoeOps
    BY DEF FoeOps
  <2>4. QED
    BY <1>2, <1>3, <1>5, <2>1, <2>2, <2>3, FoeSendIs
<1>9. CASE FoeReadOther
  BY <1>2, <1>5, <1>6, <1>9 DEF FoeReadOther
<1>10. CASE FoeWriteAnswer
  BY <1>2, <1>5, <1>6, <1>10 DEF FoeWriteAnswer
<1>11. CASE FoeWritePacket
  <2>1. PICK nr, part, next : FoeSend(FoeMessage("DATA", nr, part), next)
    BY <1>11, Zenon DEF FoeWritePacket
  <2>2. UNCHANGED <<recvs, slave, losses, lates>>
    BY <1>11 DEF FoeWritePacket
  <2>3. "DATA" \in FoeOps
    BY DEF FoeOps
  <2>4. QED
    BY <1>2, <1>3, <1>4, <2>1, <2>2, <2>3, FoeSendIs DEF recvs, slave
<1>12. CASE FoeTimeout
  <2>1. UNCHANGED <<sends, recvs, slave, losses>> /\ lates \subseteq lates'
    BY <1>12 DEF FoeTimeout, Expires
  <2>2. InPort'
    BY <1>3, <2>1, InStays DEF recvs, slave
  <2>3. QED
    BY <1>2, <1>6, <2>1, <2>2 DEF recvs, slave
<1>13. QED
  BY <1>1, <1>7, <1>8, <1>9, <1>10, <1>11, <1>12 DEF FoeNext
-----------------------------------------------------------------------------
(* The steps of FoE keep what is said of its messages.                     *)

Acks(o) == \A i \in Foes(o) : o[i].op = "ACK" /\ o[i].nr \in Nat

LEMMA AcksOut ==
    ASSUME OutOk(Out, In), Foes(In) # {} \/ foe.pc \in {"idle", "packet"}
    PROVE  Acks(Out)
BY DEF OutOk, Request, Acks

LEMMA AcksOk ==
    ASSUME Acks(Out'), foe'.call # 0
    PROVE  OutOk(Out, In)'
BY DEF OutOk, Request, Acks, Is

LEMMA NoneOk ==
    ASSUME Foes(In') = {}
    PROVE  InOk(In)'
BY DEF InOk, ReadAnswers, Is

\* A call that has ended.
LEMMA IdleGood ==
    ASSUME foe'.pc = "idle", foe'.call # 0, Acks(Out'), LeftOver(Out)',
           foe'.call < Len(foe_calls') => Foes(In') = {}
    PROVE  Good'
<1>1. OutOk(Out, In)'
  BY AcksOk
<1>2. WriteOk' /\ ReadOk(Out, In, losses)'
  BY DEF WriteOk, ReadOk
<1>3. InOk(In)'
  BY DEF InOk
<1>4. QED
  BY <1>1, <1>2, <1>3 DEF Good, GoodWith

LEMMA SentIs ==
    ASSUME NEW m, Sent(m)
    PROVE  \E p \in DOMAIN Out' :
              /\ Out'[p] = m
              /\ \A i \in Foes(Out') : i # p => \E j \in Foes(Out) : Out'[i] = Out[j]
<1>1. PICK p : Inserted(Out, p, m, Out')
  BY DEF Sent
<1>2. Kept(Out, {}, Out', {p}) /\ p \in DOMAIN Out' /\ Out'[p] = m
  BY <1>1, InsertKeeps
<1>3. ASSUME NEW i \in Foes(Out'), i # p PROVE \E j \in Foes(Out) : Out'[i] = Out[j]
  BY <1>2, <1>3 DEF Kept
<1>4. QED
  BY <1>2, <1>3

LEMMA TakenIs ==
    ASSUME RecvInv, InPort, TakeAndReturn("foe")
    PROVE  /\ 1 \in Foes(In) /\ In[1] = Received("foe")
           /\ Kept(In, {1}, In', {}) /\ AllKept(In, {1}, In')
           /\ Foes(In) = {1} => Foes(In') = {}
<1>1. Inserted(In', 1, Received("foe"), In) /\ 1 \in Foes(In)
  BY FoeTakes
<1>2. Kept(In, {1}, In', {}) /\ AllKept(In, {1}, In') /\ In[1] = Received("foe")
  BY <1>1, RemoveKeeps
<1>3. Foes(In) = {1} => Foes(In') = {}
  BY <1>2 DEF Kept
<1>4. QED
  BY <1>1, <1>2, <1>3

LEMMA LeftOverSame ==
    ASSUME LeftOver(Out), Between(Out), UNCHANGED <<server, room>>,
           \A i \in Is(Out', "ACK") : \E j \in Is(Out, "ACK") : Out'[i].nr = Out[j].nr
    PROVE  LeftOver(Out)'
<1>1. FoeSends(server)' = FoeSends(server)
  BY DEF FoeSends, Part
<1>2. QED
  BY <1>1 DEF LeftOver

LEMMA GoodIs == Good <=> /\ OutOk(Out, In) /\ LeftOver(Out) /\ WriteOk /\ InOk(In)
                         /\ ReadOk(Out, In, losses)
BY DEF Good, GoodWith

LEMMA CallGood ==
    ASSUME NullIsNone, FoeTypes, PortOk, Good, FoeCall, UNCHANGED soe_calls
    PROVE  Good'
<1> DEFINE n == foe.call + 1
           call == foe_calls[n]
           op == IF call.op = "read" THEN "RRQ" ELSE "WRQ"
           m == FoeMessage(op, call.file, <<>>)
           next == [pc |-> call.op, call |-> n, ret |-> NULL, got |-> <<>>,
                    pos |-> 0, nr |-> 0, last |-> FALSE]
<1>1. /\ foe.pc = "idle" /\ foe.call < Len(foe_calls)
      /\ UNCHANGED <<recvs, slave, losses, lates, foe_calls, room, server, store>>
      /\ FoeSend(m, next)
  BY DEF FoeCall, FoeOnly
<1>2. OutOk(Out, In) /\ LeftOver(Out) /\ InOk(In)
  BY GoodIs
<1>3. RecvInv /\ OutPort /\ InPort
  BY DEF PortOk
<1>4. In' = In /\ Foes(In) = {}
  BY <1>1, <1>2, <1>3, InStays DEF recvs, slave, InOk
<1>5. Acks(Out)
  BY <1>1, <1>2, AcksOut
<1>6. /\ m.op = op /\ m.nr = call.file
      /\ call.op \in {"read", "write"}
      /\ n \in Nat /\ n >= 1 /\ foe.call \in Nat
  <2>1. m.op = op /\ m.nr = call.file
    BY DEF FoeMessage, Message
  <2> DEFINE R == [op : {"read", "write"}, file : DOMAIN Files]
  <2>2. foe_calls \in Seq(R) /\ foe.call \in 0 .. Len(foe_calls)
    BY DEF FoeTypes
  <2>3. n \in 1 .. Len(foe_calls) /\ foe.call \in Nat
    BY <1>1, <2>2
  <2>4. call \in R
    <3> HIDE DEF R, n
    <3>1. QED
      BY <2>2, <2>3
  <2>5. QED
    BY <2>1, <2>3, <2>4
<1>7. \/ Sent(m) /\ foe' = next
      \/ Out' = Out /\ foe' = [next EXCEPT !.pc = "idle", !.ret = "no_buffer"]
  <2>1. op \in FoeOps
    BY DEF FoeOps
  <2> HIDE DEF next, op
  <2>2. QED
    BY <1>1, <1>3, <2>1, FoeSendIs DEF recvs, slave
<1>8. /\ next.pc = call.op /\ next.call = n /\ next.got = <<>> /\ next.pos = 0 /\ next.nr = 0
      /\ ~next.last
      /\ DOMAIN next = FoeFields
  BY DEF FoeFields
<1>9. Between(Out)
  BY <1>1 DEF Between
<1>10. CASE Sent(m) /\ foe' = next
  <2>1. PICK p \in DOMAIN Out' :
              /\ Out'[p] = m
              /\ \A i \in Foes(Out') : i # p => \E j \in Foes(Out) : Out'[i] = Out[j]
    BY <1>10, SentIs
  <2>2. /\ foe'.pc = call.op /\ foe'.call = n /\ foe'.got = <<>> /\ foe'.pos = 0 /\ foe'.nr = 0
        /\ ~foe'.last
    BY <1>8, <1>10
  <2>3. Call' = call
    BY <1>1, <2>2 DEF Call
  <2>4. m.pool = "foe" /\ op # "ACK" /\ (op = "RRQ" <=> call.op = "read")
        /\ (op = "WRQ" <=> call.op = "write") /\ op \in {"RRQ", "WRQ"}
    BY <1>6 DEF FoeMessage, Message
  <2> HIDE DEF m, op, call, n, next
  <2>5. \A i \in Foes(Out') : i # p => Out'[i].op = "ACK" /\ Out'[i].nr \in Nat
    BY <1>5, <2>1 DEF Acks
  <2>6. OutOk(Out, In)'
    <3>1. \A i \in Foes(Out') : Request(Out[i])'
      <4>1. \A i \in Foes(Out') : i # p => Request(Out[i])'
        BY <2>5 DEF Request
      <4>2. Request(Out[p])'
        BY <1>6, <2>1, <2>2, <2>3, <2>4 DEF Request
      <4>3. QED
        BY <4>1, <4>2
    <3>2. \A i, j \in Foes(Out') : Out'[i].op # "ACK" /\ Out'[j].op # "ACK" => i = j
      BY <2>5
    <3>3. Foes(In') = {}
      BY <1>4
    <3>4. foe'.call # 0
      BY <1>6, <2>2
    <3>5. foe'.call = 1 => Is(Out', "ACK") = {}
      <4>1. foe'.call = 1 => foe.call = 0
        BY <1>6, <2>2 DEF n
      <4>2. foe'.call = 1 => Foes(Out) = {}
        BY <1>2, <4>1 DEF OutOk
      <4>3. ASSUME foe'.call = 1, NEW i \in Is(Out', "ACK") PROVE FALSE
        <5>1. i \in Foes(Out') /\ i # p
          BY <1>6, <2>1, <2>4, <4>3 DEF Is
        <5>2. QED
          BY <2>1, <4>2, <4>3, <5>1
      <4>4. QED
        BY <4>3
    <3>6. QED
      BY <3>1, <3>2, <3>3, <3>4, <3>5 DEF OutOk
  <2>7. LeftOver(Out)'
    <3>1. \A i \in Is(Out', "ACK") : \E j \in Is(Out, "ACK") : Out'[i].nr = Out[j].nr
      BY <1>6, <2>1, <2>4 DEF Is
    <3>2. QED
      BY <1>1, <1>2, <1>9, <3>1, LeftOverSame
  <2>8. WriteOk'
    BY <1>6, <2>2 DEF WriteOk
  <2>9. InOk(In)'
    BY <1>4, NoneOk
  <2>10. ReadOk(Out, In, losses)'
    <3>1. foe'.pc = "read" => p \in Is(Out', "RRQ")
      BY <1>6, <2>1, <2>2, <2>4 DEF Is, Foes
    <3>2. QED
      BY <3>1 DEF ReadOk
  <2>11. QED
    BY <2>6, <2>7, <2>8, <2>9, <2>10, GoodIs DEF Good, GoodWith
<1>11. CASE Out' = Out /\ foe' = [next EXCEPT !.pc = "idle", !.ret = "no_buffer"]
  <2>1. foe'.pc = "idle" /\ foe'.call = n
    BY <1>8, <1>11 DEF FoeFields
  <2>2. foe'.call # 0 /\ Acks(Out') /\ Foes(In') = {}
    BY <1>4, <1>5, <1>6, <1>11, <2>1
  <2>3. LeftOver(Out)'
    BY <1>1, <1>2, <1>9, <1>11, LeftOverSame
  <2>4. QED
    BY <2>1, <2>2, <2>3, IdleGood
<1>12. QED
  BY <1>7, <1>10, <1>11

\* What the thread takes while it reads.
LEMMA ReadTakes ==
    ASSUME RecvInv, InPort, Good, foe.pc = "read", TakeAndReturn("foe")
    PROVE  /\ 1 \in Foes(In) /\ In[1] = Received("foe")
           /\ Acks(Out) /\ Is(Out, "RRQ") = {} /\ ReadAnswers(In) /\ Foes(In) \subseteq Nat \ {0}
           /\ \E a, s \in Nat : Chain(Out, In, losses, a, s)
<1>1. OutOk(Out, In) /\ InOk(In) /\ ReadOk(Out, In, losses)
  BY GoodIs
<1>2. 1 \in Foes(In) /\ In[1] = Received("foe")
  BY TakenIs
<1>3. Acks(Out)
  BY <1>1, <1>2, AcksOut
<1>4. Is(Out, "RRQ") = {}
  BY <1>3 DEF Is, Acks
<1>5. Foes(In) \subseteq Nat \ {0}
  BY InSeq, SeqLen DEF Foes
<1>6. ReadAnswers(In)
  BY <1>1 DEF InOk
<1>7. QED
  BY <1>1, <1>2, <1>3, <1>4, <1>5, <1>6 DEF ReadOk

LEMMA ReadAnswersKept ==
    ASSUME ReadAnswers(In), Foes(In) \subseteq Nat, UNCHANGED server, Kept(In, {1}, In', {}),
           Foes(In') \subseteq Nat
    PROVE  ReadAnswers(In)'
<1>1. PICK g : \A i \in Foes(In') : /\ g[i] \in Foes(In) \ {1} /\ In'[i] = In[g[i]]
                                    /\ \A j \in Foes(In') : i < j => g[i] < g[j]
  BY DEF Kept
<1>2. \A i \in Foes(In') : In'[i].op \in {"DATA", "BUSY", "ERR"}
  BY <1>1 DEF ReadAnswers
<1>3. ASSUME NEW i \in Is(In', "BUSY"), NEW j \in Foes(In') PROVE i <= j
  <2>1. i \in Foes(In') /\ g[i] \in Is(In, "BUSY") /\ g[j] \in Foes(In)
    BY <1>1, <1>3 DEF Is
  <2>2. g[i] <= g[j]
    BY <2>1 DEF ReadAnswers
  <2>3. ~(g[j] < g[i])
    BY <2>1, <2>2 DEF Is
  <2>4. QED
    BY <1>1, <2>1, <2>3
<1>4. ASSUME NEW i \in Is(In', "ERR"), NEW j \in Foes(In') PROVE i = j
  <2>1. i \in Foes(In') /\ g[i] \in Is(In, "ERR") /\ g[j] \in Foes(In)
    BY <1>1, <1>4 DEF Is
  <2>2. g[i] = g[j]
    BY <2>1 DEF ReadAnswers
  <2>3. ~(g[i] < g[j]) /\ ~(g[j] < g[i])
    BY <2>1, <2>2
  <2>4. QED
    BY <1>1, <2>1, <2>3
<1>5. Is(In', "ERR") # {} => Is(In, "ERR") # {}
  BY <1>1 DEF Is
<1>6. QED
  BY <1>2, <1>3, <1>4, <1>5 DEF ReadAnswers

\* The packet the thread takes is the next one of the file.
LEMMA NextPacket ==
    ASSUME FoeTypes, RecvInv, InPort, OthersOk, Sound, Good, foe.pc = "read",
           TakeAndReturn("foe"), Received("foe").op = "DATA",
           NEW a \in Nat, NEW s \in Nat, Chain(Out, In, losses, a, s)
    PROVE  /\ Received("foe").nr = a + 1 /\ a + 1 <= s
           /\ Received("foe").payload = Part(Content, a * room.read, room.read)
           /\ \A i \in Foes(In) : In[i].op = "DATA" /\ (i # 1 => In[i].nr > a + 1)
           /\ foe.call = 1 => Foes(In) = {1}
<1> DEFINE m == Received("foe")
<1>1. /\ 1 \in Foes(In) /\ In[1] = m
      /\ ReadAnswers(In) /\ Foes(In) \subseteq Nat \ {0}
  BY ReadTakes
<1>2. \A i \in Foes(In) : In[i].op = "DATA"
  <2>1. 1 \notin Is(In, "BUSY") /\ 1 \notin Is(In, "ERR")
    BY <1>1 DEF Is
  <2>2. Is(In, "BUSY") = {}
    BY <1>1, <2>1 DEF ReadAnswers, Is
  <2>3. Is(In, "ERR") = {}
    BY <1>1, <2>1 DEF ReadAnswers, Is
  <2>4. QED
    BY <1>1, <2>2, <2>3 DEF ReadAnswers, Is
<1>3. Is(In, "DATA") = Foes(In)
  BY <1>2 DEF Is
<1>4. \A i \in Foes(In) : Packet(In[i], a, s)
  BY <1>3 DEF Chain
<1>5. \A i \in Foes(In) : In[i].nr \in a + 1 .. s /\ In[i].nr \in Nat
  BY <1>4 DEF Packet
<1>6. \A i, j \in Foes(In) : i < j => In[i].nr < In[j].nr
  BY <1>3 DEF Chain
<1>7. \A i \in Foes(In) : i # 1 => In[1].nr < In[i].nr
  BY <1>1, <1>6
<1>8. foe.call = 1 => s <= a + 1
  BY DEF Chain
<1>9. In[1].nr = a + 1
  <2>1. CASE losses = 0
    <3>1. a + 1 \in a + 1 .. s
      BY <1>1, <1>5
    <3>2. PICK i \in Foes(In) : In[i].nr = a + 1
      BY <1>3, <2>1, <3>1 DEF Chain
    <3>3. QED
      BY <1>1, <1>5, <1>7, <3>2
  <2>2. CASE losses # 0
    <3>1. Len(foe_calls) <= 1 /\ Len(foe_calls) \in Nat /\ foe.call \in 0 .. Len(foe_calls) /\ foe.call >= 1
      BY <2>2 DEF Sound, FoeTypes
    <3>2. foe.call = 1
      BY <3>1
    <3>3. QED
      BY <1>1, <1>5, <1>8, <3>2
  <2>3. QED
    BY <2>1, <2>2
<1>10. a + 1 <= s /\ a + 1 - 1 = a
  BY <1>1, <1>5, <1>9
<1>11. m.payload = Part(Content, a * room.read, room.read)
  BY <1>1, <1>4, <1>9, <1>10 DEF Packet
<1>12. \A i \in Foes(In) : i # 1 => In[i].nr > a + 1
  BY <1>5, <1>7, <1>9
<1>13. foe.call = 1 => Foes(In) = {1}
  BY <1>1, <1>5, <1>8, <1>12
<1>14. QED
  BY <1>1, <1>2, <1>9, <1>10, <1>11, <1>12, <1>13

\* What is known once a packet is taken, before the two ways it may go on.
LEMMA ReadDataIs ==
    ASSUME NullIsNone, FoeTypes, PortOk, OthersOk, Sound, Good, FoeReadData, UNCHANGED soe_calls,
           NEW a \in Nat, NEW s \in Nat, Chain(Out, In, losses, a, s)
    PROVE  /\ foe.pc = "read" /\ TakeAndReturn("foe") /\ Received("foe").op = "DATA"
           /\ UNCHANGED <<foe_calls, room, server, store, losses>>
           /\ foe'.call = foe.call /\ foe.call >= 1
           /\ foe'.pc = "idle" \/ (foe'.pc = "read" /\ Len(Received("foe").payload) = room.read)
           /\ foe'.got = SubSeq(Content, 1, a * room.read + Len(Received("foe").payload))
           /\ Acks(Out')
           /\ \A i \in Is(Out', "ACK") :
                 \/ \E j \in Is(Out, "ACK") : Out'[i].nr = Out[j].nr
                 \/ Out'[i].nr = a + 1 /\ (foe'.pc = "idle" => Len(Received("foe").payload) < room.read)
           /\ foe'.pc = "idle" => /\ foe'.ret \in {"ok", "no_buffer"}
                                  /\ foe'.ret = "ok" => foe'.got = Content
<1> DEFINE m == Received("foe")
           r == room.read
           got == [foe EXCEPT !.got = @ \o m.payload]
           next == IF Len(m.payload) < r THEN [got EXCEPT !.pc = "idle", !.ret = "ok"] ELSE got
           ack == FoeMessage("ACK", m.nr, <<>>)
<1>1. /\ foe.pc = "read" /\ TakeAndReturn("foe") /\ m.op = "DATA"
      /\ UNCHANGED <<foe_calls, room, server, store, losses, wrote, handler>>
      /\ FoeSend(ack, next)
  BY DEF FoeReadData, FoeOnly, TakeAndReturn, slave
<1>2. RecvInv /\ OutPort /\ InPort /\ r \in Nat \ {0} /\ foe.call >= 1
  BY <1>1 DEF PortOk, OthersOk, FoeTypes
<1>3. /\ m.nr = a + 1
      /\ m.payload = Part(Content, a * r, r)
  BY <1>1, <1>2, NextPacket
<1>4. Content \in Seq(Units) /\ a * r \in Nat /\ a * r <= Len(Content)
      /\ foe.got = SubSeq(Content, 1, a * r)
  BY <1>2, FileIs, NextMultiple DEF Chain
<1>5. /\ Len(m.payload) \in Nat /\ Len(m.payload) <= r
      /\ Len(m.payload) < r => a * r + Len(m.payload) = Len(Content)
      /\ foe.got \o m.payload = SubSeq(Content, 1, a * r + Len(m.payload))
  <2> DEFINE n == a * r
             p == Part(Content, n, r)
  <2>1. n \in Nat /\ n <= Len(Content) /\ Content \in Seq(Units) /\ r \in Nat \ {0}
    BY <1>2, <1>4
  <2> HIDE DEF n, r
  <2>2. /\ Len(p) \in Nat /\ Len(p) <= r
        /\ Len(p) < r => n + Len(p) = Len(Content)
        /\ SubSeq(Content, 1, n) \o p = SubSeq(Content, 1, n + Len(p))
    BY <2>1, PartIs
  <2>3. m.payload = p /\ foe.got = SubSeq(Content, 1, n)
    BY <1>3, <1>4 DEF n
  <2> HIDE DEF p, m
  <2>4. QED
    BY <2>2, <2>3 DEF n
<1>6. \/ Sent(ack) /\ foe' = next
      \/ Out' = Out /\ foe' = [next EXCEPT !.pc = "idle", !.ret = "no_buffer"]
  <2>1. "ACK" \in FoeOps
    BY DEF FoeOps
  <2> HIDE DEF next, m
  <2>2. QED
    BY <1>1, <1>2, <2>1, FoeSendIs
<1>7. /\ DOMAIN got = FoeFields /\ got.pc = "read" /\ got.call = foe.call
      /\ got.got = foe.got \o m.payload /\ got.ret = foe.ret
  <2> HIDE DEF m
  <2>1. QED
    BY <1>1 DEF FoeTypes, FoeFields
<1>8. /\ DOMAIN next = FoeFields /\ next.call = foe.call /\ next.got = foe.got \o m.payload
      /\ IF Len(m.payload) < r THEN next.pc = "idle" /\ next.ret = "ok"
                               ELSE next.pc = "read" /\ next.ret = foe.ret
  <2> HIDE DEF m, got
  <2>1. QED
    BY <1>7 DEF FoeFields
<1>9. Acks(Out) /\ Is(Out, "RRQ") = {}
  BY <1>1, <1>2, ReadTakes
<1>10. ack.op = "ACK" /\ ack.nr = a + 1 /\ ack.pool = "foe"
  <2> HIDE DEF m
  <2>1. QED
    BY <1>3 DEF FoeMessage, Message
<1>11. "no_buffer" # "ok"
  OBVIOUS
<1> HIDE DEF ack, next, got
<1>12. CASE Sent(ack) /\ foe' = next
  <2>1. PICK p \in DOMAIN Out' :
              /\ Out'[p] = ack
              /\ \A i \in Foes(Out') : i # p => \E j \in Foes(Out) : Out'[i] = Out[j]
    BY <1>12, SentIs
  <2>2. Acks(Out')
    BY <1>9, <1>10, <2>1 DEF Acks
  <2>3. foe'.pc = "idle" => Len(m.payload) < r
    BY <1>8, <1>12
  <2>4. \A i \in Is(Out', "ACK") : \/ \E j \in Is(Out, "ACK") : Out'[i].nr = Out[j].nr
                                   \/ Out'[i].nr = a + 1 /\ (foe'.pc = "idle" => Len(m.payload) < r)
    BY <1>9, <1>10, <2>1, <2>3 DEF Is, Acks
  <2>5. foe'.got = SubSeq(Content, 1, a * r + Len(m.payload)) /\ foe'.call = foe.call
    BY <1>5, <1>8, <1>12
  <2>6. foe'.pc = "idle" \/ (foe'.pc = "read" /\ Len(m.payload) = r)
    BY <1>2, <1>5, <1>8, <1>12
  <2>7. Len(m.payload) < r => foe'.got = Content
    BY <1>4, <1>5, <2>5, WholeIs
  <2>8. foe'.pc = "idle" => foe'.ret = "ok" /\ foe'.got = Content
    BY <1>8, <1>12, <2>7
  <2>9. QED
    BY <1>1, <1>2, <2>2, <2>4, <2>5, <2>6, <2>8
<1>13. CASE Out' = Out /\ foe' = [next EXCEPT !.pc = "idle", !.ret = "no_buffer"]
  <2>1. foe'.pc = "idle" /\ foe'.ret = "no_buffer" /\ foe'.call = foe.call
        /\ foe'.got = foe.got \o m.payload
    BY <1>8, <1>13 DEF FoeFields
  <2>2. QED
    BY <1>1, <1>2, <1>5, <1>9, <1>13, <2>1
<1>14. QED
  BY <1>6, <1>12, <1>13

LEMMA QueuesAre == PortOk => IsSeq(Out) /\ IsSeq(In)
BY OutSeq, InSeq DEF PortOk, OutPort

LEMMA QueuesAreNext == PortOk' => IsSeq(Out') /\ IsSeq(In')
<1>1. (PortOk => IsSeq(Out) /\ IsSeq(In))'
  BY QueuesAre, PTL
<1>2. QED
  BY <1>1

LEMMA ReadDataGood ==
    ASSUME NullIsNone, FoeTypes, PortOk, OthersOk, Sound, Good, FoeReadData, UNCHANGED soe_calls,
           PortOk'
    PROVE  Good'
<1> DEFINE m == Received("foe")
           r == room.read
<1>1. RecvInv /\ OutPort /\ InPort /\ r \in Nat \ {0} /\ foe.pc = "read" /\ TakeAndReturn("foe")
      /\ m.op = "DATA" /\ foe_calls' = foe_calls /\ foe.call \in Nat
  BY DEF PortOk, OthersOk, FoeReadData, FoeOnly, FoeTypes
<1>2. PICK a, s \in Nat : Chain(Out, In, losses, a, s)
  BY <1>1, ReadTakes
<1>3. /\ UNCHANGED <<room, server, store, losses>>
      /\ foe'.call = foe.call /\ foe.call >= 1
      /\ foe'.pc = "idle" \/ (foe'.pc = "read" /\ Len(m.payload) = r)
      /\ foe'.got = SubSeq(Content, 1, a * r + Len(m.payload))
      /\ Acks(Out')
      /\ \A i \in Is(Out', "ACK") :
            \/ \E j \in Is(Out, "ACK") : Out'[i].nr = Out[j].nr
            \/ Out'[i].nr = a + 1 /\ (foe'.pc = "idle" => Len(m.payload) < r)
  BY <1>2, ReadDataIs
<1>4. Call' = Call /\ Content' = Content
  BY <1>1, <1>3, CallSame
<1>5. /\ m.nr = a + 1 /\ a + 1 <= s
      /\ m.payload = Part(Content, a * r, r)
      /\ \A i \in Foes(In) : In[i].op = "DATA" /\ (i # 1 => In[i].nr > a + 1)
      /\ foe.call = 1 => Foes(In) = {1}
  BY <1>1, <1>2, NextPacket
<1>6. /\ 1 \in Foes(In) /\ In[1] = m
      /\ Kept(In, {1}, In', {}) /\ AllKept(In, {1}, In')
      /\ Foes(In) = {1} => Foes(In') = {}
  BY <1>1, TakenIs
<1>7. ReadAnswers(In) /\ Foes(In) \subseteq Nat \ {0} /\ Is(Out, "RRQ") = {}
  BY <1>1, ReadTakes
<1>8. Foes(In') \subseteq Nat
  <2>1. IsSeq(In')
    BY QueuesAreNext
  <2>2. QED
    BY <2>1, SeqLen DEF Foes
<1>9. CASE foe'.pc = "idle"
  <2>1. foe'.call # 0 /\ foe'.pc = "idle"
    BY <1>1, <1>3, <1>9
  <2>2. foe'.call < Len(foe_calls') => foe.call = 1
    BY <1>1, <1>3 DEF Sound, FoeTypes
  <2>3. foe'.call < Len(foe_calls') => Foes(In') = {}
    BY <1>5, <1>6, <2>2
  <2>4. LeftOver(Out)'
    <3> SUFFICES ASSUME Between(Out)', server'.mode = "read", NEW i \in Is(Out', "ACK"),
                        Out'[i].nr = server'.nr
                 PROVE  Len(FoeSends(server)'.payload) < room'.read
      BY DEF LeftOver
    <3>1. foe.call = 1
      BY <2>1, <2>2 DEF Between
    <3>2. /\ s = server.nr /\ server.file = Call.file /\ server.pos = (s - 1) * r
          /\ s <= a + 1 /\ \A j \in Is(Out, "ACK") : Out[j].nr <= a
      BY <1>2, <1>3, <3>1 DEF Chain
    <3>3. s = a + 1 /\ s - 1 = a
      BY <1>5, <3>2
    <3>4. ~\E j \in Is(Out, "ACK") : Out'[i].nr = Out[j].nr
      BY <1>3, <3>2, <3>3
    <3>5. Len(m.payload) < r
      BY <1>3, <1>9, <3>4
    <3>6. FoeSends(server)' = FoeSends(server)
      BY <1>3 DEF FoeSends, Part
    <3>7. FoeSends(server).payload = Part(Content, a * r, r)
      BY <3>2, <3>3 DEF FoeSends, FoeMessage, Message, Content
    <3>8. QED
      BY <1>3, <1>5, <3>5, <3>6, <3>7
  <2>5. QED
    BY <1>3, <2>1, <2>3, <2>4, IdleGood
<1>10. CASE foe'.pc = "read" /\ Len(m.payload) = r
  <2>1. OutOk(Out, In)'
    BY <1>1, <1>3, AcksOk
  <2>2. Is(Out', "RRQ") = {}
    BY <1>3 DEF Acks, Is
  <2>3. LeftOver(Out)'
    BY <1>10, <2>2 DEF LeftOver, Between
  <2>4. WriteOk'
    BY <1>10 DEF WriteOk
  <2>5. InOk(In)'
    <3>1. ReadAnswers(In)'
      BY <1>3, <1>6, <1>7, <1>8, ReadAnswersKept
    <3>2. QED
      BY <1>10, <3>1 DEF InOk
  <2>6. Chain(Out, In, losses, a + 1, s)'
    <3>1. PICK g : \A i \in Foes(In') : /\ g[i] \in Foes(In) \ {1} /\ In'[i] = In[g[i]]
                                        /\ \A j \in Foes(In') : i < j => g[i] < g[j]
      BY <1>6 DEF Kept
    <3>2. \A i \in Is(In', "DATA") : /\ i \in Foes(In') /\ g[i] \in Is(In, "DATA") /\ g[i] # 1
                                     /\ In'[i] = In[g[i]]
      BY <3>1 DEF Is
    <3>3. (a + 1) * r = a * r + r /\ a * r \in Nat
      BY <1>1, NextMultiple
    <3>4. (a + 1) * r <= Len(Content) /\ foe'.got = SubSeq(Content, 1, (a + 1) * r)
      <4>1. a * r <= Len(Content) /\ Content \in Seq(Units)
        BY <1>2, <1>3, FileIs DEF Chain
      <4>2. a * r + Len(m.payload) <= Len(Content)
        <5>1. a * r \in Nat /\ r \in Nat \ {0}
          BY <1>1, <3>3
        <5>2. a * r + Len(Part(Content, a * r, r)) <= Len(Content)
          BY <4>1, <5>1, PartIs, Zenon
        <5> QED  BY <1>5, <5>2
      <4>3. QED
        BY <1>3, <1>10, <3>3, <4>2
    <3>5. \A i \in Is(In', "DATA") : Packet(In[g[i]], a + 1, s)
      <4>1. \A j \in Is(In, "DATA") : Packet(In[j], a, s)
        BY <1>2 DEF Chain
      <4>2. \A i \in Is(In', "DATA") : In[g[i]].nr > a + 1
        BY <1>5, <3>2 DEF Is
      <4>3. QED
        BY <3>2, <4>1, <4>2 DEF Packet
    <3>6. \A i \in Is(In', "DATA") : Packet(In[i], a + 1, s)'
      BY <1>3, <1>4, <3>2, <3>5 DEF Packet, Part
    <3>7. \A i, j \in Is(In', "DATA") : i < j => In'[i].nr < In'[j].nr
      BY <1>2, <3>1, <3>2 DEF Chain
    <3>8. losses' = 0 => \A n \in a + 1 + 1 .. s : \E i \in Is(In', "DATA") : In'[i].nr = n
      <4> SUFFICES ASSUME losses' = 0, NEW n \in a + 1 + 1 .. s
                   PROVE  \E i \in Is(In', "DATA") : In'[i].nr = n
        OBVIOUS
      <4>1. losses = 0 /\ n \in a + 1 .. s /\ n # a + 1
        BY <1>3
      <4>2. PICK i \in Is(In, "DATA") : In[i].nr = n
        BY <1>2, <4>1 DEF Chain
      <4>3. i # 1 /\ i \in Foes(In)
        BY <1>5, <1>6, <4>1, <4>2 DEF Is
      <4>4. PICK j \in Foes(In') : In'[j] = In[i]
        BY <1>6, <4>3 DEF AllKept
      <4>5. QED
        BY <4>2, <4>4 DEF Is
    <3>9. foe'.call = 1 => s <= a + 1 + 1 /\ \A i \in Is(Out', "ACK") : Out'[i].nr <= a + 1
      <4>1. foe.call = 1 => s <= a + 1 /\ \A i \in Is(Out, "ACK") : Out[i].nr <= a
        BY <1>2 DEF Chain
      <4>2. \A i \in Is(Out', "ACK") : Out'[i].nr \in Nat
        BY <1>3 DEF Acks, Is
      <4>3. QED
        BY <1>3, <4>1, <4>2
    <3>10. server.mode # "write"
           /\ (server.mode = "read" => s = server.nr /\ s >= 1 /\ server.file = Call.file
                                      /\ server.pos = (s - 1) * r /\ server.pos <= Len(Content))
      BY <1>2 DEF Chain
    <3>11. QED
      BY <1>3, <1>4, <1>5, <3>4, <3>6, <3>7, <3>8, <3>9, <3>10 DEF Chain
  <2>7. ReadOk(Out, In, losses)'
    <3>1. a + 1 \in Nat
      OBVIOUS
    <3>2. \E b, t \in Nat : Chain(Out, In, losses, b, t)'
      BY <2>6, <3>1
    <3>3. QED
      BY <3>2 DEF ReadOk
  <2>8. QED
    BY <2>1, <2>3, <2>4, <2>5, <2>7 DEF Good, GoodWith
<1>11. QED
  BY <1>3, <1>9, <1>10

LEMMA ReturnIs ==
    ASSUME FoeTypes, NEW ret, FoeReturn(ret)
    PROVE  /\ foe'.pc = "idle" /\ foe'.ret = ret /\ foe'.call = foe.call
           /\ foe'.got = foe.got
BY DEF FoeReturn, FoeTypes, FoeFields

LEMMA ReadOtherIs ==
    ASSUME FoeTypes, PortOk, Good, FoeReadOther, UNCHANGED soe_calls
    PROVE  /\ foe.pc = "read" /\ TakeAndReturn("foe") /\ Received("foe").op # "DATA"
           /\ UNCHANGED <<foe_calls, room, server, store, losses>> /\ Out' = Out
           /\ \/ Received("foe").op = "ERR" /\ FoeReturn("refused")
              \/ Received("foe").op = "BUSY" /\ foe' = foe
<1>1. /\ foe.pc = "read" /\ TakeAndReturn("foe") /\ Received("foe").op # "DATA"
      /\ UNCHANGED <<foe_calls, room, server, store, losses, wrote, handler, sends>>
      /\ IF Received("foe").op = "ERR" THEN FoeReturn("refused") ELSE foe' = foe
  BY DEF FoeReadOther, FoeOnly, TakeAndReturn, slave
<1>2. RecvInv /\ OutPort /\ InPort
  BY DEF PortOk
<1>3. Out' = Out
  BY <1>1, <1>2, OutStays DEF sends
<1>4. 1 \in Foes(In) /\ In[1] = Received("foe") /\ ReadAnswers(In)
  BY <1>1, <1>2, ReadTakes
<1>5. Received("foe").op \in {"BUSY", "ERR"}
  BY <1>1, <1>4 DEF ReadAnswers
<1>6. QED
  BY <1>1, <1>3, <1>5

LEMMA ReadOtherGood ==
    ASSUME FoeTypes, PortOk, Good, FoeReadOther, UNCHANGED soe_calls, PortOk'
    PROVE  Good'
<1> DEFINE m == Received("foe")
<1>1. /\ foe.pc = "read" /\ TakeAndReturn("foe") /\ m.op # "DATA"
      /\ UNCHANGED <<foe_calls, room, server, store, losses>> /\ Out' = Out
      /\ \/ m.op = "ERR" /\ FoeReturn("refused")
         \/ m.op = "BUSY" /\ foe' = foe
  BY ReadOtherIs
<1>2. RecvInv /\ InPort /\ foe.call >= 1 /\ foe.call \in Nat
  BY <1>1 DEF PortOk, FoeTypes
<1>3. /\ 1 \in Foes(In) /\ In[1] = m
      /\ Acks(Out) /\ Is(Out, "RRQ") = {} /\ ReadAnswers(In) /\ Foes(In) \subseteq Nat \ {0}
  BY <1>1, <1>2, ReadTakes
<1>4. /\ Kept(In, {1}, In', {}) /\ AllKept(In, {1}, In')
      /\ Foes(In) = {1} => Foes(In') = {}
  BY <1>1, <1>2, TakenIs
<1>5. Acks(Out')
  BY <1>1, <1>3
<1>6. CASE m.op = "ERR" /\ FoeReturn("refused")
  <2>1. foe'.pc = "idle" /\ foe'.call = foe.call
    BY <1>6, ReturnIs
  <2>2. 1 \in Is(In, "ERR")
    BY <1>3, <1>6 DEF Is
  <2>3. Foes(In') = {} /\ server.mode # "read"
    BY <1>3, <1>4, <2>2 DEF ReadAnswers
  <2>4. LeftOver(Out)'
    BY <1>1, <2>3 DEF LeftOver
  <2>5. QED
    BY <1>2, <1>5, <2>1, <2>3, <2>4, IdleGood
<1>7. CASE m.op = "BUSY" /\ foe' = foe
  <2>1. OutOk(Out, In)'
    BY <1>2, <1>5, <1>7, AcksOk
  <2>2. LeftOver(Out)'
    BY <1>1, <1>3, <1>7 DEF LeftOver, Between
  <2>3. WriteOk'
    BY <1>1, <1>7 DEF WriteOk
  <2>4. Foes(In') \subseteq Nat
    BY QueuesAreNext, SeqLen DEF Foes
  <2>5. ReadAnswers(In)'
    BY <1>1, <1>3, <1>4, <2>4, ReadAnswersKept
  <2>6. InOk(In)'
    BY <1>1, <1>7, <2>5 DEF InOk
  <2>7. PICK a, s \in Nat : Chain(Out, In, losses, a, s)
    BY <1>1, <1>2, ReadTakes
  <2>8. PICK g : \A i \in Foes(In') : /\ g[i] \in Foes(In) \ {1} /\ In'[i] = In[g[i]]
                                      /\ \A j \in Foes(In') : i < j => g[i] < g[j]
    BY <1>4 DEF Kept
  <2>9. \A i \in Is(In', "DATA") : i \in Foes(In') /\ g[i] \in Is(In, "DATA") /\ In'[i] = In[g[i]]
    BY <2>8 DEF Is
  <2>10. UNCHANGED <<Call, Content>>
    BY <1>1, <1>7, CallSame
  <2>11. \A i \in Is(In', "DATA") : Packet(In[i], a, s)'
    <3>1. \A j \in Is(In, "DATA") : Packet(In[j], a, s)
      BY <2>7 DEF Chain
    <3>2. QED
      BY <1>1, <2>9, <2>10, <3>1 DEF Packet, Part
  <2>12. \A i, j \in Is(In', "DATA") : i < j => In'[i].nr < In'[j].nr
    BY <2>7, <2>8, <2>9 DEF Chain
  <2>13. losses' = 0 => \A n \in a + 1 .. s : \E i \in Is(In', "DATA") : In'[i].nr = n
    <3> SUFFICES ASSUME losses' = 0, NEW n \in a + 1 .. s
                 PROVE  \E i \in Is(In', "DATA") : In'[i].nr = n
      OBVIOUS
    <3>1. PICK i \in Is(In, "DATA") : In[i].nr = n
      BY <1>1, <2>7 DEF Chain
    <3>2. i # 1 /\ i \in Foes(In) /\ In[i].op = "DATA"
      BY <1>1, <1>3 DEF Is
    <3>3. PICK j \in Foes(In') : In'[j] = In[i]
      BY <1>4, <3>2 DEF AllKept
    <3>4. QED
      BY <3>1, <3>2, <3>3 DEF Is
  <2>14. Chain(Out, In, losses, a, s)'
    BY <1>1, <1>7, <2>7, <2>10, <2>11, <2>12, <2>13 DEF Chain
  <2>15. ReadOk(Out, In, losses)'
    BY <2>14 DEF ReadOk
  <2>16. QED
    BY <2>1, <2>2, <2>3, <2>6, <2>15 DEF Good, GoodWith
<1>8. QED
  BY <1>1, <1>6, <1>7

LEMMA WriteAnswerIs ==
    ASSUME FoeTypes, PortOk, OthersOk, Good, FoeWriteAnswer, UNCHANGED soe_calls
    PROVE  /\ foe.pc \in {"write", "sent"} /\ Acks(Out) /\ Foes(In') = {}
           /\ UNCHANGED <<foe_calls, room, server, store, losses>> /\ Out' = Out
           /\ foe'.call = foe.call
           /\ \/ foe'.pc = "idle" /\ foe'.ret \in {"refused", "no_ack"}
              \/ foe'.pc = "idle" /\ foe'.ret = "ok" /\ store = Content
              \/ /\ foe' = [foe EXCEPT !.pc = "packet"] /\ Waiting(foe.nr + 1)
                 /\ foe.nr \in Nat /\ foe.pos = foe.nr * room.read
<1> DEFINE m == Received("foe")
           done == foe.pc = "sent" /\ (foe.last \/ foe.pos = Len(Content))
<1>1. /\ foe.pc \in {"write", "sent"} /\ TakeAndReturn("foe")
      /\ UNCHANGED <<foe_calls, room, server, store, losses, wrote, handler, sends>>
      /\ \/ \E ret \in {"refused", "no_ack"} : FoeReturn(ret)
         \/ m.op = "ACK" /\ done /\ FoeReturn("ok")
         \/ m.op = "ACK" /\ ~done /\ foe' = [foe EXCEPT !.pc = "packet"]
  BY DEF FoeWriteAnswer, FoeOnly, TakeAndReturn, slave
<1>2. RecvInv /\ OutPort /\ InPort
  BY DEF PortOk
<1>3. Out' = Out
  BY <1>1, <1>2, OutStays DEF sends
<1>4. OutOk(Out, In) /\ WriteOk /\ InOk(In)
  BY GoodIs
<1>5. 1 \in Foes(In) /\ In[1] = m /\ (Foes(In) = {1} => Foes(In') = {})
  BY <1>1, <1>2, TakenIs
<1>6. Foes(In) = {1}
  BY <1>1, <1>4, <1>5 DEF InOk
<1>7. Acks(Out)
  BY <1>4, <1>5, AcksOut
<1>8. CASE \E ret \in {"refused", "no_ack"} : FoeReturn(ret)
  BY <1>1, <1>3, <1>5, <1>6, <1>7, <1>8, ReturnIs
<1>9. CASE m.op = "ACK" /\ done /\ FoeReturn("ok")
  <2>1. foe.last
    <3>1. ~foe.last => foe.pos < Len(Content) /\ foe.pos \in Nat
      BY <1>4, <1>9 DEF WriteOk
    <3>2. foe.pos \in Nat => ~(foe.pos < foe.pos)
      OBVIOUS
    <3>3. QED
      BY <1>9, <3>1, <3>2
  <2>2. store = Content
    BY <1>4, <1>5, <1>9, <2>1 DEF InOk
  <2>3. foe'.pc = "idle" /\ foe'.ret = "ok" /\ foe'.call = foe.call
    BY <1>9, ReturnIs
  <2>4. QED
    BY <1>1, <1>3, <1>5, <1>6, <1>7, <2>2, <2>3
<1>10. CASE m.op = "ACK" /\ ~done /\ foe' = [foe EXCEPT !.pc = "packet"]
  <2>1. foe'.call = foe.call
    BY <1>10 DEF FoeTypes, FoeFields
  <2>2. Waiting(foe.nr + 1) /\ foe.nr \in Nat /\ foe.pos = foe.nr * room.read
    <3>1. CASE foe.pc = "write"
      <4>1. foe.nr = 0 /\ foe.pos = 0 /\ Waiting(1)
        BY <1>4, <1>5, <1>10, <3>1 DEF InOk, WriteOk
      <4>2. Waiting(foe.nr + 1) /\ foe.nr \in Nat
        BY <4>1
      <4>3. 0 = 0 * room.read
        <5>1. room.read \in Nat
          BY DEF OthersOk
        <5>2. QED
          BY <5>1
      <4>4. QED
        BY <4>1, <4>2, <4>3
    <3>2. CASE foe.pc = "sent"
      <4>1. ~foe.last
        BY <1>10, <3>2
      <4>2. QED
        BY <1>4, <1>5, <1>10, <3>2, <4>1 DEF InOk, WriteOk
    <3>3. QED
      BY <1>1, <3>1, <3>2
  <2>3. QED
    BY <1>1, <1>3, <1>5, <1>6, <1>7, <1>10, <2>1, <2>2
<1>11. QED
  BY <1>1, <1>8, <1>9, <1>10

LEMMA WriteAnswerGood ==
    ASSUME FoeTypes, PortOk, OthersOk, Good, FoeWriteAnswer, UNCHANGED soe_calls
    PROVE  Good'
<1>1. /\ foe.pc \in {"write", "sent"} /\ Acks(Out) /\ Foes(In') = {}
      /\ UNCHANGED <<foe_calls, room, server, store, losses>> /\ Out' = Out
      /\ foe'.call = foe.call
      /\ \/ foe'.pc = "idle"
         \/ /\ foe' = [foe EXCEPT !.pc = "packet"] /\ Waiting(foe.nr + 1)
            /\ foe.nr \in Nat /\ foe.pos = foe.nr * room.read
  BY WriteAnswerIs
<1>2. foe'.call # 0 /\ foe.pc # "read"
  BY <1>1 DEF FoeTypes
<1>3. LeftOver(Out)'
  <2>1. Between(Out) /\ LeftOver(Out)
    BY <1>1, GoodIs DEF Between
  <2>2. QED
    BY <1>1, <2>1, LeftOverSame
<1>4. CASE foe'.pc = "idle"
  BY <1>1, <1>2, <1>3, <1>4, IdleGood
<1>5. CASE /\ foe' = [foe EXCEPT !.pc = "packet"] /\ Waiting(foe.nr + 1)
           /\ foe.nr \in Nat /\ foe.pos = foe.nr * room.read
  <2>1. foe'.pc = "packet" /\ foe'.nr = foe.nr /\ foe'.pos = foe.pos /\ foe'.last = foe.last
    BY <1>5 DEF FoeTypes, FoeFields
  <2>2. OutOk(Out, In)'
    BY <1>1, <1>2, AcksOk
  <2>3. Content' = Content
    BY <1>1, CallSame
  <2>4. WriteOk'
    <3>1. Waiting(foe.nr + 1)'
      BY <1>1, <1>5, <2>1, <2>3 DEF Waiting
    <3>2. foe.pos \in Nat
      <4>1. CASE foe.pc = "write"
        BY <4>1, GoodIs DEF WriteOk
      <4>2. CASE foe.pc = "sent"
        BY <4>2, GoodIs DEF WriteOk
      <4>3. QED
        BY <1>1, <4>1, <4>2
    <3>3. QED
      BY <1>1, <1>5, <2>1, <3>1, <3>2 DEF WriteOk
  <2>5. InOk(In)'
    BY <1>1, NoneOk
  <2>6. ReadOk(Out, In, losses)'
    BY <2>1 DEF ReadOk
  <2>7. QED
    BY <1>3, <2>2, <2>4, <2>5, <2>6 DEF Good, GoodWith
<1>6. QED
  BY <1>1, <1>4, <1>5

LEMMA WritePacketGood ==
    ASSUME NullIsNone, FoeTypes, PortOk, OthersOk, Sound, Good, FoeWritePacket, UNCHANGED soe_calls
    PROVE  Good'
<1> DEFINE r == room.read
           n == foe.pos
           part == Part(Content, n, r)
           next == [foe EXCEPT !.pc = "sent", !.nr = @ + 1, !.pos = @ + Len(part),
                               !.last = Len(part) < r]
           m == FoeMessage("DATA", foe.nr + 1, part)
<1>1. /\ foe.pc = "packet" /\ FoeSend(m, next)
      /\ UNCHANGED <<recvs, slave, losses, foe_calls, room, server, store>>
  BY DEF FoeWritePacket, FoeOnly
<1>2. RecvInv /\ OutPort /\ InPort /\ r \in Nat \ {0}
  BY DEF PortOk, OthersOk
<1>3. OutOk(Out, In) /\ WriteOk /\ InOk(In)
  BY GoodIs
<1>4. Foes(In') = {} /\ Acks(Out)
  <2>1. In' = In
    BY <1>1, <1>2, InStays DEF recvs, slave
  <2>2. Foes(In) = {}
    BY <1>1, <1>3 DEF InOk
  <2>3. QED
    BY <1>1, <1>3, <2>1, <2>2, AcksOut
<1>5. /\ foe.nr \in Nat /\ n \in Nat /\ n = foe.nr * r /\ n <= Len(Content)
      /\ server.mode = "write" /\ server.nr = foe.nr + 1 /\ server.got = SubSeq(Content, 1, n)
  BY <1>1, <1>3 DEF WriteOk, Waiting
<1>6. Call.op = "write" /\ foe.call >= 1 /\ foe.call \in 1 .. Len(foe_calls)
      /\ DOMAIN foe_calls = 1 .. Len(foe_calls)
  <2>1. Call.op = "write" /\ foe.call >= 1 /\ foe.call \in 0 .. Len(foe_calls)
    BY <1>1 DEF FoeTypes
  <2>2. DOMAIN foe_calls = 1 .. Len(foe_calls) /\ Len(foe_calls) \in Nat
    BY DEF FoeTypes
  <2>3. QED
    BY <2>1, <2>2
<1>7. Content \in Seq(Units) /\ Len(Content) \in Nat
  BY <1>6, FileIs
<1>8. /\ Len(part) \in Nat /\ Len(part) <= r /\ n + Len(part) <= Len(Content)
      /\ Len(part) < r => n + Len(part) = Len(Content)
      /\ Len(server.got) = n
  <2>1. n \in Nat /\ n <= Len(Content) /\ Content \in Seq(Units) /\ r \in Nat \ {0}
        /\ server.got = SubSeq(Content, 1, n)
    BY <1>2, <1>5, <1>7
  <2> HIDE DEF n, r
  <2>2. /\ Len(part) \in Nat /\ Len(part) <= r /\ n + Len(part) <= Len(Content)
        /\ Len(part) < r => n + Len(part) = Len(Content)
        /\ Len(SubSeq(Content, 1, n)) = n
    BY <2>1, PartIs
  <2> HIDE DEF part
  <2>3. QED
    BY <2>1, <2>2
<1>9. Len(Content) % r # 0 \/ Content = <<>>
  BY <1>6 DEF Sound, Call, Content
<1>10. \/ Sent(m) /\ foe' = next
       \/ Out' = Out /\ foe' = [next EXCEPT !.pc = "idle", !.ret = "no_buffer"]
  <2>1. "DATA" \in FoeOps /\ UNCHANGED <<wrote, handler, soe_calls>>
    BY <1>1 DEF recvs, slave, FoeOps
  <2> HIDE DEF next, part
  <2>2. QED
    BY <1>1, <1>2, <2>1, FoeSendIs
<1>11. /\ DOMAIN next = FoeFields /\ next.pc = "sent" /\ next.call = foe.call
       /\ next.nr = foe.nr + 1 /\ next.pos = n + Len(part)
  <2> HIDE DEF part
  <2>1. QED
    BY DEF FoeTypes, FoeFields
<1>12. next.last = (Len(part) < r)
  <2> DEFINE b == Len(part) < r
  <2>1. next = [foe EXCEPT !.pc = "sent", !.nr = @ + 1, !.pos = @ + Len(part), !.last = b]
    OBVIOUS
  <2> HIDE DEF b, next, part
  <2>2. next.last = b
    BY <2>1 DEF FoeTypes, FoeFields
  <2>3. QED
    BY <2>2 DEF b
<1>13. m.op = "DATA" /\ m.nr = foe.nr + 1 /\ m.payload = part /\ m.pool = "foe"
  <2> HIDE DEF part
  <2>1. QED
    BY DEF FoeMessage, Message
<1>14. LeftOver(Out)'
  BY <1>1, <1>5 DEF LeftOver
<1> HIDE DEF next, m
<1>15. CASE Sent(m) /\ foe' = next
  <2>1. PICK p \in DOMAIN Out' :
              /\ Out'[p] = m
              /\ \A i \in Foes(Out') : i # p => \E j \in Foes(Out) : Out'[i] = Out[j]
    BY <1>15, SentIs
  <2>2. /\ foe'.pc = "sent" /\ foe'.call = foe.call /\ foe'.nr = foe.nr + 1
        /\ foe'.pos = n + Len(part) /\ foe'.last = (Len(part) < r)
    <3> HIDE DEF part
    <3>1. foe'.last = (Len(part) < r)
      BY <1>12, <1>15, Zenon
    <3>2. QED
      BY <1>11, <1>15, <3>1
  <2>3. Content' = Content
    BY <1>1, <2>2, CallSame
  <2>4. \A i \in Foes(Out') : i # p => Out'[i].op = "ACK" /\ Out'[i].nr \in Nat
    BY <1>4, <2>1 DEF Acks
  <2>5. Request(Out[p])'
    <3>1. Out'[p].op = "DATA" /\ Out'[p].nr = foe.nr + 1 /\ Out'[p].payload = part
      BY <1>13, <2>1
    <3>2. foe'.last = (Len(Out'[p].payload) < room'.read)
      BY <1>1, <2>2, <3>1, Zenon
    <3>3. Len(server'.got) \in 0 .. Len(Content') /\ server'.got = SubSeq(Content', 1, Len(server'.got))
      BY <1>1, <1>5, <1>7, <1>8, <2>3
    <3>4. foe'.pos = Len(server'.got) + Len(Out'[p].payload)
      BY <1>1, <1>8, <2>2, <3>1
    <3>5. Out'[p].payload = Part(Content, Len(server.got), room.read)'
      <4>1. Part(Content, Len(server.got), room.read)' = Part(Content, n, r)
        BY <1>1, <1>8, <2>3 DEF Part
      <4>2. QED
        BY <3>1, <4>1
    <3>6. foe'.pc = "sent" /\ server'.mode = "write" /\ foe'.nr = foe.nr + 1 /\ server'.nr = foe.nr + 1
      BY <1>1, <1>5, <2>2
    <3> HIDE DEF part
    <3>7. QED
      BY <3>1, <3>2, <3>3, <3>4, <3>5, <3>6 DEF Request
  <2>6. OutOk(Out, In)'
    <3>1. \A i \in Foes(Out') : Request(Out[i])'
      <4>1. \A i \in Foes(Out') : i # p => Request(Out[i])'
        BY <2>4 DEF Request
      <4>2. Request(Out[p])'
        BY <2>5
      <4>3. QED
        BY <4>1, <4>2
    <3>2. \A i, j \in Foes(Out') : Out'[i].op # "ACK" /\ Out'[j].op # "ACK" => i = j
      BY <2>4
    <3>3. foe'.call # 0
      BY <1>6, <2>2
    <3>4. Is(Out', "RRQ") = {}
      BY <1>13, <2>1, <2>4 DEF Is
    <3>5. QED
      BY <1>4, <3>1, <3>2, <3>3, <3>4 DEF OutOk
  <2>7. WriteOk'
    <3>1. foe'.nr \in Nat /\ foe'.pos \in Nat
      BY <1>5, <1>8, <2>2
    <3>3. Len(part) < r => foe'.pos = Len(Content)
      BY <1>8, <2>2
    <3>4. ~(Len(part) < r) => foe'.pos = foe'.nr * r /\ foe'.pos < Len(Content)
      <4> SUFFICES ASSUME ~(Len(part) < r) PROVE foe'.pos = foe'.nr * r /\ foe'.pos < Len(Content)
        OBVIOUS
      <4>1. Len(part) = r
        BY <1>2, <1>8
      <4>2. (foe.nr + 1) * r = foe.nr * r + r /\ foe.nr + 1 \in Nat
        <5> DEFINE k == foe.nr
        <5>1. k \in Nat /\ r \in Nat \ {0}
          BY <1>2, <1>5
        <5> HIDE DEF k, r
        <5>2. (k + 1) * r = k * r + r /\ k + 1 \in Nat
          BY <5>1, NextMultiple
        <5>3. QED
          BY <5>2 DEF k
      <4>3. foe'.pos = foe'.nr * r
        BY <1>5, <2>2, <4>1, <4>2
      <4>4. ((foe.nr + 1) * r) % r = 0
        BY <1>2, <4>2, NextMultiple
      <4>5. foe'.pos # Len(Content)
        <5>1. Len(Content) >= r /\ Content # <<>>
          BY <1>2, <1>5, <1>7, <1>8, <4>1
        <5>2. QED
          BY <1>9, <2>2, <4>3, <4>4, <5>1
      <4>6. QED
        BY <1>5, <1>7, <1>8, <2>2, <3>1, <4>3, <4>5
    <3>5. IF foe'.last THEN foe'.pos = Len(Content)
                       ELSE foe'.pos = foe'.nr * r /\ foe'.pos < Len(Content)
      BY <2>2, <3>3, <3>4, Zenon
    <3>6. QED
      BY <1>1, <2>2, <2>3, <3>1, <3>5, Zenon DEF WriteOk
  <2>8. InOk(In)'
    BY <1>4, NoneOk
  <2>9. ReadOk(Out, In, losses)'
    BY <2>2 DEF ReadOk
  <2>10. QED
    BY <1>14, <2>6, <2>7, <2>8, <2>9 DEF Good, GoodWith
<1>16. CASE Out' = Out /\ foe' = [next EXCEPT !.pc = "idle", !.ret = "no_buffer"]
  <2>1. foe'.pc = "idle" /\ foe'.call = foe.call
    BY <1>11, <1>16 DEF FoeFields
  <2>2. QED
    BY <1>4, <1>6, <1>14, <1>16, <2>1, IdleGood
<1>17. QED
  BY <1>10, <1>15, <1>16

LEMMA TimeoutGood ==
    ASSUME FoeTypes, PortOk, FoeTimeout, UNCHANGED soe_calls, Sound'
    PROVE  Good'
<1>1. /\ foe.pc # "idle" /\ ~Arrived("foe") /\ UNCHANGED <<sends, recvs, slave, losses>>
      /\ lates' = IF Quiet THEN lates ELSE lates \cup {"foe"}
      /\ \E ret : FoeReturn(ret)
      /\ RecvInv /\ OutPort /\ InPort
  BY DEF FoeTimeout, Expires, PortOk
<1>2. Quiet
  BY <1>1 DEF Sound
<1>3. foe'.pc = "idle" /\ foe'.call = foe.call /\ foe.call >= 1
  BY <1>1, ReturnIs DEF FoeTypes
<1>4. Wrote = <<>> /\ Sending = <<>> /\ send_queued = <<>>
  BY <1>2, OutIs DEF Quiet
<1>5. Out = <<>>
  BY <1>4 DEF Out
<1>6. Waits = <<>> /\ Full = <<>> /\ answers = <<>>
  <2>1. recv_pool["foe"] = <<>>
    BY <1>1 DEF Arrived
  <2>2. Waits = <<>>
    BY <2>1 DEF Waits
  <2>3. QED
    BY <1>1, <1>2, <2>2, InIs DEF Quiet
<1>7. In = <<>>
  BY <1>6 DEF In
<1>8. Out' = Out /\ In' = In
  BY <1>1, OutStays, InStays DEF sends, recvs, slave
<1>9. Foes(Out') = {} /\ Foes(In') = {}
  BY <1>5, <1>7, <1>8 DEF Foes
<1>10. Acks(Out') /\ LeftOver(Out)'
  BY <1>9 DEF Acks, LeftOver, Is
<1>11. QED
  BY <1>3, <1>9, <1>10, IdleGood

LEMMA FoeThreadGood ==
    ASSUME NullIsNone, FoeTypes, PortOk, OthersOk, Good, Sound, FoeThread, PortOk', Sound'
    PROVE  Good'
<1>1. UNCHANGED soe_calls
  BY DEF FoeThread, Lives, sevars
<1>2. FoeNext
  BY DEF FoeThread
<1>3. CASE FoeCall
  BY <1>1, <1>3, CallGood
<1>4. CASE FoeReadData
  BY <1>1, <1>4, ReadDataGood
<1>5. CASE FoeReadOther
  BY <1>1, <1>5, ReadOtherGood
<1>6. CASE FoeWriteAnswer
  BY <1>1, <1>6, WriteAnswerGood
<1>7. CASE FoeWritePacket
  BY <1>1, <1>7, WritePacketGood
<1>8. CASE FoeTimeout
  BY <1>1, <1>8, TimeoutGood
<1>9. QED
  BY <1>2, <1>3, <1>4, <1>5, <1>6, <1>7, <1>8 DEF FoeNext
-----------------------------------------------------------------------------
(* The steps of the slave's file server.                                   *)

LEMMA TwoIs ==
    ASSUME NEW x, NEW y
    PROVE  LET u == <<x>> \o <<y>> IN IsSeq(u) /\ Len(u) = 2 /\ DOMAIN u = 1 .. 2 /\ u[1] = x /\ u[2] = y
<1> DEFINE a == <<x>>
           b == <<y>>
<1>1. IsSeq(a) /\ Len(a) = 1 /\ a[1] = x /\ IsSeq(b) /\ Len(b) = 1 /\ b[1] = y
  BY OneIs
<1> HIDE DEF a, b
<1>2. /\ IsSeq(a \o b) /\ Len(a \o b) = Len(a) + Len(b)
      /\ \A i \in 1 .. Len(a) : (a \o b)[i] = a[i]
      /\ \A i \in Len(a) + 1 .. Len(a) + Len(b) : (a \o b)[i] = b[i - Len(a)]
  BY <1>1, CatIs, ZenonT(60)
<1>3. 1 \in 1 .. Len(a) /\ 2 \in Len(a) + 1 .. Len(a) + Len(b) /\ 2 - Len(a) = 1 /\ Len(a) + Len(b) = 2
  BY <1>1
<1>4. IsSeq(a \o b) /\ Len(a \o b) = 2 /\ (a \o b)[1] = x /\ (a \o b)[2] = y
  BY <1>1, <1>2, <1>3
<1>5. DOMAIN (a \o b) = 1 .. 2
  BY <1>4, SeqLen
<1> DEFINE u == a \o b
<1>6. IsSeq(u) /\ Len(u) = 2 /\ DOMAIN u = 1 .. 2 /\ u[1] = x /\ u[2] = y
  BY <1>4, <1>5
<1>7. QED
  BY <1>6 DEF a, b

\* A step of the server: it takes the request and answers.
ServesWith(s) == /\ wrote # NULL /\ wrote.pool = "foe" /\ s \in FoeServes(wrote)
                 /\ SlaveTakes(s.replies) /\ server' = s.server /\ store' = s.store
                 /\ UNCHANGED <<foe, foe_calls, room, sevars, evars>>

\* The server's answers: none, one, or that it is busy and one.
Replied(u, x) == u = <<x>> \/ \E y : u = <<y>> \o <<x>> /\ y.pool = "foe" /\ y.op = "BUSY" /\ y # NULL

LEMMA RepliedIs ==
    ASSUME NEW u, NEW x, x.pool = "foe", x # NULL, Replied(u, x)
    PROVE  IsSeq(u) /\ \A i \in DOMAIN u : u[i].pool = "foe" /\ u[i] # NULL
<1>1. CASE u = <<x>>
  <2>1. IsSeq(u) /\ Len(u) = 1 /\ u[1] = x /\ DOMAIN u = 1 .. 1
    BY <1>1, OneIs, SeqLen
  <2>2. QED
    BY <2>1
<1>2. CASE \E y : u = <<y>> \o <<x>> /\ y.pool = "foe" /\ y.op = "BUSY" /\ y # NULL
  <2>1. PICK y : u = <<y>> \o <<x>> /\ y.pool = "foe" /\ y.op = "BUSY" /\ y # NULL
    BY <1>2
  <2> DEFINE t == <<y>> \o <<x>>
  <2>2. IsSeq(t) /\ Len(t) = 2 /\ DOMAIN t = 1 .. 2 /\ t[1] = y /\ t[2] = x
    BY TwoIs, Zenon
  <2> HIDE DEF t
  <2>3. IsSeq(u) /\ DOMAIN u = 1 .. 2 /\ u[1] = y /\ u[2] = x
    BY <2>1, <2>2 DEF t
  <2>4. QED
    BY <2>1, <2>3
<1>3. QED
  BY <1>1, <1>2 DEF Replied

\* What FoeServes has for each request.
LEMMA ServesRead ==
    ASSUME NullIsNone, wrote.op = "RRQ", NEW s \in FoeServes(wrote)
    PROVE  /\ s.store = store
           /\ \/ /\ s.server.mode = "read" /\ s.server.file = wrote.nr /\ s.server.nr = 1 /\ s.server.pos = 0
                 /\ Replied(s.replies, FoeSends(s.server))
              \/ s.server.mode = "idle" /\ s.replies = <<FoeMessage("ERR", wrote.nr, <<>>)>>
<1> DEFINE reading == [FileDone EXCEPT !.mode = "read", !.file = wrote.nr, !.nr = 1]
           say(op) == <<FoeMessage(op, wrote.nr, <<>>)>>
<1>1. s \in {Served(reading, <<FoeSends(reading)>>, store), Served(FileDone, say("ERR"), store),
             Served(reading, say("BUSY") \o <<FoeSends(reading)>>, store)}
  BY DEF FoeServes
<1>2. /\ reading.mode = "read" /\ reading.file = wrote.nr /\ reading.nr = 1 /\ reading.pos = 0
      /\ FileDone.mode = "idle"
  BY DEF FileDone
<1> DEFINE b == FoeMessage("BUSY", wrote.nr, <<>>)
           x == FoeSends(reading)
<1>3. b.pool = "foe" /\ b.op = "BUSY" /\ b # NULL
  BY DEF NullIsNone, FoeMessage, Message
<1>4. \A v, w, z : Served(v, w, z).server = v /\ Served(v, w, z).replies = w /\ Served(v, w, z).store = z
  BY DEF Served
<1> HIDE DEF b, reading
<1>5. Replied(<<x>>, x) /\ Replied(<<b>> \o <<x>>, x)
  BY <1>3, Zenon DEF Replied
<1>6. s \in {Served(reading, <<x>>, store), Served(FileDone, say("ERR"), store),
             Served(reading, <<b>> \o <<x>>, store)}
  BY <1>1 DEF b
<1>7. CASE s = Served(reading, <<x>>, store)
  <2>1. s.server = reading /\ s.replies = <<x>> /\ s.store = store
    BY <1>4, <1>7
  <2>2. Replied(s.replies, FoeSends(s.server))
    BY <1>5, <2>1, Zenon
  <2>3. QED
    BY <1>2, <2>1, <2>2
<1>8. CASE s = Served(reading, <<b>> \o <<x>>, store)
  <2>1. s.server = reading /\ s.replies = <<b>> \o <<x>> /\ s.store = store
    <3> DEFINE t == <<b>> \o <<x>>
    <3>1. s = Served(reading, t, store)
      BY <1>8
    <3> HIDE DEF t
    <3>2. s.server = reading /\ s.replies = t /\ s.store = store
      BY <1>4, <3>1
    <3>3. QED
      BY <3>2 DEF t
  <2>2. Replied(s.replies, FoeSends(s.server))
    BY <1>5, <2>1, Zenon
  <2>3. QED
    BY <1>2, <2>1, <2>2
<1>9. CASE s = Served(FileDone, say("ERR"), store)
  BY <1>2, <1>4, <1>9
<1>10. QED
  BY <1>6, <1>7, <1>8, <1>9

LEMMA ServesWrite ==
    ASSUME NullIsNone, wrote.op = "WRQ", NEW s \in FoeServes(wrote)
    PROVE  /\ s.store = store
           /\ \/ /\ s.server.mode = "write" /\ s.server.nr = 1 /\ s.server.got = <<>>
                 /\ s.replies = <<FoeMessage("ACK", wrote.nr, <<>>)>>
              \/ /\ s.server.mode = "idle"
                 /\ \E op \in {"ERR", "BUSY"} : s.replies = <<FoeMessage(op, wrote.nr, <<>>)>>
<1> DEFINE writing == [FileDone EXCEPT !.mode = "write", !.nr = 1]
           say(op) == <<FoeMessage(op, wrote.nr, <<>>)>>
<1>1. s \in {Served(writing, say("ACK"), store), Served(FileDone, say("ERR"), store),
             Served(FileDone, say("BUSY"), store)}
  BY DEF FoeServes
<1>2. writing.mode = "write" /\ writing.nr = 1 /\ writing.got = <<>> /\ FileDone.mode = "idle"
  BY DEF FileDone
<1>3. \A v, w, z : Served(v, w, z).server = v /\ Served(v, w, z).replies = w /\ Served(v, w, z).store = z
  BY DEF Served
<1> HIDE DEF writing
<1>4. QED
  BY <1>1, <1>2, <1>3

LEMMA ServesAck ==
    ASSUME NullIsNone, wrote.op = "ACK", NEW s \in FoeServes(wrote)
    PROVE  /\ s.store = store
           /\ \/ s.server = server /\ s.replies = <<>> /\ (server.mode = "read" => wrote.nr # server.nr)
              \/ /\ server.mode = "read" /\ wrote.nr = server.nr
                 /\ Len(FoeSends(server).payload) < room.read
                 /\ s.server.mode = "idle" /\ s.replies = <<>>
              \/ /\ server.mode = "read" /\ wrote.nr = server.nr
                 /\ ~(Len(FoeSends(server).payload) < room.read)
                 /\ s.server = [server EXCEPT !.pos = @ + room.read, !.nr = @ + 1]
                 /\ s.replies = <<FoeSends(s.server)>>
<1> DEFINE onward == [server EXCEPT !.pos = @ + room.read, !.nr = @ + 1]
           wanted == wrote.nr = server.nr
           none == <<>>
           more == <<FoeSends(onward)>>
<1>1. s \in IF server.mode # "read" \/ ~wanted THEN {Served(server, none, store)}
            ELSE IF Len(FoeSends(server).payload) < room.read
                 THEN {Served(FileDone, none, store)}
                 ELSE {Served(onward, more, store)}
  BY DEF FoeServes
<1>2. FileDone.mode = "idle"
  BY DEF FileDone
<1>3. \A v, w, z : Served(v, w, z).server = v /\ Served(v, w, z).replies = w /\ Served(v, w, z).store = z
  BY DEF Served
<1>4. CASE server.mode # "read" \/ ~wanted
  <2> HIDE DEF none
  <2>1. s.server = server /\ s.replies = none /\ s.store = store
    BY <1>1, <1>3, <1>4
  <2>2. QED
    BY <1>4, <2>1 DEF none
<1>5. CASE server.mode = "read" /\ wanted /\ Len(FoeSends(server).payload) < room.read
  <2> HIDE DEF none
  <2>1. s.server = FileDone /\ s.replies = none /\ s.store = store
    BY <1>1, <1>3, <1>5
  <2>2. QED
    BY <1>2, <1>5, <2>1 DEF none
<1>6. CASE server.mode = "read" /\ wanted /\ ~(Len(FoeSends(server).payload) < room.read)
  <2> HIDE DEF more, onward
  <2>1. s.server = onward /\ s.replies = more /\ s.store = store
    BY <1>1, <1>3, <1>6
  <2>2. s.replies = <<FoeSends(s.server)>>
    BY <2>1, Zenon DEF more
  <2>3. s.server = [server EXCEPT !.pos = @ + room.read, !.nr = @ + 1]
    BY <2>1 DEF onward
  <2>4. QED
    BY <1>6, <2>1, <2>2, <2>3
<1>7. QED
  BY <1>4, <1>5, <1>6

LEMMA ServesData ==
    ASSUME NullIsNone, wrote.op = "DATA", NEW s \in FoeServes(wrote)
    PROVE  LET units == Part(wrote.payload, 0, room.write)
               say(op) == <<FoeMessage(op, wrote.nr, <<>>)>>
           IN  \/ /\ server.mode # "write" \/ wrote.nr # server.nr
                  /\ s.server.mode = "idle" /\ s.replies = say("ERR") /\ s.store = store
               \/ /\ server.mode = "write" /\ wrote.nr = server.nr /\ Len(units) < room.write
                  /\ s.server.mode = "idle" /\ s.replies = say("ACK")
                  /\ s.store = server.got \o units
               \/ /\ server.mode = "write" /\ wrote.nr = server.nr /\ ~(Len(units) < room.write)
                  /\ s.server = [server EXCEPT !.nr = @ + 1, !.got = server.got \o units]
                  /\ s.replies = say("ACK") /\ s.store = store
<1> DEFINE units == Part(wrote.payload, 0, room.write)
           say(op) == <<FoeMessage(op, wrote.nr, <<>>)>>
           wanted == wrote.nr = server.nr
           have == server.got \o units
           onward == [server EXCEPT !.nr = @ + 1, !.got = have]
           ack == say("ACK")
           err == say("ERR")
<1>1. s \in IF server.mode # "write" \/ ~wanted THEN {Served(FileDone, err, store)}
            ELSE IF Len(units) < room.write
                 THEN {Served(FileDone, ack, have)}
                 ELSE {Served(onward, ack, store)}
  BY DEF FoeServes
<1>2. FileDone.mode = "idle"
  BY DEF FileDone
<1>3. \A v, w, z : Served(v, w, z).server = v /\ Served(v, w, z).replies = w /\ Served(v, w, z).store = z
  BY DEF Served
<1> HIDE DEF ack, err, have, onward, units
<1>4. CASE server.mode # "write" \/ ~wanted
  <2>1. s.server = FileDone /\ s.replies = err /\ s.store = store
    BY <1>1, <1>3, <1>4
  <2>2. QED
    BY <1>2, <1>4, <2>1 DEF err
<1>5. CASE server.mode = "write" /\ wanted /\ Len(units) < room.write
  <2>1. s.server = FileDone /\ s.replies = ack /\ s.store = have
    BY <1>1, <1>3, <1>5
  <2>2. QED
    BY <1>2, <1>5, <2>1 DEF ack, have, units
<1>6. CASE server.mode = "write" /\ wanted /\ ~(Len(units) < room.write)
  <2>1. s.server = onward /\ s.replies = ack /\ s.store = store
    BY <1>1, <1>3, <1>6
  <2>2. QED
    BY <1>6, <2>1 DEF ack, have, onward, units
<1>7. QED
  BY <1>4, <1>5, <1>6

LEMMA ServesFields ==
    ASSUME NullIsNone, wrote.op \in FoeOps, NEW s \in FoeServes(wrote), DOMAIN server = ServerFields
    PROVE  DOMAIN s.server = ServerFields
<1> DEFINE reading == [FileDone EXCEPT !.mode = "read", !.file = wrote.nr, !.nr = 1]
           writing == [FileDone EXCEPT !.mode = "write", !.nr = 1]
           acked == [server EXCEPT !.pos = @ + room.read, !.nr = @ + 1]
           units == Part(wrote.payload, 0, room.write)
           put == [server EXCEPT !.nr = @ + 1, !.got = server.got \o units]
<1>1. /\ DOMAIN FileDone = ServerFields /\ DOMAIN reading = ServerFields
      /\ DOMAIN writing = ServerFields /\ DOMAIN acked = ServerFields /\ DOMAIN put = ServerFields
  <2> HIDE DEF units
  <2>1. QED
    BY DEF FileDone, ServerFields
<1>2. \A v, w, z : Served(v, w, z).server = v
  BY DEF Served
<1>3. s.server \in {FileDone, server, reading, writing, acked, put}
  <2>1. CASE wrote.op = "RRQ"
    <3> DEFINE x == <<FoeSends(reading)>>
               e == <<FoeMessage("ERR", wrote.nr, <<>>)>>
               y == <<FoeMessage("BUSY", wrote.nr, <<>>)>> \o <<FoeSends(reading)>>
    <3>1. s \in {Served(reading, x, store), Served(FileDone, e, store), Served(reading, y, store)}
      BY <2>1 DEF FoeServes
    <3> HIDE DEF x, y, e, reading
    <3>2. QED
      BY <1>2, <3>1
  <2>2. CASE wrote.op = "WRQ"
    <3> DEFINE say(op) == <<FoeMessage(op, wrote.nr, <<>>)>>
    <3>1. s \in {Served(writing, say("ACK"), store), Served(FileDone, say("ERR"), store),
                 Served(FileDone, say("BUSY"), store)}
      BY <2>2 DEF FoeServes
    <3> HIDE DEF writing
    <3>2. QED
      BY <1>2, <3>1
  <2>3. CASE wrote.op = "ACK"
    <3>1. \/ s.server = server
          \/ s = Served(FileDone, <<>>, store)
          \/ s.server = acked
      <4> DEFINE more == <<FoeSends(acked)>>
                 none == <<>>
      <4>1. s \in {Served(server, none, store), Served(FileDone, none, store), Served(acked, more, store)}
        BY <2>3 DEF FoeServes
      <4> HIDE DEF acked, more, none
      <4>2. QED
        BY <1>2, <4>1 DEF none
    <3>2. QED
      BY <1>2, <3>1
  <2>4. CASE wrote.op = "DATA"
    <3> DEFINE say(op) == <<FoeMessage(op, wrote.nr, <<>>)>>
               have == server.got \o units
    <3>1. s \in {Served(FileDone, say("ERR"), store), Served(FileDone, say("ACK"), have),
                 Served(put, say("ACK"), store)}
      BY <2>4 DEF FoeServes
    <3> HIDE DEF put, have
    <3>2. QED
      BY <1>2, <3>1
  <2>5. QED
    BY <2>1, <2>2, <2>3, <2>4 DEF FoeOps
<1> HIDE DEF reading, writing, acked, put
<1>4. QED
  BY <1>1, <1>3

\* The slave takes one message, the first, and its answers come last.
LEMMA ServePort ==
    ASSUME NullIsNone, PortOk, OthersOk, NEW s, ServesWith(s)
    PROVE  /\ OutPort' /\ InPort' /\ OthersOk' /\ UNCHANGED <<losses, lates>>
           /\ IsSeq(s.replies) /\ \A i \in DOMAIN s.replies : s.replies[i].pool = "foe"
           /\ Inserted(Out', 1, wrote, Out) /\ In' = In \o s.replies
<1>1. /\ wrote # NULL /\ wrote.pool = "foe" /\ s \in FoeServes(wrote) /\ SlaveTakes(s.replies)
      /\ UNCHANGED <<room, sevars, evars>>
  BY DEF ServesWith
<1>2. RecvInv /\ OutPort /\ InPort
  BY DEF PortOk
<1>3. wrote.op \in FoeOps
  BY <1>1, <1>2 DEF OutPort, Proper
<1>4. ASSUME NEW op, NEW nr, NEW payload, s.replies = <<FoeMessage(op, nr, payload)>>
      PROVE  IsSeq(s.replies) /\ \A i \in DOMAIN s.replies : s.replies[i].pool = "foe" /\ s.replies[i] # NULL
  <2> DEFINE x == FoeMessage(op, nr, payload)
  <2>1. x # NULL /\ x.pool = "foe"
    BY DEF NullIsNone, FoeMessage, Message
  <2>2. Replied(s.replies, x)
    BY <1>4, Zenon DEF Replied
  <2>3. QED
    BY <2>1, <2>2, RepliedIs
<1>5. ASSUME s.replies = <<>>
      PROVE  IsSeq(s.replies) /\ \A i \in DOMAIN s.replies : s.replies[i].pool = "foe" /\ s.replies[i] # NULL
  <2>1. IsSeq(s.replies) /\ Len(s.replies) = 0
    BY <1>5, NoneIs
  <2>2. DOMAIN s.replies = 1 .. 0
    BY <2>1, SeqLen
  <2>3. QED
    BY <2>1, <2>2
<1>6. ASSUME NEW v PROVE FoeSends(v) # NULL /\ FoeSends(v).pool = "foe"
                         /\ \E nr, payload : FoeSends(v) = FoeMessage("DATA", nr, payload)
  <2>1. \E nr, payload : FoeSends(v) = FoeMessage("DATA", nr, payload)
    BY Zenon DEF FoeSends
  <2>2. \A nr, payload : FoeMessage("DATA", nr, payload) # NULL /\ FoeMessage("DATA", nr, payload).pool = "foe"
    BY DEF NullIsNone, FoeMessage, Message
  <2>3. QED
    BY <2>1, <2>2, Zenon
<1>7. IsSeq(s.replies) /\ \A i \in DOMAIN s.replies : s.replies[i].pool = "foe" /\ s.replies[i] # NULL
  <2>1. CASE wrote.op = "RRQ"
    <3>1. Replied(s.replies, FoeSends(s.server)) \/ s.replies = <<FoeMessage("ERR", wrote.nr, <<>>)>>
      BY <1>1, <2>1, ServesRead
    <3>2. CASE Replied(s.replies, FoeSends(s.server))
      BY <1>6, <3>2, RepliedIs
    <3>3. QED
      BY <1>4, <3>1, <3>2, Zenon
  <2>2. CASE wrote.op = "WRQ"
    <3>1. \E op : s.replies = <<FoeMessage(op, wrote.nr, <<>>)>>
      BY <1>1, <2>2, ServesWrite
    <3>2. QED
      BY <1>4, <3>1, Zenon
  <2>3. CASE wrote.op = "ACK"
    <3>1. s.replies = <<>> \/ s.replies = <<FoeSends(s.server)>>
      BY <1>1, <2>3, ServesAck
    <3>2. CASE s.replies = <<FoeSends(s.server)>>
      <4>1. PICK nr, payload : FoeSends(s.server) = FoeMessage("DATA", nr, payload)
        BY <1>6, Zenon
      <4>2. s.replies = <<FoeMessage("DATA", nr, payload)>>
        BY <3>2, <4>1
      <4>3. QED
        BY <1>4, <4>2, Zenon
    <3>3. QED
      BY <1>5, <3>1, <3>2
  <2>4. CASE wrote.op = "DATA"
    <3>1. \E op : s.replies = <<FoeMessage(op, wrote.nr, <<>>)>>
      BY <1>1, <2>4, ServesData, Zenon
    <3>2. QED
      BY <1>4, <3>1, Zenon
  <2>5. QED
    BY <1>3, <2>1, <2>2, <2>3, <2>4 DEF FoeOps
<1>8. Inserted(Out', 1, wrote, Out) /\ In' = In \o s.replies
  BY <1>1, <1>2, <1>7, SlaveTakesFirst
<1>9. UNCHANGED <<sends, recvs, losses, lates>> /\ answers = <<>> /\ answers' = s.replies /\ wrote' = NULL
  BY <1>1 DEF SlaveTakes
<1>10. InPort'
  <2>1. answers' = answers \o s.replies
    BY <1>2, <1>7, <1>9, CatEmpty DEF InPort
  <2>2. QED
    BY <1>2, <1>7, <1>9, <2>1, AnswersJoin
<1>11. OutPort' /\ OthersOk'
  <2>1. UNCHANGED <<send_queued, handler, soe_calls>>
    BY <1>1, <1>9 DEF sends, recvs, sevars
  <2>2. OutPort'
    BY <1>2, <1>9, <2>1 DEF OutPort, Proper
  <2>3. OthersOk'
    BY <1>1 DEF OthersOk, sevars, evars
  <2>4. QED
    BY <2>2, <2>3
<1>12. QED
  BY <1>7, <1>8, <1>9, <1>10, <1>11

LEMMA GoodNext ==
    ASSUME UNCHANGED <<foe, foe_calls, room, server, store>>,
           GoodWith(Out', In', losses')
    PROVE  Good'
<1>1. UNCHANGED <<Call, Content>>
  BY DEF Call, Content
<1>2. \A v : FoeSends(v)' = FoeSends(v)
  BY DEF FoeSends, Part
<1>5. OutOk(Out, In)'
  <2>1. OutOk(Out', In')
    BY DEF GoodWith
  <2>2. \A i \in Foes(Out') : Request(Out[i])'
    <3>1. \A i \in Foes(Out') : Request(Out'[i])
      BY <2>1 DEF OutOk
    <3>2. QED
      BY <1>1, <3>1 DEF Request, Part
  <2>3. QED
    BY <2>1, <2>2 DEF OutOk
<1>6. LeftOver(Out)'
  BY <1>2 DEF GoodWith, LeftOver, Between
<1>7. WriteOk'
  BY <1>1 DEF GoodWith, WriteOk, Waiting
<1>8. InOk(In)'
  <2>1. InOk(In')
    BY DEF GoodWith
  <2>2. ReadAnswers(In') => ReadAnswers(In)'
    BY DEF ReadAnswers
  <2>3. Waiting(1)' <=> Waiting(1)
    BY <1>1 DEF Waiting
  <2>4. Waiting(foe.nr + 1)' <=> Waiting(foe.nr + 1)
    BY <1>1 DEF Waiting
  <2>5. QED
    BY <1>1, <2>1, <2>2, <2>3, <2>4 DEF InOk
<1>9. ReadOk(Out, In, losses)'
  <2>1. ReadOk(Out', In', losses')
    BY DEF GoodWith
  <2>2. ASSUME NEW a \in Nat, NEW s \in Nat, Chain(Out', In', losses', a, s)
        PROVE  Chain(Out, In, losses, a, s)'
    <3>1. \A i \in Is(In', "DATA") : Packet(In[i], a, s)'
      <4>1. \A i \in Is(In', "DATA") : Packet(In'[i], a, s)
        BY <2>2 DEF Chain
      <4>2. QED
        BY <1>1, <4>1 DEF Packet, Part
    <3>2. QED
      BY <1>1, <2>2, <3>1 DEF Chain
  <2>3. QED
    BY <2>1, <2>2 DEF ReadOk
<1>10. QED
  BY <1>5, <1>6, <1>7, <1>8, <1>9 DEF Good, GoodWith

\* The server has taken what wrote has.
LEMMA ServeIs ==
    ASSUME NullIsNone, PortOk, OthersOk, Good, NEW s, ServesWith(s)
    PROVE  /\ 1 \in Foes(Out) /\ Out[1] = wrote /\ Request(wrote)
           /\ foe.call # 0
           /\ Kept(Out, {1}, Out', {}) /\ AllKept(Out, {1}, Out')
           /\ \A i \in Foes(Out') : \E j \in Foes(Out) : j # 1 /\ Out'[i] = Out[j]
           /\ wrote.op # "ACK" => Foes(In) = {} /\ Acks(Out')
           /\ Acks(Out) => Acks(Out')
           /\ IsSeq(In) /\ IsSeq(s.replies) /\ AllKept(In, {}, In')
           /\ Foes(In) \subseteq 1 .. Len(In) /\ Foes(In') \subseteq Nat
           /\ \A i \in Foes(In') :
                 \/ i \in Foes(In) /\ In'[i] = In[i]
                 \/ /\ i - Len(In) \in 1 .. Len(s.replies)
                    /\ In'[i] = s.replies[i - Len(In)]
           /\ \A k \in 1 .. Len(s.replies) :
                 Len(In) + k \in Foes(In') /\ In'[Len(In) + k] = s.replies[k]
<1>1. wrote # NULL /\ wrote.pool = "foe"
  BY DEF ServesWith
<1>2. /\ IsSeq(s.replies) /\ \A i \in DOMAIN s.replies : s.replies[i].pool = "foe"
      /\ Inserted(Out', 1, wrote, Out) /\ In' = In \o s.replies
  BY ServePort
<1>3. /\ Kept(Out, {1}, Out', {}) /\ AllKept(Out, {1}, Out')
      /\ 1 \in DOMAIN Out /\ Out[1] = wrote
  BY <1>2, RemoveKeeps
<1>4. 1 \in Foes(Out)
  BY <1>1, <1>3 DEF Foes
<1>5. OutOk(Out, In)
  BY GoodIs
<1>6. Request(wrote) /\ foe.call # 0
  BY <1>3, <1>4, <1>5 DEF OutOk
<1>7. \A i \in Foes(Out') : \E j \in Foes(Out) : j # 1 /\ Out'[i] = Out[j]
  BY <1>3 DEF Kept
<1>8. Acks(Out) => Acks(Out')
  BY <1>7 DEF Acks
<1>9. wrote.op # "ACK" => Foes(In) = {} /\ Acks(Out')
  <2> SUFFICES ASSUME wrote.op # "ACK" PROVE Foes(In) = {} /\ Acks(Out')
    OBVIOUS
  <2>1. Foes(In) = {}
    BY <1>3, <1>4, <1>5 DEF OutOk
  <2>2. \A j \in Foes(Out) : j # 1 => Out[j].op = "ACK" /\ Out[j].nr \in Nat
    BY <1>3, <1>4, <1>5 DEF OutOk, Request
  <2>3. QED
    BY <1>7, <2>1, <2>2 DEF Acks
<1>10. IsSeq(In) /\ Len(In) \in Nat /\ DOMAIN In = 1 .. Len(In)
  BY QueuesAre, SeqLen
<1> DEFINE u == s.replies
           q == In
<1>11. Len(u) \in Nat /\ DOMAIN u = 1 .. Len(u) /\ IsSeq(u) /\ \A i \in 1 .. Len(u) : u[i].pool = "foe"
  BY <1>2, SeqLen
<1>12. /\ AllKept(In, {}, In')
       /\ DOMAIN In' = 1 .. Len(In) + Len(u)
       /\ \A i \in 1 .. Len(In) : In'[i] = In[i]
       /\ \A i \in Len(In) + 1 .. Len(In) + Len(u) : In'[i] = u[i - Len(In)]
  <2>1. IsSeq(q) /\ IsSeq(u) /\ In' = q \o u
    BY <1>2, <1>10, <1>11
  <2> HIDE DEF q, u
  <2>2. /\ AllKept(q, {}, q \o u) /\ DOMAIN (q \o u) = 1 .. Len(q) + Len(u)
    BY <2>1, JoinKeeps
  <2>3. /\ \A i \in 1 .. Len(q) : (q \o u)[i] = q[i]
        /\ \A i \in Len(q) + 1 .. Len(q) + Len(u) : (q \o u)[i] = u[i - Len(q)]
    BY <2>1, CatIs
  <2> DEFINE t == q \o u
  <2> HIDE DEF t
  <2>4. /\ AllKept(q, {}, t) /\ DOMAIN t = 1 .. Len(q) + Len(u) /\ In' = t
        /\ \A i \in 1 .. Len(q) : t[i] = q[i]
        /\ \A i \in Len(q) + 1 .. Len(q) + Len(u) : t[i] = u[i - Len(q)]
    BY <2>1, <2>2, <2>3 DEF t
  <2>5. QED
    BY <2>4 DEF q
<1>13. Foes(In) \subseteq 1 .. Len(In)
  BY <1>10 DEF Foes
<1> HIDE DEF u
<1>14. ASSUME NEW i \in Foes(In')
       PROVE  \/ i \in Foes(In) /\ In'[i] = In[i]
              \/ i - Len(In) \in 1 .. Len(u) /\ In'[i] = u[i - Len(In)]
  <2>1. i \in 1 .. Len(In) + Len(u) /\ In'[i].pool = "foe"
    BY <1>12 DEF Foes
  <2>2. CASE i \in 1 .. Len(In)
    BY <1>10, <1>12, <2>1, <2>2 DEF Foes
  <2>3. CASE i \in Len(In) + 1 .. Len(In) + Len(u)
    BY <1>10, <1>11, <1>12, <2>3
  <2>4. QED
    BY <1>10, <1>11, <2>1, <2>2, <2>3
<1>15. ASSUME NEW k \in 1 .. Len(u) PROVE Len(In) + k \in Foes(In') /\ In'[Len(In) + k] = u[k]
  <2>1. Len(In) + k \in Len(In) + 1 .. Len(In) + Len(u) /\ Len(In) + k - Len(In) = k
        /\ Len(In) + k \in 1 .. Len(In) + Len(u)
    BY <1>10, <1>11
  <2>2. In'[Len(In) + k] = u[k]
    BY <1>12, <2>1
  <2>3. QED
    BY <1>11, <1>12, <2>1, <2>2 DEF Foes
<1>16. Foes(In') \subseteq Nat
  BY <1>10, <1>11, <1>12 DEF Foes
<1>17. QED
  BY <1>2, <1>3, <1>4, <1>6, <1>7, <1>8, <1>9, <1>10, <1>12, <1>13, <1>14, <1>15, <1>16 DEF u

\* The file server begins to send a file, ...
LEMMA ServeReadGood ==
    ASSUME NullIsNone, FoeTypes, PortOk, OthersOk, Good, NEW s, ServesWith(s), wrote.op = "RRQ"
    PROVE  Good'
<1> DEFINE r == room.read
           u == s.replies
           x == FoeSends(s.server)
           e == FoeMessage("ERR", wrote.nr, <<>>)
           L == Len(In)
<1>1. /\ server' = s.server /\ store' = s.store /\ s \in FoeServes(wrote)
      /\ UNCHANGED <<foe, foe_calls, room, losses>>
  BY ServePort DEF ServesWith
<1>2. /\ 1 \in Foes(Out) /\ Out[1] = wrote /\ Request(wrote) /\ foe.call # 0
      /\ \A i \in Foes(Out') : \E j \in Foes(Out) : j # 1 /\ Out'[i] = Out[j]
      /\ Foes(In) = {} /\ Acks(Out')
      /\ IsSeq(In) /\ IsSeq(u) /\ Foes(In') \subseteq Nat
      /\ \A i \in Foes(In') : /\ i - L \in 1 .. Len(u)
                              /\ In'[i] = u[i - L]
      /\ \A k \in 1 .. Len(u) : L + k \in Foes(In') /\ In'[L + k] = u[k]
  <2> HIDE DEF u, L
  <2>1. QED
    BY ServeIs DEF u, L
<1>3. foe.pc = "read" /\ foe.got = <<>> /\ wrote.nr = Call.file
  BY <1>2 DEF Request
<1>4. UNCHANGED <<Call, Content>>
  BY <1>1 DEF Call, Content
<1>5. r \in Nat \ {0} /\ Content \in Seq(Units) /\ Len(Content) \in Nat /\ L \in Nat
  <2>1. foe.call >= 1
    BY <1>3 DEF FoeTypes
  <2>2. QED
    BY <1>2, <2>1, FileIs, SeqLen DEF OthersOk
<1>6. OutOk(Out, In)'
  BY <1>1, <1>2, AcksOk
<1>7. Is(Out', "RRQ") = {}
  BY <1>2 DEF Acks, Is
<1>8. LeftOver(Out)'
  BY <1>1, <1>3, <1>7 DEF LeftOver, Between
<1>9. WriteOk'
  BY <1>1, <1>3 DEF WriteOk
<1>10. foe.call = 1 => Is(Out', "ACK") = {}
  <2>1. OutOk(Out, In)
    BY GoodIs
  <2>2. 1 \in Is(Out, "RRQ")
    BY <1>2 DEF Is
  <2>3. foe.call = 1 => Is(Out, "ACK") = {}
    BY <2>1, <2>2 DEF OutOk
  <2>4. Is(Out', "ACK") # {} => Is(Out, "ACK") # {}
    BY <1>2 DEF Is
  <2>5. QED
    BY <2>3, <2>4
<1>11. SubSeq(Content, 1, 0) = <<>> /\ 0 * r = 0 /\ 0 + 1 = 1 /\ 1 - 1 = 0
  BY <1>5, WholeIs
<1>12. ASSUME ReadAnswers(In)', NEW a \in Nat, Chain(Out, In, losses, 0, a)'
       PROVE  Good'
  <2>1. InOk(In)'
    BY <1>1, <1>3, <1>12 DEF InOk
  <2>2. ReadOk(Out, In, losses)'
    BY <1>12 DEF ReadOk
  <2>3. QED
    BY <1>6, <1>8, <1>9, <2>1, <2>2 DEF Good, GoodWith
<1>13. CASE /\ s.server.mode = "read" /\ s.server.file = wrote.nr /\ s.server.nr = 1 /\ s.server.pos = 0
            /\ Replied(u, x)
  <2> DEFINE P == L + Len(u)
  <2>1. x.op = "DATA" /\ x.nr = 1 /\ x.payload = Part(Content, 0, r)
    BY <1>3, <1>13 DEF FoeSends, FoeMessage, Message, Content
  <2>2. /\ P \in Foes(In') /\ In'[P] = x
        /\ \A i \in Foes(In') : i = P \/ (In'[i].op = "BUSY" /\ i = L + 1 /\ i <= P)
    <3>1. CASE u = <<x>>
      <4>1. Len(u) = 1 /\ u[1] = x
        BY <3>1, OneIs
      <4> HIDE DEF u, x, L
      <4>2. \A i \in Foes(In') : i - L = 1 /\ i \in Nat
        BY <1>2, <4>1
      <4>3. \A i \in Foes(In') : i = P
        BY <1>5, <4>1, <4>2
      <4>4. QED
        BY <1>2, <4>1, <4>3
    <3>2. CASE \E y : u = <<y>> \o <<x>> /\ y.pool = "foe" /\ y.op = "BUSY" /\ y # NULL
      <4>1. PICK y : u = <<y>> \o <<x>> /\ y.op = "BUSY"
        BY <3>2
      <4>2. Len(u) = 2 /\ u[1] = y /\ u[2] = x
        <5> DEFINE t == <<y>> \o <<x>>
        <5>1. Len(t) = 2 /\ t[1] = y /\ t[2] = x
          BY TwoIs, Zenon
        <5> HIDE DEF t, u
        <5>2. u = t
          BY <4>1 DEF t
        <5>3. QED
          BY <5>1, <5>2
      <4> HIDE DEF u, x, L
      <4>3. \A i \in Foes(In') : i \in Nat /\ i - L \in 1 .. 2 /\ In'[i] = u[i - L]
        BY <1>2, <4>2
      <4>4. ASSUME NEW i \in Foes(In') PROVE i = P \/ (In'[i].op = "BUSY" /\ i = L + 1 /\ i <= P)
        <5>1. CASE i - L = 1
          BY <1>5, <4>1, <4>2, <4>3, <5>1
        <5>2. CASE i - L = 2
          BY <1>5, <4>2, <4>3, <5>2
        <5>3. QED
          BY <4>3, <5>1, <5>2
      <4>5. QED
        BY <1>2, <4>2, <4>4
    <3>3. QED
      BY <1>13, <3>1, <3>2 DEF Replied
  <2> HIDE DEF u, x, L, P
  <2>3. ReadAnswers(In)'
    <3>1. \A i \in Foes(In') : In'[i].op \in {"DATA", "BUSY"}
      BY <2>1, <2>2
    <3>2. \A i \in Is(In', "BUSY"), j \in Foes(In') : i <= j
      <4> SUFFICES ASSUME NEW i \in Is(In', "BUSY"), NEW j \in Foes(In') PROVE i <= j
        OBVIOUS
      <4>1. i \in Foes(In') /\ i # P /\ i \in Nat /\ j \in Nat
        BY <1>2, <2>1, <2>2 DEF Is
      <4>2. i = L + 1 /\ i <= P
        BY <2>2, <4>1
      <4>3. j = P \/ j = L + 1
        BY <2>2
      <4>4. QED
        BY <1>2, <2>2, <4>1, <4>2, <4>3
    <3>3. Is(In', "ERR") = {}
      BY <3>1 DEF Is
    <3>4. QED
      BY <3>1, <3>2, <3>3 DEF ReadAnswers
  <2>4. Is(In', "DATA") = {P}
    BY <2>1, <2>2 DEF Is
  <2>5. \A i \in Is(In', "DATA") : Packet(In[i], 0, 1)'
    <3>1. 1 \in 0 + 1 .. 1 /\ (1 - 1) * r = 0 /\ 0 <= Len(Content)
      BY <1>5
    <3>2. Part(Content, (1 - 1) * r, r) = Part(Content, 0, r)
      BY <3>1
    <3>3. /\ In'[P].nr \in 0 + 1 .. 1
          /\ (In'[P].nr - 1) * r <= Len(Content)
          /\ In'[P].payload = Part(Content, (In'[P].nr - 1) * r, r)
      BY <2>1, <2>2, <3>1, <3>2
    <3>4. QED
      BY <1>1, <1>4, <2>4, <3>3 DEF Packet, Part
  <2>6. losses' = 0 => \A n \in 0 + 1 .. 1 : \E i \in Is(In', "DATA") : In'[i].nr = n
    <3>1. \A n \in 0 + 1 .. 1 : n = 1
      OBVIOUS
    <3>2. QED
      BY <2>1, <2>2, <2>4, <3>1
  <2>7. server'.mode = "read" /\ 1 = server'.nr /\ server'.file = Call'.file /\ server'.pos = (1 - 1) * r
        /\ server'.pos <= Len(Content')
    BY <1>1, <1>3, <1>4, <1>5, <1>11, <1>13
  <2>8. 0 * r <= Len(Content) /\ foe.got = SubSeq(Content, 1, 0 * r)
    BY <1>3, <1>5, <1>11
  <2>9. Chain(Out, In, losses, 0, 1)'
    <3>1. \A i, j \in Is(In', "DATA") : ~(i < j)
      BY <1>2, <2>2, <2>4
    <3>2. foe'.call = 1 => 1 <= 0 + 1 /\ \A i \in Is(Out', "ACK") : Out'[i].nr <= 0
      BY <1>1, <1>10
    <3>3. 0 <= 1 /\ 1 >= 1
      OBVIOUS
    <3>4. QED
      BY <1>1, <1>4, <2>4, <2>5, <2>6, <2>7, <2>8, <3>1, <3>2, <3>3 DEF Chain
  <2>10. QED
    BY <1>12, <2>3, <2>9
<1>14. CASE s.server.mode = "idle" /\ u = <<e>>
  <2>1. Len(u) = 1 /\ u[1] = e
    BY <1>14, OneIs
  <2>2. e.op = "ERR"
    BY DEF FoeMessage, Message
  <2> HIDE DEF u, e, L
  <2>3. \A i \in Foes(In') : i = L + 1 /\ In'[i].op = "ERR"
    <3>1. \A i \in Foes(In') : i - L = 1 /\ i \in Nat /\ In'[i] = u[1]
      BY <1>2, <2>1
    <3>2. QED
      BY <1>5, <2>1, <2>2, <3>1
  <2>4. server'.mode = "idle"
    BY <1>1, <1>14
  <2>5. ReadAnswers(In)'
    BY <2>3, <2>4 DEF ReadAnswers, Is
  <2>6. Is(In', "DATA") = {}
    BY <2>3 DEF Is
  <2>7. 0 * r <= Len(Content) /\ foe.got = SubSeq(Content, 1, 0 * r)
    BY <1>3, <1>5, <1>11
  <2>8. Chain(Out, In, losses, 0, 0)'
    <3>1. foe'.call = 1 => 0 <= 0 + 1 /\ \A i \in Is(Out', "ACK") : Out'[i].nr <= 0
      BY <1>1, <1>10
    <3>2. 0 <= 0 /\ 0 + 1 .. 0 = {}
      OBVIOUS
    <3>3. QED
      BY <1>1, <1>4, <2>4, <2>6, <2>7, <3>1, <3>2 DEF Chain
  <2>9. QED
    BY <1>12, <2>5, <2>8
<1>15. QED
  BY <1>1, <1>13, <1>14, ServesRead

\* One answer, and nothing else on its way back.
LEMMA OneReply ==
    ASSUME NullIsNone, PortOk, OthersOk, Good, NEW s, ServesWith(s), wrote.op # "ACK",
           NEW op, NEW nr, s.replies = <<FoeMessage(op, nr, <<>>)>>
    PROVE  /\ \A i \in Foes(In') : In'[i].op = op
           /\ \A i, j \in Foes(In') : i = j
<1> DEFINE u == s.replies
           e == FoeMessage(op, nr, <<>>)
           L == Len(In)
<1>1. Len(u) = 1 /\ u[1] = e
  BY OneIs
<1>2. e.op = op
  BY DEF FoeMessage, Message
<1>3. /\ Foes(In) = {} /\ L \in Nat /\ Foes(In') \subseteq Nat
      /\ \A i \in Foes(In') : i - L \in 1 .. Len(u) /\ In'[i] = u[i - L]
  <2> HIDE DEF u, L
  <2>1. QED
    BY ServeIs, SeqLen DEF u, L
<1> HIDE DEF u, e, L
<1>4. \A i \in Foes(In') : i - L = 1 /\ In'[i] = e
  BY <1>1, <1>3
<1>5. \A i, j \in Foes(In') : i = j
  BY <1>3, <1>4
<1>6. QED
  BY <1>2, <1>4, <1>5

\* ... to receive one, ...
LEMMA ServeWriteGood ==
    ASSUME NullIsNone, FoeTypes, PortOk, OthersOk, Good, NEW s, ServesWith(s), wrote.op = "WRQ"
    PROVE  Good'
<1>1. /\ server' = s.server /\ store' = s.store /\ s \in FoeServes(wrote)
      /\ UNCHANGED <<foe, foe_calls, room, losses>>
  BY ServePort DEF ServesWith
<1>2. Request(wrote) /\ foe.call # 0 /\ Acks(Out')
  BY ServeIs
<1>3. foe.pc = "write" /\ foe.nr = 0 /\ foe.pos = 0 /\ ~foe.last
  BY <1>2, GoodIs DEF Request, WriteOk
<1>4. UNCHANGED <<Call, Content>>
  BY <1>1 DEF Call, Content
<1>5. Content \in Seq(Units) /\ Len(Content) \in Nat /\ SubSeq(Content, 1, 0) = <<>>
  <2>1. foe.call >= 1
    BY <1>3 DEF FoeTypes
  <2>2. QED
    BY <2>1, FileIs, WholeIs
<1>6. \/ /\ s.server.mode = "write" /\ s.server.nr = 1 /\ s.server.got = <<>>
         /\ s.replies = <<FoeMessage("ACK", wrote.nr, <<>>)>>
      \/ /\ s.server.mode = "idle"
         /\ \E op \in {"ERR", "BUSY"} : s.replies = <<FoeMessage(op, wrote.nr, <<>>)>>
  BY <1>1, ServesWrite
<1>7. OutOk(Out, In)'
  BY <1>1, <1>2, AcksOk
<1>8. LeftOver(Out)'
  BY <1>1, <1>6 DEF LeftOver
<1>9. WriteOk'
  BY <1>1, <1>3 DEF WriteOk
<1>10. ReadOk(Out, In, losses)'
  BY <1>1, <1>3 DEF ReadOk
<1>11. InOk(In)'
  <2>1. PICK op \in {"ACK", "ERR", "BUSY"} :
           /\ s.replies = <<FoeMessage(op, wrote.nr, <<>>)>>
           /\ op = "ACK" => s.server.mode = "write" /\ s.server.nr = 1 /\ s.server.got = <<>>
    <3>1. CASE s.replies = <<FoeMessage("ACK", wrote.nr, <<>>)>>
               /\ s.server.mode = "write" /\ s.server.nr = 1 /\ s.server.got = <<>>
      BY <3>1, Zenon
    <3>2. ASSUME NEW op \in {"ERR", "BUSY"}, s.replies = <<FoeMessage(op, wrote.nr, <<>>)>>
          PROVE  \E o \in {"ACK", "ERR", "BUSY"} :
                    /\ s.replies = <<FoeMessage(o, wrote.nr, <<>>)>>
                    /\ o = "ACK" => s.server.mode = "write" /\ s.server.nr = 1 /\ s.server.got = <<>>
      <4>1. op \in {"ACK", "ERR", "BUSY"} /\ op # "ACK"
        OBVIOUS
      <4>2. QED
        BY <3>2, <4>1, Zenon
    <3>3. QED
      BY <1>6, <3>1, <3>2, Zenon
  <2>2. /\ \A i \in Foes(In') : In'[i].op = op
        /\ \A i, j \in Foes(In') : i = j
    BY <2>1, OneReply
  <2>3. op = "ACK" => Waiting(1)'
    <3> SUFFICES ASSUME op = "ACK" PROVE Waiting(1)'
      OBVIOUS
    <3>1. server'.mode = "write" /\ server'.nr = 1 /\ server'.got = <<>>
      BY <1>1, <2>1
    <3>2. foe'.pos = 0 /\ 0 <= Len(Content') /\ SubSeq(Content', 1, 0) = <<>>
      BY <1>1, <1>3, <1>4, <1>5
    <3>3. QED
      BY <3>1, <3>2 DEF Waiting
  <2>4. QED
    BY <1>1, <1>3, <2>2, <2>3 DEF InOk
<1>12. QED
  BY <1>7, <1>8, <1>9, <1>10, <1>11 DEF Good, GoodWith

\* ... takes a packet of it, ...
LEMMA ServeDataIs ==
    ASSUME NullIsNone, FoeTypes, PortOk, OthersOk, Good, Sound, NEW s, ServesWith(s), wrote.op = "DATA"
    PROVE  /\ foe.pc = "sent" /\ foe.call >= 1 /\ foe.nr \in Nat /\ foe.pos \in Nat
           /\ foe.pos <= Len(Content)
           /\ s.replies = <<FoeMessage("ACK", wrote.nr, <<>>)>>
           /\ s.server.mode # "read"
           /\ \/ foe.last /\ s.store = Content
              \/ /\ ~foe.last /\ s.store = store
                 /\ s.server.mode = "write" /\ s.server.nr = foe.nr + 1
                 /\ s.server.got = SubSeq(Content, 1, foe.pos)
<1> DEFINE r == room.read
           n == Len(server.got)
           p == wrote.payload
<1>1. s \in FoeServes(wrote) /\ DOMAIN server = ServerFields
  BY DEF ServesWith, FoeTypes
<1>2. /\ foe.pc = "sent" /\ server.mode = "write" /\ wrote.nr = foe.nr /\ server.nr = foe.nr
      /\ n \in 0 .. Len(Content) /\ server.got = SubSeq(Content, 1, n)
      /\ p = Part(Content, n, r)
      /\ foe.pos = n + Len(p)
      /\ foe.last = (Len(p) < r)
  BY ServeIs, Zenon DEF Request
<1>3. foe.nr \in Nat /\ foe.pos \in Nat /\ (foe.last => foe.pos = Len(Content))
  BY <1>2, GoodIs DEF WriteOk
<1>4. foe.call >= 1
  BY <1>2 DEF FoeTypes
<1>5. r \in Nat \ {0} /\ room.write = r /\ Content \in Seq(Units) /\ Len(Content) \in Nat
  BY <1>4, FileIs DEF OthersOk, Sound
<1>6. n \in Nat /\ n <= Len(Content)
  BY <1>2, <1>5
<1>7. /\ Len(p) \in Nat /\ Len(p) <= r /\ n + Len(p) <= Len(Content) /\ p \in Seq(Units)
      /\ SubSeq(Content, 1, n) \o p = SubSeq(Content, 1, n + Len(p))
      /\ Part(p, 0, r) = p
  <2> DEFINE q == Part(Content, n, r)
  <2> HIDE DEF n, r
  <2>1. /\ Len(q) \in Nat /\ Len(q) <= r /\ n + Len(q) <= Len(Content) /\ q \in Seq(Units)
        /\ SubSeq(Content, 1, n) \o q = SubSeq(Content, 1, n + Len(q))
    BY <1>2, <1>5, <1>6, PartIs
  <2> HIDE DEF q
  <2>2. Part(q, 0, r) = q
    BY <1>5, <2>1, WholeIs
  <2>3. q = p
    BY <1>2 DEF q, r, n
  <2>4. QED
    BY <2>1, <2>2, <2>3
<1> DEFINE units == Part(wrote.payload, 0, room.write)
           have == server.got \o units
<1>8. units = p
  BY <1>5, <1>7
<1>9. have = SubSeq(Content, 1, foe.pos)
  <2>1. server.got \o p = SubSeq(Content, 1, n) \o p
    BY <1>2
  <2> HIDE DEF n
  <2>2. SubSeq(Content, 1, n) \o p = SubSeq(Content, 1, foe.pos)
    BY <1>2, <1>7
  <2>3. QED
    BY <1>8, <2>1, <2>2
<1>10. \/ /\ Len(units) < room.write /\ s.server.mode = "idle"
          /\ s.store = have
       \/ /\ ~(Len(units) < room.write) /\ s.store = store
          /\ s.server = [server EXCEPT !.nr = @ + 1, !.got = have]
  <2> HIDE DEF units, have
  <2>1. QED
    BY <1>1, <1>2, ServesData DEF units, have
<1>11. s.replies = <<FoeMessage("ACK", wrote.nr, <<>>)>>
  BY <1>1, <1>2, ServesData, Zenon
<1>12. foe.pos <= Len(Content)
  BY <1>2, <1>7
<1>13. CASE /\ Len(units) < room.write /\ s.server.mode = "idle" /\ s.store = have
  <2>1. foe.last
    BY <1>2, <1>5, <1>8, <1>13
  <2>2. have = Content
    BY <1>3, <1>5, <1>9, <2>1, WholeIs
  <2>3. QED
    BY <1>2, <1>3, <1>4, <1>11, <1>12, <1>13, <2>1, <2>2
<1>14. CASE /\ ~(Len(units) < room.write) /\ s.store = store
            /\ s.server = [server EXCEPT !.nr = @ + 1, !.got = have]
  <2>1. ~foe.last
    BY <1>2, <1>5, <1>8, <1>14
  <2>2. s.server.mode = "write" /\ s.server.nr = foe.nr + 1 /\ s.server.got = have
    <3> HIDE DEF have
    <3>1. QED
      BY <1>1, <1>2, <1>14 DEF ServerFields
  <2>3. QED
    BY <1>2, <1>3, <1>4, <1>9, <1>11, <1>12, <1>14, <2>1, <2>2
<1>15. QED
  BY <1>10, <1>13, <1>14

LEMMA ServeDataGood ==
    ASSUME NullIsNone, FoeTypes, PortOk, OthersOk, Good, Sound, NEW s, ServesWith(s), wrote.op = "DATA"
    PROVE  Good'
<1>1. /\ server' = s.server /\ store' = s.store /\ s \in FoeServes(wrote)
      /\ UNCHANGED <<foe, foe_calls, room, losses>>
  BY ServePort DEF ServesWith
<1>2. /\ foe.pc = "sent" /\ foe.call >= 1 /\ foe.pos \in Nat /\ foe.pos <= Len(Content)
      /\ s.replies = <<FoeMessage("ACK", wrote.nr, <<>>)>>
      /\ s.server.mode # "read"
      /\ \/ foe.last /\ s.store = Content
         \/ /\ ~foe.last /\ s.store = store
            /\ s.server.mode = "write" /\ s.server.nr = foe.nr + 1
            /\ s.server.got = SubSeq(Content, 1, foe.pos)
  BY ServeDataIs, Zenon
<1>3. foe.call # 0 /\ Acks(Out')
  BY ServeIs
<1>4. UNCHANGED <<Call, Content>>
  BY <1>1 DEF Call, Content
<1>5. OutOk(Out, In)'
  BY <1>1, <1>3, AcksOk
<1>6. LeftOver(Out)'
  BY <1>1, <1>2 DEF LeftOver
<1>7. WriteOk'
  <2>1. WriteOk
    BY GoodIs
  <2>2. QED
    BY <1>1, <1>2, <1>4, <2>1 DEF WriteOk
<1>8. ReadOk(Out, In, losses)'
  BY <1>1, <1>2 DEF ReadOk
<1>9. InOk(In)'
  <2>1. /\ \A i \in Foes(In') : In'[i].op = "ACK"
        /\ \A i, j \in Foes(In') : i = j
    BY <1>2, OneReply
  <2>2. ~foe.last => Waiting(foe.nr + 1)'
    BY <1>1, <1>2, <1>4 DEF Waiting
  <2>3. foe.last => store' = Content'
    BY <1>1, <1>2, <1>4
  <2>4. IF foe'.last THEN store' = Content' ELSE Waiting(foe.nr + 1)'
    BY <1>1, <2>2, <2>3
  <2>5. QED
    BY <1>1, <1>2, <2>1, <2>4 DEF InOk
<1>10. QED
  BY <1>5, <1>6, <1>7, <1>8, <1>9 DEF Good, GoodWith

\* ... or takes an acknowledgement: of another packet, ...
LEMMA AckPassed ==
    ASSUME NullIsNone, FoeTypes, PortOk, OthersOk, Good, NEW s, ServesWith(s), wrote.op = "ACK",
           PortOk', s.server = server, s.store = store, s.replies = <<>>
    PROVE  Good'
<1>1. /\ server' = server /\ store' = store
      /\ UNCHANGED <<foe, foe_calls, room, losses>>
  BY ServePort DEF ServesWith
<1>2. In' = In
  <2>1. In' = In \o s.replies /\ IsSeq(In)
    BY ServePort, QueuesAre
  <2>2. QED
    BY <2>1, CatEmpty
<1>3. IsSeq(Out) /\ IsSeq(In) /\ IsSeq(Out') /\ losses \in Nat
  BY QueuesAre, QueuesAreNext DEF PortOk, InPort
<1>4. 1 \in Foes(Out) /\ Out[1] = wrote /\ Kept(Out, {1}, Out', {}) /\ AllKept(Out, {1}, Out')
  BY ServeIs
<1>5. Kept(Out, {}, Out', {})
  BY <1>4 DEF Kept
<1>6. \A i \in Foes(Out) : Out[i].op = "ACK" \/ \E j \in Foes(Out') : Out'[j] = Out[i]
  BY <1>4 DEF AllKept
<1>7. Kept(In, {}, In, {}) /\ AllKept(In, {}, In)
  BY <1>3, SameKept
<1>8. GoodWith(Out', In, losses)
  BY <1>3, <1>5, <1>6, <1>7, KeptGood DEF Good
<1>9. GoodWith(Out', In', losses')
  BY <1>1, <1>2, <1>8
<1>10. QED
  BY <1>1, <1>9, GoodNext

\* ... of the last one, ...
LEMMA AckLast ==
    ASSUME NullIsNone, FoeTypes, PortOk, OthersOk, Good, NEW s, ServesWith(s), wrote.op = "ACK",
           PortOk', server.mode = "read", s.server.mode = "idle", s.store = store, s.replies = <<>>
    PROVE  Good'
<1>1. /\ server'.mode = "idle" /\ store' = store
      /\ UNCHANGED <<foe, foe_calls, room, losses>>
  BY ServePort DEF ServesWith
<1>2. UNCHANGED <<Call, Content>>
  BY <1>1 DEF Call, Content
<1>3. In' = In
  <2>1. In' = In \o s.replies /\ IsSeq(In)
    BY ServePort, QueuesAre
  <2>2. QED
    BY <2>1, CatEmpty
<1>4. /\ 1 \in Foes(Out) /\ Out[1] = wrote /\ Kept(Out, {1}, Out', {}) /\ AllKept(Out, {1}, Out')
  BY ServeIs
<1>5. PICK g : \A i \in Foes(Out') : /\ g[i] \in Foes(Out) \ {1} /\ Out'[i] = Out[g[i]]
                                     /\ \A j \in Foes(Out') : i < j => g[i] < g[j]
  BY <1>4 DEF Kept
<1>6. OutOk(Out, In) /\ WriteOk /\ InOk(In) /\ ReadOk(Out, In, losses)
  BY GoodIs
<1>7. Foes(Out') \subseteq Nat /\ Foes(Out) \subseteq Nat
  BY QueuesAre, QueuesAreNext, SeqLen DEF Foes
<1>8. OutOk(Out, In)'
  <2>1. \A i \in Foes(Out') : Request(Out[i])'
    <3>1. \A i \in Foes(Out') : Request(Out'[i])
      BY <1>5, <1>6 DEF OutOk
    <3>2. \A i \in Foes(Out') : Out'[i].op # "DATA"
      BY <3>1 DEF Request
    <3>3. QED
      BY <1>1, <1>2, <3>1, <3>2 DEF Request
  <2>2. \A i, j \in Foes(Out') : Out'[i].op # "ACK" /\ Out'[j].op # "ACK" => i = j
    <3> SUFFICES ASSUME NEW i \in Foes(Out'), NEW j \in Foes(Out'), Out'[i].op # "ACK", Out'[j].op # "ACK"
                 PROVE  i = j
      OBVIOUS
    <3>1. g[i] = g[j] /\ g[i] \in Nat
      BY <1>5, <1>6, <1>7 DEF OutOk
    <3>2. ~(g[i] < g[j]) /\ ~(g[j] < g[i])
      BY <3>1
    <3>3. QED
      BY <1>5, <1>7, <3>2
  <2>3. \A i \in Foes(Out') : Out'[i].op # "ACK" => Foes(In') = {}
    BY <1>3, <1>5, <1>6 DEF OutOk
  <2>4. foe'.call # 0
    BY <1>1, ServeIs
  <2>5. foe'.call = 1 /\ Is(Out', "RRQ") # {} => Is(Out', "ACK") = {}
    <3>1. Is(Out', "RRQ") # {} => Is(Out, "RRQ") # {}
      BY <1>5 DEF Is
    <3>2. Is(Out', "ACK") # {} => Is(Out, "ACK") # {}
      BY <1>5 DEF Is
    <3>3. QED
      BY <1>1, <1>6, <3>1, <3>2 DEF OutOk
  <2>6. QED
    BY <2>1, <2>2, <2>3, <2>4, <2>5 DEF OutOk
<1>9. LeftOver(Out)'
  BY <1>1 DEF LeftOver
<1>10. WriteOk'
  BY <1>1, <1>2, <1>6 DEF WriteOk, Waiting
<1>11. InOk(In)'
  <2>1. ReadAnswers(In) => ReadAnswers(In)'
    BY <1>1, <1>3 DEF ReadAnswers
  <2>2. ~Waiting(1) /\ ~Waiting(foe.nr + 1)
    BY DEF Waiting
  <2>3. foe'.pc = "packet" \/ (foe'.pc = "idle" /\ foe'.call < Len(foe_calls')) => Foes(In') = {}
    BY <1>1, <1>3, <1>6 DEF InOk
  <2>4. foe'.pc \in {"write", "sent"} => \A i, j \in Foes(In') : i = j
    BY <1>1, <1>3, <1>6 DEF InOk
  <2>5. foe'.pc = "write" => \A i \in Foes(In') : In'[i].op \in {"ERR", "BUSY"}
    BY <1>1, <1>3, <1>6, <2>2 DEF InOk
  <2>6. foe'.pc = "sent" => \A i \in Foes(In') : In'[i].op = "ACK" /\ foe'.last /\ store' = Content'
    BY <1>1, <1>2, <1>3, <1>6, <2>2 DEF InOk
  <2>7. foe'.pc = "read" => ReadAnswers(In)'
    BY <1>1, <1>6, <2>1 DEF InOk
  <2>8. QED
    BY <2>3, <2>4, <2>5, <2>6, <2>7 DEF InOk
<1>12. ReadOk(Out, In, losses)'
  <2> SUFFICES ASSUME foe'.pc = "read", Is(Out', "RRQ") = {}
               PROVE  \E a, t \in Nat : Chain(Out, In, losses, a, t)'
    BY DEF ReadOk
  <2>1. Is(Out, "RRQ") = {}
    <3>1. ASSUME NEW i \in Is(Out, "RRQ") PROVE FALSE
      <4>1. i \in Foes(Out) /\ i # 1 /\ Out[i].op = "RRQ"
        BY <1>4 DEF Is
      <4>2. PICK j \in Foes(Out') : Out'[j] = Out[i]
        BY <1>4, <4>1 DEF AllKept
      <4>3. QED
        BY <4>1, <4>2 DEF Is
    <3>2. QED
      BY <3>1
  <2>2. PICK a, t \in Nat : Chain(Out, In, losses, a, t)
    BY <1>1, <1>6, <2>1 DEF ReadOk
  <2>3. \A i \in Is(Out', "ACK") : \E j \in Is(Out, "ACK") : Out'[i].nr = Out[j].nr
    BY <1>5 DEF Is
  <2>4. \A i \in Is(In', "DATA") : Packet(In[i], a, t)'
    <3>1. \A i \in Is(In', "DATA") : Packet(In'[i], a, t)
      BY <1>3, <2>2 DEF Chain
    <3>2. QED
      BY <1>1, <1>2, <3>1 DEF Packet, Part
  <2>5. Chain(Out, In, losses, a, t)'
    BY <1>1, <1>2, <1>3, <2>2, <2>3, <2>4 DEF Chain
  <2>6. QED
    BY <2>5
<1>13. QED
  BY <1>8, <1>9, <1>10, <1>11, <1>12 DEF Good, GoodWith

\* ... or of a full one, and sends the next.  Nobody else but the read in progress can have
\* acknowledged it.
LEMMA AckNext ==
    ASSUME NullIsNone, FoeTypes, PortOk, OthersOk, Good, NEW s, ServesWith(s), wrote.op = "ACK",
           server.mode = "read", wrote.nr = server.nr,
           ~(Len(FoeSends(server).payload) < room.read),
           s.server = [server EXCEPT !.pos = @ + room.read, !.nr = @ + 1],
           s.replies = <<FoeSends(s.server)>>, s.store = store
    PROVE  Good'
<1> DEFINE r == room.read
           x == FoeSends(s.server)
           L == Len(In)
           u == s.replies
<1>1. /\ server' = s.server /\ store' = s.store
      /\ UNCHANGED <<foe, foe_calls, room, losses>>
  BY ServePort DEF ServesWith
<1>2. UNCHANGED <<Call, Content>>
  BY <1>1 DEF Call, Content
<1>3. /\ s.server.mode = "read" /\ s.server.file = server.file
      /\ s.server.pos = server.pos + r /\ s.server.nr = server.nr + 1
  BY DEF FoeTypes, ServerFields
<1>4. /\ 1 \in Foes(Out) /\ Out[1] = wrote /\ Request(wrote) /\ foe.call # 0
      /\ \A i \in Foes(Out') : \E j \in Foes(Out) : j # 1 /\ Out'[i] = Out[j]
      /\ Acks(Out) => Acks(Out')
  BY ServeIs
<1>5. 1 \in Is(Out, "ACK") /\ wrote.nr \in Nat
  BY <1>4 DEF Is, Request
<1>6. ~Between(Out)
  BY <1>4, <1>5, GoodIs DEF LeftOver
<1>7. OutOk(Out, In) /\ InOk(In) /\ ReadOk(Out, In, losses)
  BY GoodIs
<1>8. CASE foe.pc = "idle"
  <2>1. Acks(Out')
    BY <1>4, <1>7, <1>8, AcksOut
  <2>2. ~(foe.call < Len(foe_calls))
    BY <1>6, <1>8 DEF Between
  <2>3. LeftOver(Out)'
    BY <1>1, <1>8, <2>2 DEF LeftOver, Between
  <2>4. foe'.pc = "idle" /\ foe'.call # 0
    BY <1>1, <1>4, <1>8
  <2>5. foe'.call < Len(foe_calls') => Foes(In') = {}
    BY <1>1, <2>2
  <2>6. QED
    BY <2>1, <2>3, <2>4, <2>5, IdleGood
<1>9. CASE foe.pc = "read" /\ Is(Out, "RRQ") = {}
  <2>1. Acks(Out')
    <3>1. \A i \in Foes(Out) : Out[i].op = "ACK" /\ Out[i].nr \in Nat
      BY <1>7, <1>9 DEF OutOk, Request, Is
    <3>2. QED
      BY <1>4, <3>1 DEF Acks
  <2>2. PICK a, t \in Nat : Chain(Out, In, losses, a, t)
    BY <1>7, <1>9 DEF ReadOk
  <2>3. /\ t = server.nr /\ t >= 1 /\ server.file = Call.file
        /\ server.pos = (t - 1) * r /\ server.pos <= Len(Content)
        /\ a <= t
    BY <2>2 DEF Chain
  <2>4. r \in Nat \ {0} /\ Content \in Seq(Units) /\ Len(Content) \in Nat
    <3>1. foe.call >= 1
      BY <1>9 DEF FoeTypes
    <3>2. QED
      BY <3>1, FileIs DEF OthersOk
  <2>5. t - 1 \in Nat /\ t - 1 + 1 = t /\ t + 1 - 1 = t /\ t + 1 \in Nat /\ t + 1 >= 1
    BY <2>3
  <2>6. t * r = (t - 1) * r + r /\ (t - 1) * r \in Nat
    <3> DEFINE k == t - 1
    <3>1. k \in Nat /\ k + 1 = t
      BY <2>5
    <3> HIDE DEF k, r
    <3>2. (k + 1) * r = k * r + r /\ k * r \in Nat
      BY <2>4, <3>1, NextMultiple
    <3>3. QED
      BY <3>1, <3>2 DEF k
  <2>7. t * r <= Len(Content)
    <3> DEFINE n == (t - 1) * r
               p == Part(Content, n, r)
    <3>1. n \in Nat /\ n <= Len(Content) /\ Content \in Seq(Units) /\ r \in Nat \ {0}
          /\ t * r = n + r
      BY <2>3, <2>4, <2>6
    <3>2. FoeSends(server).payload = p
      BY <2>3 DEF FoeSends, FoeMessage, Message, Content
    <3> HIDE DEF n, r
    <3>3. Len(p) \in Nat /\ Len(p) <= r /\ n + Len(p) <= Len(Content)
      BY <3>1, PartIs
    <3>4. ~(Len(p) < r)
      BY <3>2 DEF r
    <3> HIDE DEF p
    <3>5. QED
      BY <2>4, <3>1, <3>3, <3>4
  <2>8. /\ x.op = "DATA" /\ x.nr = t + 1 /\ x.pool = "foe"
        /\ x.payload = Part(Content, t * r, r)
    <3>1. s.server.nr = t + 1 /\ s.server.pos = t * r /\ s.server.file = Call.file
      BY <1>3, <2>3, <2>6
    <3>2. QED
      BY <3>1 DEF FoeSends, FoeMessage, Message, Content
  <2>9. /\ L \in Nat /\ IsSeq(In) /\ AllKept(In, {}, In')
        /\ Foes(In) \subseteq 1 .. L /\ Foes(In') \subseteq Nat
        /\ \A i \in Foes(In') : \/ i \in Foes(In) /\ In'[i] = In[i]
                                \/ i - L \in 1 .. Len(u) /\ In'[i] = u[i - L]
        /\ \A k \in 1 .. Len(u) : L + k \in Foes(In') /\ In'[L + k] = u[k]
    <3> HIDE DEF u, L
    <3>1. QED
      BY ServeIs, SeqLen DEF u, L
  <2>10. Len(u) = 1 /\ u[1] = x
    BY OneIs
  <2> DEFINE P == L + 1
  <2> HIDE DEF u, x, L
  <2>11. /\ P \in Foes(In') /\ In'[P] = x
         /\ \A i \in Foes(In') : (i \in Foes(In) /\ In'[i] = In[i] /\ i < P) \/ (i = P /\ In'[i] = x)
    <3>1. ASSUME NEW i \in Foes(In')
          PROVE  (i \in Foes(In) /\ In'[i] = In[i] /\ i < P) \/ (i = P /\ In'[i] = x)
      <4>1. CASE i \in Foes(In) /\ In'[i] = In[i]
        <5>1. i \in 1 .. L
          BY <2>9, <4>1
        <5>2. QED
          BY <2>9, <4>1, <5>1
      <4>2. CASE i - L \in 1 .. Len(u) /\ In'[i] = u[i - L]
        <5>1. i - L = 1 /\ i \in Nat
          BY <2>9, <2>10, <4>2
        <5>2. QED
          BY <2>9, <2>10, <4>2, <5>1
      <4>3. QED
        BY <2>9, <4>1, <4>2
    <3>2. 1 \in 1 .. Len(u)
      BY <2>10
    <3>3. QED
      BY <2>9, <2>10, <3>1, <3>2
  <2> HIDE DEF P
  <2>12. OutOk(Out, In)'
    BY <1>1, <1>4, <2>1, AcksOk
  <2>13. Is(Out', "RRQ") = {}
    BY <2>1 DEF Acks, Is
  <2>14. LeftOver(Out)'
    BY <1>1, <1>9, <2>13 DEF LeftOver, Between
  <2>15. WriteOk'
    BY <1>1, <1>9 DEF WriteOk
  <2>16. InOk(In)'
    <3>1. ReadAnswers(In)
      BY <1>7, <1>9 DEF InOk
    <3>2. Is(In, "ERR") = {}
      BY <3>1 DEF ReadAnswers
    <3>3. \A i \in Foes(In') : In'[i].op \in {"DATA", "BUSY"}
      BY <2>8, <2>11, <3>1, <3>2 DEF ReadAnswers, Is
    <3>4. \A i \in Is(In', "BUSY"), j \in Foes(In') : i <= j
      <4> SUFFICES ASSUME NEW i \in Is(In', "BUSY"), NEW j \in Foes(In') PROVE i <= j
        OBVIOUS
      <4>1. i \in Foes(In) /\ In'[i] = In[i] /\ i < P /\ i \in Is(In, "BUSY")
        BY <2>8, <2>11 DEF Is
      <4>2. CASE j = P
        <5>1. i \in Nat /\ j \in Nat
          BY <2>9, <4>1
        <5>2. QED
          BY <4>1, <4>2, <5>1
      <4>3. CASE j \in Foes(In)
        BY <3>1, <4>1, <4>3 DEF ReadAnswers
      <4>4. QED
        BY <2>11, <4>2, <4>3
    <3>5. Is(In', "ERR") = {}
      BY <3>3 DEF Is
    <3>6. ReadAnswers(In)'
      BY <3>3, <3>4, <3>5 DEF ReadAnswers
    <3>7. QED
      BY <1>1, <1>9, <3>6 DEF InOk
  <2>17. \A i \in Is(In', "DATA") : \/ i \in Is(In, "DATA") /\ In'[i] = In[i] /\ i < P
                                    \/ i = P /\ In'[i] = x
    BY <2>11 DEF Is
  <2>18. \A i \in Is(In, "DATA") : Packet(In[i], a, t) /\ In[i].nr \in a + 1 .. t
    BY <2>2 DEF Chain, Packet
  <2>19. \A i \in Is(In', "DATA") : Packet(In[i], a, t + 1)'
    <3>1. ASSUME NEW i \in Is(In', "DATA") PROVE Packet(In'[i], a, t + 1)
      <4>1. CASE i \in Is(In, "DATA") /\ In'[i] = In[i]
        <5>1. In[i].nr \in a + 1 .. t + 1
          BY <2>18, <4>1
        <5>2. QED
          BY <2>18, <4>1, <5>1 DEF Packet
      <4>2. CASE i = P /\ In'[i] = x
        <5>1. x.nr \in a + 1 .. t + 1
          BY <2>3, <2>8
        <5>2. x.nr - 1 = t
          BY <2>5, <2>8
        <5>3. QED
          BY <2>7, <2>8, <4>2, <5>1, <5>2 DEF Packet
      <4>3. QED
        BY <2>17, <4>1, <4>2
    <3>2. QED
      BY <1>1, <1>2, <3>1 DEF Packet, Part
  <2>20. \A i, j \in Is(In', "DATA") : i < j => In'[i].nr < In'[j].nr
    <3> SUFFICES ASSUME NEW i \in Is(In', "DATA"), NEW j \in Is(In', "DATA"), i < j
                 PROVE  In'[i].nr < In'[j].nr
      OBVIOUS
    <3>1. i \in Nat /\ j \in Nat /\ P \in Nat
      BY <2>9, <2>11 DEF Is
    <3>2. i \in Is(In, "DATA") /\ In'[i] = In[i]
      <4>1. i # P
        BY <2>17, <3>1
      <4>2. QED
        BY <2>17, <4>1
    <3>3. CASE j \in Is(In, "DATA") /\ In'[j] = In[j]
      BY <2>2, <3>2, <3>3 DEF Chain
    <3>4. CASE j = P /\ In'[j] = x
      BY <2>8, <2>18, <3>2, <3>4
    <3>5. QED
      BY <2>17, <3>3, <3>4
  <2>21. losses' = 0 => \A n \in a + 1 .. t + 1 : \E i \in Is(In', "DATA") : In'[i].nr = n
    <3> SUFFICES ASSUME losses' = 0, NEW n \in a + 1 .. t + 1
                 PROVE  \E i \in Is(In', "DATA") : In'[i].nr = n
      OBVIOUS
    <3>1. CASE n = t + 1
      BY <2>8, <2>11, <3>1 DEF Is
    <3>2. CASE n \in a + 1 .. t
      <4>1. PICK i \in Is(In, "DATA") : In[i].nr = n
        BY <1>1, <2>2, <3>2 DEF Chain
      <4>2. PICK j \in Foes(In') : In'[j] = In[i]
        BY <2>9, <4>1 DEF AllKept, Is
      <4>3. QED
        BY <4>1, <4>2 DEF Is
    <3>3. QED
      BY <3>1, <3>2
  <2>22. foe.call = 1 => t + 1 <= a + 1 /\ \A i \in Is(Out', "ACK") : Out'[i].nr <= a
    <3>1. foe.call = 1 => \A i \in Is(Out, "ACK") : Out[i].nr <= a
      BY <2>2 DEF Chain
    <3>2. foe.call = 1 => t <= a
      BY <1>4, <1>5, <2>3, <3>1
    <3>3. \A i \in Is(Out', "ACK") : \E j \in Is(Out, "ACK") : Out'[i] = Out[j]
      BY <1>4 DEF Is
    <3>4. QED
      BY <3>1, <3>2, <3>3
  <2>23. Chain(Out, In, losses, a, t + 1)'
    <3>1. a <= t + 1
      BY <2>3
    <3>2. server'.mode = "read" /\ t + 1 = server'.nr /\ server'.file = Call'.file
          /\ server'.pos = (t + 1 - 1) * room'.read /\ server'.pos <= Len(Content')
      BY <1>1, <1>2, <1>3, <2>3, <2>5, <2>6, <2>7
    <3>3. a * r <= Len(Content) /\ foe.got = SubSeq(Content, 1, a * r)
      BY <2>2 DEF Chain
    <3>4. QED
      BY <1>1, <1>2, <2>5, <2>19, <2>20, <2>21, <2>22, <3>1, <3>2, <3>3 DEF Chain
  <2>24. ReadOk(Out, In, losses)'
    BY <2>5, <2>23 DEF ReadOk
  <2>25. QED
    BY <2>12, <2>14, <2>15, <2>16, <2>24 DEF Good, GoodWith
<1>10. QED
  BY <1>6, <1>8, <1>9 DEF Between

LEMMA ServeGood ==
    ASSUME NullIsNone, FoeTypes, PortOk, OthersOk, Good, Sound, PortOk', NEW s, ServesWith(s)
    PROVE  Good'
<1>1. wrote # NULL /\ wrote.pool = "foe" /\ s \in FoeServes(wrote)
  BY DEF ServesWith
<1>2. wrote.op \in FoeOps
  BY <1>1 DEF PortOk, OutPort, Proper
<1>3. CASE wrote.op = "RRQ"
  BY <1>3, ServeReadGood
<1>4. CASE wrote.op = "WRQ"
  BY <1>4, ServeWriteGood
<1>5. CASE wrote.op = "DATA"
  BY <1>5, ServeDataGood
<1>6. CASE wrote.op = "ACK"
  <2> DEFINE further == [server EXCEPT !.pos = @ + room.read, !.nr = @ + 1]
  <2>1. /\ s.store = store
        /\ \/ s.server = server /\ s.replies = <<>>
           \/ server.mode = "read" /\ s.server.mode = "idle" /\ s.replies = <<>>
           \/ /\ server.mode = "read" /\ wrote.nr = server.nr
              /\ ~(Len(FoeSends(server).payload) < room.read)
              /\ s.server = further /\ s.replies = <<FoeSends(s.server)>>
    <3> HIDE DEF further
    <3>1. QED
      BY <1>1, <1>6, ServesAck DEF further
  <2> HIDE DEF further
  <2>2. CASE s.server = server /\ s.replies = <<>>
    BY <1>6, <2>1, <2>2, AckPassed
  <2>3. CASE server.mode = "read" /\ s.server.mode = "idle" /\ s.replies = <<>>
    BY <1>6, <2>1, <2>3, AckLast
  <2>4. CASE /\ server.mode = "read" /\ wrote.nr = server.nr
             /\ ~(Len(FoeSends(server).payload) < room.read)
             /\ s.server = further /\ s.replies = <<FoeSends(s.server)>>
    BY <1>6, <2>1, <2>4, AckNext DEF further
  <2>5. QED
    BY <2>1, <2>2, <2>3, <2>4
<1>7. QED
  BY <1>2, <1>3, <1>4, <1>5, <1>6 DEF FoeOps

LEMMA SlaveFoeIs ==
    ASSUME SlaveFoe, Lives(<<sevars, evars>>)
    PROVE  \E s : ServesWith(s)
BY DEF SlaveFoe, Lives, ServesWith

-----------------------------------------------------------------------------
(* The inductive invariant.                                                *)

FoeInv == FoeTypes /\ PortOk /\ OthersOk /\ (Sound => Good)

\* Calls that can be trusted after a step could be trusted before.
LEMMA SoundBefore ==
    ASSUME FoeTypes, losses \in Nat, losses' \in Nat, losses' >= losses, lates \subseteq lates',
           UNCHANGED <<foe_calls, room>>, Sound'
    PROVE  Sound
<1>1. Len(foe_calls) \in Nat
  BY DEF FoeTypes
<1>2. losses' = 0 => losses = 0
  OBVIOUS
<1>3. Len(foe_calls) <= IF losses = 0 THEN 2 ELSE 1
  BY <1>1, <1>2 DEF Sound
<1>4. QED
  BY <1>3 DEF Sound

LEMMA OthersGood ==
    ASSUME NullIsNone, FoeTypes, PortOk, OthersOk, Sound => Good, [Next]_vars, ~SoeReturnsAgain,
           ~FoeThread, ~(SlaveFoe /\ Lives(<<sevars, evars>>))
    PROVE  FoeTypes' /\ PortOk' /\ OthersOk' /\ (Sound' => Good')
<1>1. /\ PortOk' /\ OthersOk' /\ OutKeeps /\ InKeeps
      /\ UNCHANGED fvars /\ lates \subseteq lates'
  BY OthersKeep
<1>2. UNCHANGED <<foe, foe_calls, room, server, store>>
  BY <1>1 DEF fvars
<1>3. FoeTypes'
  BY <1>2 DEF FoeTypes, Call
<1>4. IsSeq(Out) /\ IsSeq(In) /\ IsSeq(Out') /\ IsSeq(In') /\ losses \in Nat /\ losses' \in Nat
  BY <1>1, QueuesAre, QueuesAreNext DEF PortOk, InPort
<1>5. ASSUME Sound' PROVE Good'
  <2>1. losses' >= losses
    BY <1>1 DEF InKeeps
  <2>2. Sound
    BY <1>1, <1>2, <1>4, <1>5, <2>1, SoundBefore
  <2>3. GoodWith(Out, In, losses)
    BY <2>2 DEF Good
  <2>4. /\ Kept(Out, {}, Out', {}) /\ Kept(In, {}, In', {})
        /\ losses' = losses => AllKept(In, {}, In')
        /\ \A i \in Foes(Out) : Out[i].op = "ACK" \/ \E j \in Foes(Out') : Out'[j] = Out[i]
    BY <1>1 DEF OutKeeps, InKeeps, AllKept
  <2>5. GoodWith(Out', In', losses')
    BY <1>4, <2>1, <2>3, <2>4, KeptGood
  <2>6. QED
    BY <1>2, <2>5, GoodNext
<1>6. QED
  BY <1>1, <1>3, <1>5

LEMMA FoeInvKeeps ==
    ASSUME NullIsNone
    PROVE  FoeInv /\ [Next]_vars /\ ~SoeReturnsAgain => FoeInv'
<1> SUFFICES ASSUME FoeInv, [Next]_vars, ~SoeReturnsAgain PROVE FoeInv'
  OBVIOUS
<1>1. FoeTypes /\ PortOk /\ OthersOk /\ (Sound => Good)
  BY DEF FoeInv
<1>2. RecvInv'
  BY <1>1, RecvKeeps DEF PortOk
<1>3. CASE FoeThread
  <2>1. OutPort' /\ InPort' /\ OthersOk' /\ losses' = losses /\ lates \subseteq lates'
    BY <1>1, <1>3, FoePort
  <2>2. PortOk'
    BY <1>2, <2>1 DEF PortOk
  <2>3. FoeTypes' /\ UNCHANGED <<foe_calls, room>>
    BY <1>1, <1>3, FoeTypesKeep DEF FoeThread
  <2>4. losses \in Nat /\ losses' \in Nat /\ losses' >= losses
    BY <1>1, <2>1 DEF PortOk, InPort
  <2>5. ASSUME Sound' PROVE Good'
    <3>1. Sound
      BY <1>1, <2>1, <2>3, <2>4, <2>5, SoundBefore
    <3>2. QED
      BY <1>1, <1>3, <2>2, <2>5, <3>1, FoeThreadGood
  <2>6. QED
    BY <2>1, <2>2, <2>3, <2>5 DEF FoeInv
<1>4. CASE SlaveFoe /\ Lives(<<sevars, evars>>)
  <2>1. PICK s : ServesWith(s)
    BY <1>4, SlaveFoeIs
  <2>2. OutPort' /\ InPort' /\ OthersOk' /\ UNCHANGED <<losses, lates>>
    BY <1>1, <2>1, ServePort
  <2>3. PortOk'
    BY <1>2, <2>2 DEF PortOk
  <2>4. /\ UNCHANGED <<foe, foe_calls, room>> /\ server' = s.server
        /\ wrote # NULL /\ wrote.pool = "foe" /\ s \in FoeServes(wrote)
    BY <2>1 DEF ServesWith
  <2>5. FoeTypes'
    <3>1. wrote.op \in FoeOps
      BY <1>1, <2>4 DEF PortOk, OutPort, Proper
    <3>2. DOMAIN server' = ServerFields
      BY <1>1, <2>4, <3>1, ServesFields DEF FoeTypes
    <3>3. QED
      BY <1>1, <2>4, <3>2 DEF FoeTypes, Call
  <2>6. ASSUME Sound' PROVE Good'
    <3>1. Sound
      BY <2>2, <2>4, <2>6 DEF Sound
    <3>2. QED
      BY <1>1, <2>1, <2>3, <3>1, ServeGood
  <2>7. QED
    BY <2>2, <2>3, <2>5, <2>6 DEF FoeInv
<1>5. CASE ~FoeThread /\ ~(SlaveFoe /\ Lives(<<sevars, evars>>))
  BY <1>1, <1>5, OthersGood DEF FoeInv
<1>6. QED
  BY <1>3, <1>4, <1>5

\* What the application and the slave's network do is well formed.
Asked(calls, sizes, frames) ==
    /\ calls.foe \in Seq([op : {"read", "write"}, file : DOMAIN Files])
    /\ IsSeq(calls.soe) /\ \A i \in DOMAIN calls.soe : IsSeq(calls.soe[i].value)
    /\ IsSeq(frames) /\ \A i \in DOMAIN frames : IsSeq(frames[i])
    /\ sizes.read \in Nat \ {0}

LEMMA QueuesEmpty ==
    ASSUME NEW held, PortInit(held)
    PROVE  PortOk /\ DOMAIN Out = {} /\ DOMAIN In = {}
<1>1. RecvInv
  BY RecvBegins
<1>2. /\ send_queued = <<>> /\ answers = <<>> /\ wrote = NULL /\ full = NULL
      /\ handler = Idle /\ losses = 0 /\ recv_pool = [p \in Pools |-> <<>>]
      /\ data = [b \in Buffers |-> Zeroed]
  BY DEF PortInit
<1>3. handler.does # "send"
  BY <1>2 DEF Idle
<1>4. recv_pool["foe"] = <<>>
  BY <1>2 DEF Pools
<1>5. /\ IsSeq(send_queued) /\ Len(send_queued) = 0 /\ DOMAIN send_queued = {}
      /\ IsSeq(answers) /\ Len(answers) = 0 /\ DOMAIN answers = {}
      /\ DOMAIN recv_pool["foe"] = {} /\ Len(recv_pool["foe"]) = 0
  BY <1>2, <1>4, NoneIs
<1>6. OutPort
  BY <1>2, <1>3, <1>5 DEF OutPort
<1>7. InPort
  BY <1>2, <1>5 DEF InPort
<1>8. DOMAIN Out = {}
  <2>1. IsSeq(Wrote) /\ IsSeq(Sending) /\ Wrote = <<>> /\ Sending = <<>>
    BY <1>2, <1>3, OutIs
  <2>2. Len(Wrote) = 0 /\ Len(Sending) = 0
    BY <2>1, NoneIs
  <2> DEFINE a == Wrote \o Sending
  <2>3. IsSeq(a) /\ Len(a) = 0
    BY <2>1, <2>2, CatIs
  <2> HIDE DEF a
  <2>4. IsSeq(a \o send_queued) /\ Len(a \o send_queued) = 0
    BY <1>5, <2>3, CatIs
  <2>5. DOMAIN (a \o send_queued) = 1 .. 0
    BY <2>4, SeqLen
  <2>6. QED
    BY <2>5 DEF Out, a
<1>9. DOMAIN In = {}
  <2>1. IsSeq(Waits) /\ IsSeq(Full) /\ Len(Waits) = 0 /\ Full = <<>>
    BY <1>1, <1>2, <1>5, <1>7, InIs
  <2>2. Len(Full) = 0
    BY <2>1, NoneIs
  <2> DEFINE a == Waits \o Full
  <2>3. IsSeq(a) /\ Len(a) = 0
    BY <2>1, <2>2, CatIs
  <2> HIDE DEF a
  <2>4. IsSeq(a \o answers) /\ Len(a \o answers) = 0
    BY <1>5, <2>3, CatIs
  <2>5. DOMAIN (a \o answers) = 1 .. 0
    BY <2>4, SeqLen
  <2>6. QED
    BY <2>5 DEF In, a
<1>10. QED
  BY <1>1, <1>6, <1>7, <1>8, <1>9 DEF PortOk

LEMMA FoeBegins ==
    ASSUME NEW calls, NEW sizes, NEW frames, NEW device, NEW held, Asked(calls, sizes, frames),
           ServicesInit(calls, sizes, frames, device, held)
    PROVE  FoeInv
<1>1. PortOk /\ DOMAIN Out = {} /\ DOMAIN In = {}
  BY QueuesEmpty DEF ServicesInit
<1>2. /\ foe = [pc |-> "idle", call |-> 0, ret |-> NULL, got |-> <<>>, pos |-> 0, nr |-> 0,
                last |-> FALSE]
      /\ foe_calls = calls.foe /\ room = sizes /\ server = FileDone
  BY DEF ServicesInit, FoeInit
<1>3. DOMAIN foe = FoeFields /\ foe.pc = "idle" /\ foe.call = 0
  BY <1>2 DEF FoeFields
<1>4. DOMAIN server = ServerFields /\ server.mode = "idle"
  BY <1>2 DEF ServerFields, FileDone
<1>5. FoeTypes
  BY <1>2, <1>3, <1>4 DEF FoeTypes, Asked
<1>6. OthersOk
  <2>1. soe_calls = calls.soe /\ soe.call = 0 /\ "call" \in DOMAIN soe
    BY DEF ServicesInit, SoeInit
  <2>2. {"frames", "sent"} \subseteq DOMAIN node /\ node.sent = 0 /\ node.frames = frames
    BY DEF ServicesInit, EoeInit
  <2>3. Len(soe_calls) \in Nat
    BY <2>1, SeqLen DEF Asked
  <2>4. QED
    BY <1>2, <2>1, <2>2, <2>3 DEF OthersOk, Asked
<1>7. Foes(Out) = {} /\ Foes(In) = {}
  BY <1>1 DEF Foes
<1>8. Good
  BY <1>3, <1>4, <1>7 DEF Good, GoodWith, OutOk, LeftOver, WriteOk, InOk, ReadOk, Is
<1>9. QED
  BY <1>1, <1>5, <1>6, <1>8 DEF FoeInv

-----------------------------------------------------------------------------
(* FoE implements FileTransfer.                                            *)

\* What the variables of FileTransfer are here.
Doing   == IF foe.pc = "idle" THEN NULL ELSE Call
Outcome == IF foe.pc # "idle" \/ foe.ret = NULL THEN NULL
           ELSE [ok |-> foe.ret = "ok", data |-> foe.got, of |-> Call]

Steps == [Transfer!Next]_(Transfer!tvars)

LEMMA SoundIs == Sound \in BOOLEAN
BY DEF Sound

LEMMA SoundEnds ==
    ASSUME Sound' => Sound
    PROVE  Sound' \in {Sound, FALSE}
<1>1. Sound \in BOOLEAN /\ Sound' \in BOOLEAN
  BY DEF Sound
<1>2. QED
  BY <1>1, Zenon

LEMMA CallIs ==
    ASSUME NullIsNone, FoeTypes, foe.call >= 1
    PROVE  /\ Call # NULL /\ Call \in Transfer!Call("read") \cup Transfer!Call("write")
           /\ Call.op \in {"read", "write"}
<1>1. Call \in [op : {"read", "write"}, file : DOMAIN Files]
  BY FileIs
<1>2. Call = [op |-> Call.op, file |-> Call.file] /\ Call.op \in {"read", "write"} /\ Call.file \in DOMAIN Files
  BY <1>1
<1>3. Call # NULL
  BY <1>2 DEF NullIsNone
<1>4. QED
  BY <1>2, <1>3 DEF Transfer!Call

\* Nothing a caller can see happens, unless it is that calls cannot be trusted any more.
LEMMA StepStutters ==
    ASSUME UNCHANGED <<Doing, Outcome, store>>, Sound' => Sound
    PROVE  Steps
<1>1. Sound' \in {Sound, FALSE}
  BY SoundEnds
<1>2. CASE Sound' = Sound
  BY <1>2, Zenon DEF Steps, Transfer!tvars, Doing, Outcome
<1>3. CASE Sound' = FALSE
  <2>1. Transfer!Distrust
    BY <1>3, Zenon DEF Transfer!Distrust, Doing, Outcome
  <2>2. QED
    BY <2>1 DEF Steps, Transfer!Next
<1>4. QED
  BY <1>1, <1>2, <1>3, Zenon

\* What a call that has returned must have done.
WholeFile == /\ Call.op = "read" => foe'.got = Content
             /\ Call.op = "write" => store = Content

LEMMA StepFinishes ==
    ASSUME NullIsNone, FoeTypes, foe.pc # "idle", foe'.pc = "idle", foe'.call = foe.call,
           foe'.ret \in {"ok", "no_buffer", "refused", "no_ack", "timeout"},
           UNCHANGED <<foe_calls, store>>, Sound' => Sound,
           Sound /\ Sound' /\ foe'.ret = "ok" => WholeFile
    PROVE  Steps
<1>1. foe'.ret # NULL
  BY DEF NullIsNone
<1>2. Call' = Call
  BY CallSame
<1> DEFINE end == [ok |-> foe'.ret = "ok", data |-> foe'.got, of |-> Call]
<1>3. Doing = Call /\ Doing' = NULL /\ Outcome' = end /\ end # NULL
  BY <1>1, <1>2 DEF Doing, Outcome, NullIsNone
<1>4. end.of = Call /\ (end.ok <=> foe'.ret = "ok") /\ end.data = foe'.got
  OBVIOUS
<1> HIDE DEF end
<1>5. Call # NULL /\ Call.op \in {"read", "write"}
  <2>1. foe.call >= 1
    BY DEF FoeTypes
  <2>2. QED
    BY <2>1, CallIs
<1>6. Sound' \in {Sound, FALSE}
  BY SoundEnds
<1>7. Sound /\ Sound' => Transfer!Kept(Call, end)
  BY <1>4, <1>5 DEF Transfer!Kept, WholeFile, Content
<1>8. Transfer!Finish
  BY <1>3, <1>4, <1>5, <1>6, <1>7, Zenon DEF Transfer!Finish, Doing, Outcome
<1>9. QED
  BY <1>8 DEF Steps, Transfer!Next

LEMMA FoeCallSteps ==
    ASSUME NullIsNone, FoeTypes, FoeCall, Sound' => Sound
    PROVE  Steps
<1> DEFINE c == foe_calls[foe.call + 1]
           m == FoeMessage(IF c.op = "read" THEN "RRQ" ELSE "WRQ", c.file, <<>>)
           next == [pc |-> c.op, call |-> foe.call + 1, ret |-> NULL, got |-> <<>>,
                    pos |-> 0, nr |-> 0, last |-> FALSE]
<1>1. foe.pc = "idle" /\ foe.call < Len(foe_calls) /\ FoeSend(m, next) /\ UNCHANGED <<foe_calls, room, store>>
  BY DEF FoeCall, FoeOnly
<1>2. /\ next.pc = c.op /\ next.call = foe.call + 1 /\ next.ret = NULL
      /\ DOMAIN next = FoeFields
  BY DEF FoeFields
<1>3. c \in [op : {"read", "write"}, file : DOMAIN Files]
  <2> DEFINE R == [op : {"read", "write"}, file : DOMAIN Files]
  <2>1. foe_calls \in Seq(R) /\ foe.call \in 0 .. Len(foe_calls) /\ foe.call < Len(foe_calls)
    BY <1>1 DEF FoeTypes
  <2> HIDE DEF R
  <2>2. foe.call + 1 \in 1 .. Len(foe_calls)
    BY <2>1
  <2>3. c \in R
    BY <2>1, <2>2
  <2>4. QED
    BY <2>3 DEF R
<1> HIDE DEF m, next
<1>4. foe' = next \/ foe' = [next EXCEPT !.pc = "idle", !.ret = "no_buffer"]
  BY <1>1 DEF FoeSend
<1>5. foe'.call = foe.call + 1
  BY <1>2, <1>4 DEF FoeFields
<1>6. Call' = c
  BY <1>1, <1>5 DEF Call
<1>7. /\ c.op \in {"read", "write"} /\ c.file \in DOMAIN Files
      /\ c = [op |-> c.op, file |-> c.file]
  BY <1>3
<1>8. c # NULL /\ c \in Transfer!Call("read") \cup Transfer!Call("write")
  <2>1. c # NULL
    BY <1>7 DEF NullIsNone
  <2>2. QED
    BY <1>7, <2>1 DEF Transfer!Call
<1>9. Doing = NULL
  BY <1>1 DEF Doing
<1> HIDE DEF c
<1>10. Sound' \in {Sound, FALSE}
  BY SoundEnds
<1>11. CASE foe' = next
  <2>1. foe'.pc # "idle" /\ foe'.ret = NULL
    BY <1>2, <1>7, <1>11
  <2>2. Doing' = c /\ Outcome' = NULL
    BY <1>6, <2>1 DEF Doing, Outcome
  <2>3. Sound' = Sound
    <3>1. UNCHANGED <<lates, losses, room, foe_calls>>
      BY <1>1 DEF FoeCall
    <3>2. QED
      BY <3>1, Zenon DEF Sound
  <2>4. Transfer!Begin
    BY <1>1, <1>8, <1>9, <2>2, <2>3, Zenon DEF Transfer!Begin, Doing, Outcome
  <2>5. QED
    BY <2>4 DEF Steps, Transfer!Next
<1>12. CASE foe' = [next EXCEPT !.pc = "idle", !.ret = "no_buffer"]
  <2>1. foe'.pc = "idle" /\ foe'.ret = "no_buffer"
    BY <1>2, <1>12 DEF FoeFields
  <2> DEFINE end == [ok |-> foe'.ret = "ok", data |-> foe'.got, of |-> c]
  <2>2. Doing' = NULL /\ Outcome' = end /\ end # NULL
    BY <1>6, <2>1 DEF Doing, Outcome, NullIsNone
  <2>3. ~end.ok
    BY <2>1
  <2> HIDE DEF end
  <2>4. ~Outcome'.ok
    BY <2>2, <2>3
  <2>5. Transfer!Kept(Outcome'.of, Outcome')
    BY <2>4 DEF Transfer!Kept, Outcome
  <2>6. Transfer!Finish
    BY <1>1, <1>9, <1>10, <2>2, <2>4, <2>5, Zenon DEF Transfer!Finish, Doing, Outcome
  <2>7. QED
    BY <2>6 DEF Steps, Transfer!Next
<1>13. QED
  BY <1>4, <1>11, <1>12

LEMMA FoeStays ==
    ASSUME FoeTypes, foe'.pc # "idle", foe.pc # "idle", foe'.call = foe.call,
           UNCHANGED <<foe_calls, store>>, Sound' => Sound
    PROVE  Steps
<1>1. Call' = Call
  BY CallSame
<1>2. UNCHANGED <<Doing, Outcome, store>>
  BY <1>1 DEF Doing, Outcome
<1>3. QED
  BY <1>2, StepStutters

LEMMA FoeReadSteps ==
    ASSUME NullIsNone, FoeTypes, PortOk, OthersOk, Sound => Good, UNCHANGED soe_calls,
           FoeReadData \/ FoeReadOther, Sound' => Sound, UNCHANGED <<foe_calls, store>>
    PROVE  Steps
<1>1. foe.pc = "read" /\ Call.op = "read"
  BY DEF FoeReadData, FoeReadOther, FoeTypes
<1>2. CASE FoeReadData
  <2> DEFINE x == Received("foe")
             got == [foe EXCEPT !.got = @ \o x.payload]
             next == IF Len(x.payload) < room.read THEN [got EXCEPT !.pc = "idle", !.ret = "ok"] ELSE got
  <2>1. FoeSend(FoeMessage("ACK", x.nr, <<>>), next)
    BY <1>2 DEF FoeReadData
  <2>2. foe' = next \/ foe' = [next EXCEPT !.pc = "idle", !.ret = "no_buffer"]
    <3> HIDE DEF next
    <3>1. QED
      BY <2>1 DEF FoeSend
  <2>3. DOMAIN got = FoeFields /\ got.pc = foe.pc /\ got.call = foe.call
    BY DEF FoeTypes, FoeFields
  <2> HIDE DEF got
  <2>4. /\ DOMAIN next = FoeFields /\ next.call = foe.call
        /\ next.pc = foe.pc \/ (next.pc = "idle" /\ next.ret = "ok")
    BY <2>3 DEF FoeFields
  <2> HIDE DEF next
  <2>5. /\ foe'.call = foe.call
        /\ foe'.pc = foe.pc \/ (foe'.pc = "idle" /\ foe'.ret \in {"ok", "no_buffer"})
    BY <2>2, <2>4 DEF FoeFields
  <2>6. CASE foe'.pc = foe.pc
    BY <1>1, <2>5, <2>6, FoeStays
  <2>7. CASE foe'.pc = "idle" /\ foe'.ret \in {"ok", "no_buffer"}
    <3>1. ASSUME Sound, Sound', foe'.ret = "ok" PROVE WholeFile
      <4>1. PICK a \in Nat, s \in Nat : Chain(Out, In, losses, a, s)
        <5>1. RecvInv /\ InPort /\ Good /\ TakeAndReturn("foe")
          BY <1>2, <3>1 DEF PortOk, FoeReadData
        <5>2. QED
          BY <1>1, <5>1, ReadTakes
      <4>2. foe'.got = Content
        BY <1>2, <2>7, <3>1, <4>1, ReadDataIs
      <4>3. QED
        BY <1>1, <4>2 DEF WholeFile
    <3>2. QED
      BY <1>1, <2>5, <2>7, <3>1, StepFinishes
  <2>8. QED
    BY <2>5, <2>6, <2>7
<1>3. CASE FoeReadOther
  <2>1. CASE FoeReturn("refused")
    <3>1. foe'.pc = "idle" /\ foe'.ret = "refused" /\ foe'.call = foe.call
      BY <2>1, ReturnIs
    <3>2. QED
      BY <1>1, <3>1, StepFinishes
  <2>2. CASE foe' = foe
    BY <1>1, <2>2, FoeStays
  <2>3. QED
    BY <1>3, <2>1, <2>2 DEF FoeReadOther
<1>4. QED
  BY <1>2, <1>3

LEMMA FoeWriteSteps ==
    ASSUME NullIsNone, FoeTypes, PortOk, OthersOk, Sound => Good, UNCHANGED soe_calls,
           FoeWriteAnswer, Sound' => Sound, UNCHANGED <<foe_calls, store>>
    PROVE  Steps
<1>1. foe.pc \in {"write", "sent"} /\ Call.op = "write"
  BY DEF FoeWriteAnswer, FoeTypes
<1>2. CASE foe' = [foe EXCEPT !.pc = "packet"]
  <2>1. foe'.pc = "packet" /\ foe'.call = foe.call
    BY <1>2 DEF FoeTypes, FoeFields
  <2>2. QED
    BY <1>1, <2>1, FoeStays
<1>3. ASSUME NEW ret \in {"ok", "refused", "no_ack"}, FoeReturn(ret) PROVE Steps
  <2>1. foe'.pc = "idle" /\ foe'.ret = ret /\ foe'.call = foe.call
    BY <1>3, ReturnIs
  <2>2. ASSUME Sound, Sound', foe'.ret = "ok" PROVE WholeFile
    <3>1. store = Content
      <4>1. foe'.pc = "idle" /\ foe'.ret = "ok" /\ Good
        BY <2>1, <2>2
      <4>2. foe' # [foe EXCEPT !.pc = "packet"]
        BY <4>1 DEF FoeTypes, FoeFields
      <4>3. QED
        BY <4>1, <4>2, WriteAnswerIs
    <3>2. QED
      BY <1>1, <3>1 DEF WholeFile
  <2>3. QED
    BY <1>1, <2>1, <2>2, StepFinishes
<1>4. QED
  <2>1. \/ FoeReturn("refused") \/ FoeReturn("ok") \/ FoeReturn("no_ack")
        \/ foe' = [foe EXCEPT !.pc = "packet"]
    BY DEF FoeWriteAnswer
  <2>2. QED
    BY <1>2, <1>3, <2>1

LEMMA FoeSendsSteps ==
    ASSUME NullIsNone, FoeTypes, FoeWritePacket, Sound' => Sound, UNCHANGED <<foe_calls, store>>
    PROVE  Steps
<1> DEFINE part == Part(Content, foe.pos, room.read)
           next == [foe EXCEPT !.pc = "sent", !.nr = @ + 1, !.pos = @ + Len(part),
                               !.last = Len(part) < room.read]
<1>1. foe.pc = "packet" /\ FoeSend(FoeMessage("DATA", foe.nr + 1, part), next)
  BY DEF FoeWritePacket
<1>2. DOMAIN next = FoeFields /\ next.pc = "sent" /\ next.call = foe.call
  BY DEF FoeTypes, FoeFields
<1> HIDE DEF part, next
<1>3. foe' = next \/ foe' = [next EXCEPT !.pc = "idle", !.ret = "no_buffer"]
  BY <1>1 DEF FoeSend
<1>4. CASE foe' = next
  BY <1>1, <1>2, <1>4, FoeStays
<1>5. CASE foe' = [next EXCEPT !.pc = "idle", !.ret = "no_buffer"]
  <2>1. foe'.pc = "idle" /\ foe'.ret = "no_buffer" /\ foe'.call = foe.call
    BY <1>2, <1>5 DEF FoeFields
  <2>2. QED
    BY <1>1, <2>1, StepFinishes
<1>6. QED
  BY <1>3, <1>4, <1>5

LEMMA FoeTimeoutSteps ==
    ASSUME NullIsNone, FoeTypes, FoeTimeout, Sound' => Sound, UNCHANGED <<foe_calls, store>>
    PROVE  Steps
<1>1. foe.pc # "idle" /\ \E ret \in {"no_ack", "timeout"} : FoeReturn(ret)
  BY DEF FoeTimeout
<1>2. PICK ret \in {"no_ack", "timeout"} : FoeReturn(ret)
  BY <1>1
<1>3. foe'.pc = "idle" /\ foe'.ret = ret /\ foe'.call = foe.call
  BY <1>2, ReturnIs
<1>4. QED
  BY <1>1, <1>3, StepFinishes

\* The slave has a file when its last packet is there.
LEMMA ServerSteps ==
    ASSUME NullIsNone, FoeInv, NEW s, ServesWith(s), UNCHANGED <<losses, lates>>
    PROVE  Steps
<1>1. UNCHANGED <<foe, foe_calls, room>> /\ store' = s.store /\ wrote.pool = "foe" /\ wrote # NULL
  BY DEF ServesWith
<1>2. UNCHANGED <<Doing, Outcome>> /\ Sound' = Sound
  <2>1. Call' = Call
    BY <1>1 DEF Call
  <2>2. UNCHANGED <<Doing, Outcome>>
    BY <1>1, <2>1 DEF Doing, Outcome
  <2>3. Sound' = Sound
    BY <1>1, Zenon DEF Sound
  <2>4. QED
    BY <2>2, <2>3
<1>3. CASE store' = store
  BY <1>2, <1>3, StepStutters
<1>4. CASE store' # store
  <2>1. ASSUME Sound PROVE Doing # NULL /\ Doing.op = "write" /\ store' = Files[Doing.file]
    <3>1. wrote.op \in FoeOps /\ FoeTypes /\ PortOk /\ OthersOk /\ Good
      BY <1>1, <2>1 DEF FoeInv, PortOk, OutPort, Proper
    <3>2. wrote.op = "DATA"
      <4>1. s \in FoeServes(wrote)
        BY DEF ServesWith
      <4>2. wrote.op \in {"RRQ", "WRQ", "ACK"} => s.store = store
        BY <4>1, ServesRead, ServesWrite, ServesAck
      <4>3. QED
        BY <1>1, <1>4, <3>1, <4>2 DEF FoeOps
    <3>3. foe.pc = "sent" /\ foe.call >= 1 /\ store' = Content
      BY <1>1, <1>4, <2>1, <3>1, <3>2, ServeDataIs
    <3>4. Doing = Call /\ Call # NULL /\ Call.op = "write"
      BY <3>1, <3>3, CallIs DEF Doing, FoeTypes
    <3>5. QED
      BY <3>3, <3>4 DEF Content
  <2>2. Transfer!Store
    BY <1>2, <2>1, Zenon DEF Transfer!Store, Doing, Outcome
  <2>3. QED
    BY <2>2 DEF Steps, Transfer!Next
<1>5. QED
  BY <1>3, <1>4

LEMMA FoeStepsMap ==
    ASSUME NullIsNone, FoeInv, FoeInv', [Next]_vars, ~SoeReturnsAgain
    PROVE  Steps
<1>1. FoeTypes /\ PortOk /\ OthersOk /\ (Sound => Good) /\ losses \in Nat /\ losses' \in Nat
  BY DEF FoeInv, PortOk, InPort
<1>2. CASE FoeThread
  <2>1. UNCHANGED <<foe_calls, room, store, soe_calls>> /\ FoeNext
    <3>1. FoeNext /\ UNCHANGED soe_calls
      BY <1>2 DEF FoeThread, Lives, sevars
    <3>2. QED
      BY <1>1, <3>1, FoeTypesKeep
  <2>2. Sound' => Sound
    <3>1. losses' = losses /\ lates \subseteq lates'
      BY <1>1, <1>2, FoePort
    <3>2. losses' >= losses
      BY <1>1, <3>1
    <3>3. QED
      BY <1>1, <2>1, <3>1, <3>2, SoundBefore
  <2>3. CASE FoeCall
    BY <1>1, <2>2, <2>3, FoeCallSteps
  <2>4. CASE FoeReadData \/ FoeReadOther
    BY <1>1, <2>1, <2>2, <2>4, FoeReadSteps
  <2>5. CASE FoeWriteAnswer
    BY <1>1, <2>1, <2>2, <2>5, FoeWriteSteps
  <2>6. CASE FoeWritePacket
    BY <1>1, <2>1, <2>2, <2>6, FoeSendsSteps
  <2>7. CASE FoeTimeout
    BY <1>1, <2>1, <2>2, <2>7, FoeTimeoutSteps
  <2>8. QED
    BY <2>1, <2>3, <2>4, <2>5, <2>6, <2>7 DEF FoeNext
<1>3. CASE SlaveFoe /\ Lives(<<sevars, evars>>)
  <2>1. PICK s : ServesWith(s)
    BY <1>3, SlaveFoeIs
  <2>2. UNCHANGED <<losses, lates>>
    BY <1>1, <2>1, ServePort
  <2>3. QED
    BY <2>1, <2>2, ServerSteps
<1>4. CASE ~FoeThread /\ ~(SlaveFoe /\ Lives(<<sevars, evars>>))
  <2>1. InKeeps /\ UNCHANGED fvars /\ lates \subseteq lates'
    BY <1>1, <1>4, OthersKeep
  <2>2. UNCHANGED <<foe, foe_calls, room, store>> /\ losses' >= losses
    BY <2>1 DEF fvars, InKeeps
  <2>3. Sound' => Sound
    BY <1>1, <2>1, <2>2, SoundBefore
  <2>4. Call' = Call
    BY <2>2 DEF Call
  <2>5. UNCHANGED <<Doing, Outcome>>
    BY <2>2, <2>4 DEF Doing, Outcome
  <2>6. QED
    BY <2>2, <2>3, <2>5, StepStutters
<1>5. QED
  BY <1>2, <1>3, <1>4

\* The step that returns a buffer twice, after which there is no other, is none of FoE.
FoeHeld == HasPc /\ (~ReturnedTwice => FoeInv)

LEMMA FoeHeldKeeps ==
    ASSUME NullIsNone
    PROVE  FoeHeld /\ [Next]_vars => FoeHeld'
<1> SUFFICES ASSUME FoeHeld, [Next]_vars PROVE FoeHeld'
  OBVIOUS
<1>1. HasPc /\ HasPc'
  BY PcStays DEF FoeHeld
<1>2. CASE ReturnedTwice
  <2>1. ReturnedTwice'
    BY <1>2, TwiceStays DEF ReturnedTwice, vars, sevars
  <2>2. QED
    BY <1>1, <2>1 DEF FoeHeld
<1>3. CASE ~ReturnedTwice
  BY <1>1, <1>3, TwiceIs, FoeInvKeeps DEF FoeHeld
<1>4. QED
  BY <1>2, <1>3

LEMMA OutsideStutters ==
    ASSUME UNCHANGED <<fvars, losses, lates>>
    PROVE  Steps
<1>1. UNCHANGED <<foe, foe_calls, room, store>>
  BY DEF fvars
<1>2. Call' = Call
  BY <1>1 DEF Call
<1>3. UNCHANGED <<Doing, Outcome>> /\ (Sound' => Sound)
  BY <1>1, <1>2 DEF Doing, Outcome, Sound
<1>4. QED
  BY <1>1, <1>3, StepStutters

LEMMA HeldStepsMap ==
    ASSUME NullIsNone, FoeHeld, [Next]_vars
    PROVE  Steps
<1>1. CASE ReturnedTwice
  BY <1>1, TwiceStays, OutsideStutters DEF vars, port
<1>2. CASE SoeReturnsAgain
  <2>1. UNCHANGED <<losses, lates>>
    BY <1>2 DEF SoeReturnsAgain
  <2>2. UNCHANGED fvars
    BY <1>2, AgainIs DEF FoeHeld
  <2>3. QED
    BY <2>1, <2>2, OutsideStutters
<1>3. CASE ~ReturnedTwice /\ ~SoeReturnsAgain
  BY <1>3, FoeInvKeeps, FoeStepsMap DEF FoeHeld
<1>4. QED
  BY <1>1, <1>2, <1>3

\* FoE keeps what FileTransfer promises: a read that returns EC_OK has the file, whole, and
\* after a write that returns EC_OK the file is on the slave, whole, for every sequence of
\* calls, every size of the mailboxes and number of buffers, beside SoE and EoE, while calls
\* can be trusted (foe.c:235-357, foe.c:360-520).
THEOREM FilesStayWhole ==
    ASSUME NEW CONSTANT calls, NEW CONSTANT sizes, NEW CONSTANT frames,
           NEW CONSTANT device, NEW CONSTANT held,
           NullIsNone, Asked(calls, sizes, frames)
    PROVE  ServicesInit(calls, sizes, frames, device, held) /\ [][Next]_vars => FilesWhole
<1>1. ServicesInit(calls, sizes, frames, device, held) => FoeHeld
  BY FoeBegins DEF FoeHeld, HasPc, ServicesInit, SoeInit
<1>2. ServicesInit(calls, sizes, frames, device, held) => Transfer!Init
  <2>1. SUFFICES ASSUME ServicesInit(calls, sizes, frames, device, held) PROVE Transfer!Init
    OBVIOUS
  <2>2. foe.pc = "idle" /\ foe.ret = NULL /\ store = NULL
    BY <2>1 DEF ServicesInit, FoeInit
  <2>3. QED
    BY <2>2, SoundIs DEF Transfer!Init
<1>3. FoeHeld /\ [Next]_vars => FoeHeld'
  BY FoeHeldKeeps
<1>4. FoeHeld /\ [Next]_vars => [Transfer!Next]_(Transfer!tvars)
  BY HeldStepsMap DEF Steps
<1>5. QED
  BY <1>1, <1>2, <1>3, <1>4, PTL DEF FilesWhole, Transfer!Spec

-----------------------------------------------------------------------------
(* What EoE receives.  A cursor <<f, k>> is the k-th fragment of the f-th  *)
(* frame of the node's network; the fragments on their way are those       *)
(* between two cursors, among messages of the other services.              *)

Fragmented(fs, r, c) == Fragments(fs[c[1]], r)

IsCursor(fs, r, c) == c[1] \in DOMAIN fs /\ c[2] \in 1 .. Len(Fragmented(fs, r, c))
Piece(fs, r, c)    == EoeMessage(c[2] - 1, Fragmented(fs, r, c)[c[2]], c[2] < Len(Fragmented(fs, r, c)))
After(fs, r, c)    == IF c[2] < Len(Fragmented(fs, r, c)) THEN <<c[1], c[2] + 1>> ELSE <<c[1] + 1, 1>>

Cursors == Nat \X Nat

\* A message at cursor c leads to cursor d.
Leads(fs, r, m, c, d) == IF m.pool = "eoe" THEN IsCursor(fs, r, c) /\ m = Piece(fs, r, c) /\ d = After(fs, r, c)
                         ELSE d = c

\* The messages of s lead from cursor a to cursor b, one after the other.
Trail(fs, r, s, a, b) ==
    \E c \in [0 .. Len(s) -> Cursors] :
       c[0] = a /\ c[Len(s)] = b /\ \A i \in 1 .. Len(s) : Leads(fs, r, s[i], c[i - 1], c[i])

\* No message leads nowhere.
LEMMA TrailNone ==
    ASSUME NEW fs, NEW r
    PROVE  /\ \A a \in Cursors : Trail(fs, r, <<>>, a, a)
           /\ \A a, b : Trail(fs, r, <<>>, a, b) => a = b
<1>1. Len(<<>>) = 0
  OBVIOUS
<1>2. ASSUME NEW a \in Cursors PROVE Trail(fs, r, <<>>, a, a)
  <2> DEFINE c == [i \in 0 .. 0 |-> a]
  <2>1. c \in [0 .. 0 -> Cursors] /\ c[0] = a
    OBVIOUS
  <2> HIDE DEF c
  <2> QED  BY <1>1, <2>1 DEF Trail
<1>3. ASSUME NEW a, NEW b, Trail(fs, r, <<>>, a, b) PROVE a = b
  BY <1>1, <1>3 DEF Trail
<1> QED  BY <1>2, <1>3

\* One message leads from one cursor to another.
LEMMA TrailOne ==
    ASSUME NEW fs, NEW r, NEW m
    PROVE  /\ \A a, b \in Cursors : Leads(fs, r, m, a, b) => Trail(fs, r, <<m>>, a, b)
           /\ \A a, b : Trail(fs, r, <<m>>, a, b) => Leads(fs, r, m, a, b) /\ a \in Cursors /\ b \in Cursors
<1> DEFINE s == <<m>>
<1>1. Len(s) = 1 /\ s[1] = m
  OBVIOUS
<1> HIDE DEF s
<1>2. ASSUME NEW a \in Cursors, NEW b \in Cursors, Leads(fs, r, m, a, b) PROVE Trail(fs, r, s, a, b)
  <2> DEFINE c == [i \in 0 .. 1 |-> IF i = 0 THEN a ELSE b]
  <2>1. c \in [0 .. 1 -> Cursors] /\ c[0] = a /\ c[1] = b
    OBVIOUS
  <2> HIDE DEF c
  <2>2. \A i \in 1 .. 1 : Leads(fs, r, s[i], c[i - 1], c[i])
    <3> SUFFICES ASSUME NEW i \in 1 .. 1 PROVE Leads(fs, r, s[i], c[i - 1], c[i])
      OBVIOUS
    <3>1. i = 1 /\ i - 1 = 0
      OBVIOUS
    <3> QED  BY <1>1, <1>2, <2>1, <3>1
  <2> QED  BY <1>1, <2>1, <2>2 DEF Trail
<1>3. ASSUME NEW a, NEW b, Trail(fs, r, s, a, b) PROVE Leads(fs, r, m, a, b) /\ a \in Cursors /\ b \in Cursors
  <2>1. PICK c \in [0 .. 1 -> Cursors] :
           c[0] = a /\ c[1] = b /\ \A i \in 1 .. 1 : Leads(fs, r, s[i], c[i - 1], c[i])
    BY <1>1, <1>3 DEF Trail
  <2>2. 1 \in 1 .. 1 /\ 1 - 1 = 0
    OBVIOUS
  <2>3. Leads(fs, r, s[1], c[1 - 1], c[1])
    BY <2>1, <2>2
  <2> QED  BY <1>1, <2>1, <2>2, <2>3
<1> QED  BY <1>2, <1>3 DEF s

\* Trails that meet are one trail.
LEMMA TrailCat ==
    ASSUME NEW fs, NEW r, NEW s, IsSeq(s), NEW t, IsSeq(t), NEW a, NEW b, NEW d,
           Trail(fs, r, s, a, b), Trail(fs, r, t, b, d)
    PROVE  Trail(fs, r, s \o t, a, d)
<1> DEFINE u == s \o t
<1>1. Len(s) \in Nat /\ Len(t) \in Nat
  BY SeqLen
<1>2. /\ Len(u) = Len(s) + Len(t)
      /\ \A i \in 1 .. Len(s) : u[i] = s[i]
      /\ \A i \in Len(s) + 1 .. Len(s) + Len(t) : u[i] = t[i - Len(s)]
  BY CatIs
<1> HIDE DEF u
<1>3. PICK c \in [0 .. Len(s) -> Cursors] :
         c[0] = a /\ c[Len(s)] = b /\ \A i \in 1 .. Len(s) : Leads(fs, r, s[i], c[i - 1], c[i])
  BY DEF Trail
<1>4. PICK e \in [0 .. Len(t) -> Cursors] :
         e[0] = b /\ e[Len(t)] = d /\ \A i \in 1 .. Len(t) : Leads(fs, r, t[i], e[i - 1], e[i])
  BY DEF Trail
<1> DEFINE g == [i \in 0 .. Len(u) |-> IF i <= Len(s) THEN c[i] ELSE e[i - Len(s)]]
<1>5. g \in [0 .. Len(u) -> Cursors] /\ g[0] = a /\ g[Len(u)] = d
  <2>1. \A i \in 0 .. Len(u) : ~(i <= Len(s)) => i - Len(s) \in 0 .. Len(t)
    BY <1>1, <1>2
  <2>2. g \in [0 .. Len(u) -> Cursors]
    BY <1>1, <1>2, <1>3, <1>4, <2>1
  <2>3. g[0] = a
    BY <1>1, <1>2, <1>3
  <2>4. CASE Len(t) = 0
    <3>1. Len(u) = Len(s) /\ Len(u) \in 0 .. Len(u) /\ b = d
      BY <1>1, <1>2, <1>4, <2>4
    <3> QED  BY <1>1, <1>3, <2>2, <2>3, <3>1
  <2>5. CASE Len(t) # 0
    <3>1. ~(Len(u) <= Len(s)) /\ Len(u) - Len(s) = Len(t) /\ Len(u) \in 0 .. Len(u)
      BY <1>1, <1>2, <2>5
    <3> QED  BY <1>4, <2>2, <2>3, <3>1
  <2> QED  BY <2>4, <2>5
<1>6. ASSUME NEW i \in 1 .. Len(u) PROVE Leads(fs, r, u[i], g[i - 1], g[i])
  <2>1. i - 1 \in 0 .. Len(u) /\ i \in 0 .. Len(u)
    BY <1>1, <1>2
  <2>2. CASE i <= Len(s)
    <3>1. i \in 1 .. Len(s) /\ i - 1 <= Len(s)
      BY <1>1, <2>2
    <3>2. g[i - 1] = c[i - 1] /\ g[i] = c[i] /\ u[i] = s[i]
      BY <1>2, <2>1, <3>1
    <3> HIDE DEF g
    <3> QED  BY <1>3, <3>1, <3>2
  <2>3. CASE ~(i <= Len(s))
    <3> DEFINE j == i - Len(s)
    <3>1. j \in 1 .. Len(t) /\ i \in Len(s) + 1 .. Len(s) + Len(t) /\ (i - 1) - Len(s) = j - 1
      BY <1>1, <1>2, <2>3
    <3>2. g[i] = e[j] /\ u[i] = t[j]
      BY <1>2, <2>1, <2>3, <3>1
    <3>3. g[i - 1] = e[j - 1]
      <4>1. CASE i - 1 <= Len(s)
        <5>1. i - 1 = Len(s) /\ j = 1
          BY <1>1, <2>3, <4>1
        <5> QED  BY <1>3, <1>4, <2>1, <5>1
      <4>2. CASE ~(i - 1 <= Len(s))
        BY <2>1, <3>1, <4>2
      <4> QED  BY <4>1, <4>2
    <3> HIDE DEF g, j
    <3> QED  BY <1>4, <3>1, <3>2, <3>3
  <2> QED  BY <2>2, <2>3
<1> HIDE DEF g
<1>7. Trail(fs, r, u, a, d)
  BY <1>5, <1>6 DEF Trail
<1> QED  BY <1>7 DEF u

\* The messages behind the first n.
LEMMA TrailRest ==
    ASSUME NEW fs, NEW r, NEW s, IsSeq(s), NEW t, IsSeq(t), NEW n \in 0 .. Len(s), Len(t) = Len(s) - n,
           \A i \in 1 .. Len(t) : t[i] = s[n + i],
           NEW c \in [0 .. Len(s) -> Cursors],
           \A i \in 1 .. Len(s) : Leads(fs, r, s[i], c[i - 1], c[i])
    PROVE  Trail(fs, r, t, c[n], c[Len(s)])
<1>1. Len(s) \in Nat /\ Len(t) \in Nat
  BY SeqLen
<1> DEFINE g == [i \in 0 .. Len(t) |-> c[n + i]]
<1>2. \A i \in 0 .. Len(t) : n + i \in 0 .. Len(s)
  BY <1>1
<1>3. g \in [0 .. Len(t) -> Cursors] /\ g[0] = c[n] /\ g[Len(t)] = c[Len(s)]
  <2>1. n + 0 = n /\ n + Len(t) = Len(s) /\ 0 \in 0 .. Len(t) /\ Len(t) \in 0 .. Len(t)
    BY <1>1
  <2> QED  BY <1>2, <2>1
<1>4. ASSUME NEW i \in 1 .. Len(t) PROVE Leads(fs, r, t[i], g[i - 1], g[i])
  <2>1. n + i \in 1 .. Len(s) /\ i - 1 \in 0 .. Len(t) /\ i \in 0 .. Len(t) /\ n + (i - 1) = (n + i) - 1
    BY <1>1
  <2>2. g[i] = c[n + i] /\ g[i - 1] = c[(n + i) - 1] /\ t[i] = s[n + i]
    BY <2>1
  <2> HIDE DEF g
  <2> QED  BY <2>1, <2>2
<1> HIDE DEF g
<1> QED  BY <1>3, <1>4 DEF Trail

\* A trail goes on behind its first message.
LEMMA TrailTail ==
    ASSUME NEW fs, NEW r, NEW s, IsSeq(s), s # <<>>, NEW a, NEW d, Trail(fs, r, s, a, d)
    PROVE  \E b \in Cursors : a \in Cursors /\ Leads(fs, r, Head(s), a, b) /\ Trail(fs, r, Tail(s), b, d)
<1>1. /\ IsSeq(Tail(s)) /\ Len(s) \in Nat /\ Len(s) >= 1 /\ Head(s) = s[1] /\ Len(Tail(s)) = Len(s) - 1
      /\ \A i \in 1 .. Len(Tail(s)) : Tail(s)[i] = s[i + 1]
  BY HeadTailIs
<1>2. PICK c \in [0 .. Len(s) -> Cursors] :
         c[0] = a /\ c[Len(s)] = d /\ \A i \in 1 .. Len(s) : Leads(fs, r, s[i], c[i - 1], c[i])
  BY DEF Trail
<1> DEFINE t == Tail(s)
<1>3. 1 \in 0 .. Len(s) /\ 1 \in 1 .. Len(s) /\ 0 \in 0 .. Len(s) /\ 1 - 1 = 0
  BY <1>1
<1>4. IsSeq(t) /\ Len(t) = Len(s) - 1 /\ \A i \in 1 .. Len(t) : t[i] = s[1 + i]
  BY <1>1
<1> HIDE DEF t
<1>5. Trail(fs, r, t, c[1], c[Len(s)])
  BY <1>2, <1>3, <1>4, TrailRest
<1>6. Leads(fs, r, s[1], c[1 - 1], c[1]) /\ c[1] \in Cursors /\ c[0] \in Cursors
  BY <1>2, <1>3
<1> QED  BY <1>1, <1>2, <1>3, <1>5, <1>6 DEF t

\* Messages of other services lead nowhere.
LEMMA TrailOther ==
    ASSUME NEW fs, NEW r, NEW s, IsSeq(s), \A i \in DOMAIN s : s[i].pool # "eoe", NEW a \in Cursors
    PROVE  Trail(fs, r, s, a, a)
<1>1. Len(s) \in Nat /\ DOMAIN s = 1 .. Len(s)
  BY SeqLen
<1> DEFINE c == [i \in 0 .. Len(s) |-> a]
<1>2. c \in [0 .. Len(s) -> Cursors] /\ c[0] = a /\ c[Len(s)] = a
  BY <1>1
<1>3. ASSUME NEW i \in 1 .. Len(s) PROVE Leads(fs, r, s[i], c[i - 1], c[i])
  <2>1. c[i] = a /\ c[i - 1] = a
    BY <1>1
  <2> HIDE DEF c
  <2> QED  BY <1>1, <2>1 DEF Leads
<1> HIDE DEF c
<1> QED  BY <1>2, <1>3 DEF Trail

\* The fragments of a frame, one after the other.
LEMMA PartsAre ==
    ASSUME NEW f, IsSeq(f), NEW r \in Nat \ {0}
    PROVE  LET parts == Fragments(f, r)
           IN  /\ IsSeq(parts) /\ Len(parts) \in Nat \ {0} /\ DOMAIN parts = 1 .. Len(parts)
               /\ \A k \in 1 .. Len(parts) : /\ (k - 1) * r \in Nat /\ (k - 1) * r <= Len(f)
                                             /\ parts[k] = Part(f, (k - 1) * r, r)
               /\ Len(parts) * r \in Nat /\ Len(parts) * r >= Len(f)
<1> DEFINE last == IF f = <<>> THEN 0 ELSE (Len(f) - 1) \div r
           parts == Fragments(f, r)
<1>1. Len(f) \in Nat
  BY SeqLen
<1>2. last \in Nat /\ last * r \in Nat /\ last * r <= Len(f) /\ (last + 1) * r = last * r + r /\ last * r + r >= Len(f)
  <2>1. CASE f = <<>>
    <3>1. last = 0 /\ Len(f) = 0
      BY <2>1
    <3> HIDE DEF last
    <3> QED  BY <3>1
  <2>2. CASE f # <<>>
    <3>1. Len(f) >= 1 /\ last = (Len(f) - 1) \div r
      BY <2>2, HeadTailIs
    <3> DEFINE l == Len(f) - 1
    <3>2. l \in Nat /\ Len(f) = l + 1
      BY <1>1, <3>1
    <3> HIDE DEF l
    <3>3. l \div r \in Nat /\ l = r * (l \div r) + (l % r) /\ l % r \in 0 .. r - 1
      BY <3>2
    <3> DEFINE q == l \div r
    <3>4. last = q
      BY <3>1 DEF l
    <3> HIDE DEF last, q
    <3>5. q \in Nat /\ q * r = r * q /\ q * r \in Nat /\ (q + 1) * r = q * r + r
      <4>1. q \in Nat
        BY <3>3 DEF q
      <4> QED  BY <4>1, NextMultiple
    <3>6. q * r <= l /\ l < q * r + r
      BY <3>2, <3>3, <3>5 DEF q
    <3> QED  BY <3>2, <3>4, <3>5, <3>6
  <2> QED  BY <2>1, <2>2
<1>3. parts = [k \in 1 .. last + 1 |-> Part(f, (k - 1) * r, r)]
  BY DEF Fragments
<1> HIDE DEF last, parts
<1>4. IsSeq(parts) /\ Len(parts) = last + 1 /\ DOMAIN parts = 1 .. last + 1
  <2>1. parts = [k \in 1 .. last + 1 |-> parts[k]]
    BY <1>3
  <2> QED  BY <1>2, <2>1, FunIsSeq
<1>5. ASSUME NEW k \in 1 .. last + 1
      PROVE  (k - 1) * r \in Nat /\ (k - 1) * r <= Len(f) /\ parts[k] = Part(f, (k - 1) * r, r)
  <2>1. k - 1 \in Nat /\ k - 1 <= last
    BY <1>2
  <2>2. PICK d \in Nat : last = (k - 1) + d
    <3>1. last - (k - 1) \in Nat /\ last = (k - 1) + (last - (k - 1))
      BY <1>2, <2>1
    <3> QED  BY <3>1
  <2> DEFINE j == k - 1
  <2>3. j \in Nat /\ last = j + d
    BY <2>1, <2>2
  <2> HIDE DEF j
  <2>4. j * r \in Nat /\ d * r \in Nat /\ last * r = j * r + d * r
    BY <2>3
  <2>5. j * r <= Len(f)
    BY <1>1, <1>2, <2>4
  <2> QED  BY <1>3, <2>4, <2>5 DEF j
<1>6. Len(parts) \in Nat \ {0} /\ Len(parts) * r = last * r + r
  BY <1>2, <1>4
<1> QED  BY <1>1, <1>2, <1>4, <1>5, <1>6 DEF parts

\* The units of a sequence of fragments, one after the other, by the function that adds them up.
LEMMA FlattenIs ==
    ASSUME NEW s, IsSeq(s), Len(s) # 0,
           NEW g, g = [i \in 1 .. Len(s) |-> IF i = 1 THEN s[i] ELSE g[i - 1] \o s[i]]
    PROVE  FlattenSeq(s) = g[Len(s)]
<1> DEFINE N == 1 .. Len(s)
           F(h) == [i \in N |-> IF i = 1 THEN s[i] ELSE h[i - 1] \o s[i]]
           f == CHOOSE h : h = F(h)
<1>1. Len(s) \in Nat /\ N \subseteq Nat /\ Len(s) \in N
  BY SeqLen
<1>2. g = F(g)
  OBVIOUS
<1>3. f = F(f)
  <2> HIDE DEF F
  <2> QED  BY <1>2
<1>4. \A k \in N : f[k] = g[k]
  <2> DEFINE T == {k \in N : f[k] # g[k]}
  <2> SUFFICES ASSUME T # {} PROVE FALSE
    OBVIOUS
  <2>1. PICK k \in T : \A m \in T : k <= m
    <3>1. T \subseteq Nat
      BY <1>1
    <3> HIDE DEF T
    <3> QED  BY <3>1, LeastOf
  <2>2. k \in N /\ f[k] # g[k] /\ k \in Nat
    BY <2>1, <1>1
  <2>3. k # 1 => f[k - 1] = g[k - 1]
    <3> HIDE DEF f, T, F
    <3>1. k # 1 => k - 1 \in N /\ ~(k <= k - 1)
      <4>1. k \in 1 .. Len(s) /\ Len(s) \in Nat
        BY <2>2, <1>1
      <4> QED  BY <4>1
    <3> USE DEF T
    <3> QED  BY <2>1, <3>1
  <2> HIDE DEF f, T
  <2>4. f[k] = F(f)[k] /\ g[k] = F(g)[k]
    BY <1>2, <1>3
  <2>5. F(f)[k] = F(g)[k]
    BY <2>2, <2>3
  <2> QED  BY <2>2, <2>4, <2>5
<1>5. FlattenSeq(s) = f[Len(s)]
  BY DEF FlattenSeq
<1> HIDE DEF f
<1> QED  BY <1>1, <1>4, <1>5

\* The fragments of a frame make the frame.
LEMMA FrameOfParts ==
    ASSUME NEW f, IsSeq(f), NEW r \in Nat \ {0}
    PROVE  FlattenSeq(Fragments(f, r)) = f
<1> DEFINE s == Fragments(f, r)
           to(i) == Least(i * r, Len(f))
           g == [i \in 1 .. Len(s) |-> SubSeq(f, 1, to(i))]
<1>1. /\ IsSeq(s) /\ Len(s) \in Nat \ {0} /\ DOMAIN s = 1 .. Len(s)
      /\ \A k \in 1 .. Len(s) : /\ (k - 1) * r \in Nat /\ (k - 1) * r <= Len(f)
                                /\ s[k] = Part(f, (k - 1) * r, r)
      /\ Len(s) * r \in Nat /\ Len(s) * r >= Len(f)
  BY PartsAre
<1> HIDE DEF s
<1>2. Len(f) \in Nat
  BY SeqLen
<1>3. ASSUME NEW i \in 1 .. Len(s)
      PROVE  g[i] = IF i = 1 THEN s[i] ELSE g[i - 1] \o s[i]
  <2> DEFINE a == (i - 1) * r
             b == to(i)
  <2>1. a \in Nat /\ a <= Len(f) /\ s[i] = Part(f, a, r)
    BY <1>1
  <2>2. i * r = a + r
    <3>1. i - 1 \in Nat /\ i = (i - 1) + 1
      BY <1>1
    <3> QED  BY <3>1, NextMultiple
  <2>3. b = Least(a + r, Len(f))
    BY <2>2
  <2> HIDE DEF a, b, to
  <2>4. b \in Nat /\ a <= b /\ b <= Len(f)
    BY <1>2, <2>1, <2>3 DEF Least
  <2>5. s[i] = SubSeq(f, a + 1, b)
    BY <2>1, <2>3 DEF Part
  <2>6. SubSeq(f, 1, a) \o SubSeq(f, a + 1, b) = SubSeq(f, 1, b)
    BY <2>1, <2>4, PartsJoin
  <2>7. g[i] = SubSeq(f, 1, b)
    BY DEF b
  <2>8. CASE i = 1
    <3>1. a = 0 /\ a + 1 = 1
      BY <2>8 DEF a
    <3> HIDE DEF g
    <3> QED  BY <2>5, <2>7, <2>8, <3>1
  <2>9. CASE i # 1
    <3>1. i - 1 \in 1 .. Len(s)
      BY <1>1, <2>9
    <3>2. to(i - 1) = a
      BY <1>2, <2>1 DEF to, a, Least
    <3>3. g[i - 1] = SubSeq(f, 1, a)
      BY <3>1, <3>2
    <3> HIDE DEF g
    <3> QED  BY <2>5, <2>6, <2>7, <2>9, <3>3
  <2> QED  BY <2>8, <2>9
<1>4. g = [i \in 1 .. Len(s) |-> IF i = 1 THEN s[i] ELSE g[i - 1] \o s[i]]
  <2>1. g = [i \in 1 .. Len(s) |-> g[i]]
    OBVIOUS
  <2> HIDE DEF g
  <2> QED  BY <1>3, <2>1
<1>5. g[Len(s)] = f
  <2>1. to(Len(s)) = Len(f) /\ Len(s) \in 1 .. Len(s)
    BY <1>1, <1>2 DEF Least
  <2>2. SubSeq(f, 1, Len(f)) = f
    BY <1>2, PartsJoin
  <2> HIDE DEF to
  <2> QED  BY <2>1, <2>2
<1> HIDE DEF g
<1>6. FlattenSeq(s) = f
  BY <1>1, <1>4, <1>5, FlattenIs
<1> QED  BY <1>6 DEF s

\* A frame that begins is the one whose number the cursor has.
LEMMA TrailFrame ==
    ASSUME NEW fs, NEW r \in Nat \ {0}, NEW f \in DOMAIN fs, f \in Nat, IsSeq(fs[f]),
           NEW u, u = [k \in DOMAIN Fragments(fs[f], r) |->
                         EoeMessage(k - 1, Fragments(fs[f], r)[k], k < Len(Fragments(fs[f], r)))]
    PROVE  IsSeq(u) /\ Trail(fs, r, u, <<f, 1>>, <<f + 1, 1>>)
<1> DEFINE s == Fragments(fs[f], r)
           n == Len(s)
           c == [i \in 0 .. n |-> IF i = n THEN <<f + 1, 1>> ELSE <<f, i + 1>>]
<1>1. n \in Nat \ {0} /\ DOMAIN s = 1 .. n
  BY PartsAre
<1>2. u = [k \in 1 .. n |-> EoeMessage(k - 1, s[k], k < n)]
  BY <1>1
<1>3. IsSeq(u) /\ Len(u) = n
  <2>1. u = [k \in 1 .. n |-> u[k]]
    BY <1>2, Zenon
  <2> QED  BY <1>1, <2>1, FunIsSeq
<1> HIDE DEF n
<1>4. c \in [0 .. n -> Cursors] /\ c[0] = <<f, 1>> /\ c[n] = <<f + 1, 1>>
  <2>1. \A i \in 0 .. n : i + 1 \in Nat /\ <<f, i + 1>> \in Cursors /\ <<f + 1, 1>> \in Cursors
    BY <1>1 DEF Cursors
  <2>2. c \in [0 .. n -> Cursors]
    BY <2>1
  <2>3. 0 \in 0 .. n /\ n \in 0 .. n /\ 0 # n /\ 0 + 1 = 1
    BY <1>1
  <2>4. c[0] = <<f, 1>>
    BY <2>3
  <2>5. c[n] = <<f + 1, 1>>
    BY <2>3
  <2> QED  BY <2>2, <2>4, <2>5
<1>5. ASSUME NEW i \in 1 .. n PROVE Leads(fs, r, u[i], c[i - 1], c[i])
  <2> DEFINE b == <<f, i>>
  <2>1. i - 1 \in 0 .. n /\ i \in 0 .. n /\ i - 1 # n /\ (i - 1) + 1 = i
    BY <1>1
  <2>2. c[i - 1] = b /\ c[i] = IF i = n THEN <<f + 1, 1>> ELSE <<f, i + 1>>
    BY <2>1
  <2>3. b[1] = f /\ b[2] = i
    OBVIOUS
  <2>4. Fragmented(fs, r, b) = s
    BY <2>3 DEF Fragmented
  <2> HIDE DEF b, c, s
  <2>5. IsCursor(fs, r, b)
    BY <1>1, <2>3, <2>4 DEF IsCursor, n
  <2>6. u[i] = EoeMessage(i - 1, s[i], i < n)
    BY <1>2, Zenon
  <2>7. u[i] = Piece(fs, r, b)
    BY <2>3, <2>4, <2>6 DEF Piece, n
  <2>8. u[i].pool = "eoe"
    BY <2>6 DEF EoeMessage, Message
  <2>9. c[i] = After(fs, r, b)
    <3>1. i < n <=> i # n
      BY <1>1
    <3> QED  BY <2>2, <2>3, <2>4, <3>1 DEF After, n
  <2> QED  BY <2>2, <2>5, <2>7, <2>8, <2>9 DEF Leads
<1> HIDE DEF c
<1> QED  BY <1>3, <1>4, <1>5 DEF Trail

\* What waits begins with the start of a frame, ...
LEMMA TrailStarts ==
    ASSUME NEW fs, NEW r, NEW s, IsSeq(s), s # <<>>, s[1].pool = "eoe", NEW v \in Nat, NEW d,
           Trail(fs, r, s, <<v + 1, 1>>, d)
    PROVE  s[1].nr = 0
<1> DEFINE a == <<v + 1, 1>>
<1>1. Head(s) = s[1]
  BY HeadTailIs
<1>2. a[2] = 1
  OBVIOUS
<1> HIDE DEF a
<1>3. PICK b \in Cursors : Leads(fs, r, Head(s), a, b)
  BY TrailTail DEF a
<1>4. s[1] = Piece(fs, r, a)
  BY <1>1, <1>3 DEF Leads
<1> QED  BY <1>2, <1>4 DEF Piece, EoeMessage, Message

\* ... and up to the first fragment that is a last one it is that frame.
FirstEnd(s, n)  == n \in 1 .. Len(s) /\ ~s[n].more /\ \A j \in 1 .. n - 1 : s[j].more
RestOf(s, n, t)  == IsSeq(t) /\ Len(t) = Len(s) - n /\ \A i \in 1 .. Len(t) : t[i] = s[n + i]
AllEoe(s)       == \A i \in DOMAIN s : s[i].pool = "eoe"
AllFrames(fs)   == \A f \in DOMAIN fs : IsSeq(fs[f])

\* The fragments up to the first last one are those of the next frame, and the trail goes on
\* behind them with the frame after it.
LEMMA TrailEnds ==
    ASSUME NEW fs, NEW r \in Nat \ {0}, AllFrames(fs), NEW s, IsSeq(s), AllEoe(s),
           NEW v \in Nat, NEW d, Trail(fs, r, s, <<v + 1, 1>>, d),
           NEW n, FirstEnd(s, n), NEW t, RestOf(s, n, t)
    PROVE  /\ v + 1 \in DOMAIN fs
           /\ Fragments(fs[v + 1], r) = [k \in 1 .. n |-> s[k].payload]
           /\ Trail(fs, r, t, <<v + 2, 1>>, d)
<1> USE DEF AllFrames, AllEoe, FirstEnd, RestOf
<1>1. Len(s) \in Nat /\ DOMAIN s = 1 .. Len(s) /\ n \in Nat /\ n >= 1 /\ n <= Len(s)
  BY SeqLen
<1>2. PICK c \in [0 .. Len(s) -> Cursors] :
         /\ c[0] = <<v + 1, 1>> /\ c[Len(s)] = d
         /\ \A i \in 1 .. Len(s) : Leads(fs, r, s[i], c[i - 1], c[i])
  BY DEF Trail
<1> DEFINE parts == Fragments(fs[v + 1], r)
           m == Len(parts)
           b(i) == <<v + 1, i>>
<1>3. \A i : b(i)[1] = v + 1 /\ b(i)[2] = i /\ Fragmented(fs, r, b(i)) = parts
  BY DEF Fragmented
\* What a fragment that follows the one before says.
<1>4. ASSUME NEW i \in 1 .. n, c[i - 1] = b(i)
      PROVE  /\ v + 1 \in DOMAIN fs /\ i \in 1 .. m /\ s[i].payload = parts[i]
             /\ s[i].more = (i < m) /\ c[i] = IF i < m THEN b(i + 1) ELSE <<v + 2, 1>>
  <2> DEFINE q == b(i)
  <2>1. q[1] = v + 1 /\ q[2] = i /\ Fragmented(fs, r, q) = parts
    BY <1>3
  <2>2. i \in 1 .. Len(s) /\ s[i].pool = "eoe"
    BY <1>1
  <2>3. Leads(fs, r, s[i], q, c[i])
    BY <1>2, <1>4, <2>2
  <2>4. (v + 1) + 1 = v + 2
    OBVIOUS
  <2> HIDE DEF q, parts
  <2>5. IsCursor(fs, r, q) /\ s[i] = Piece(fs, r, q) /\ c[i] = After(fs, r, q)
    BY <2>2, <2>3 DEF Leads
  <2>6. v + 1 \in DOMAIN fs /\ i \in 1 .. m
    BY <2>1, <2>5 DEF IsCursor
  <2>7. s[i] = EoeMessage(i - 1, parts[i], i < m)
    BY <2>1, <2>5, Zenon DEF Piece
  <2>8. s[i].payload = parts[i] /\ s[i].more = (i < m)
    <3>1. EoeMessage(i - 1, parts[i], i < m).payload = parts[i]
      BY DEF EoeMessage, Message
    <3>2. EoeMessage(i - 1, parts[i], i < m).more = (i < m)
      BY Zenon DEF EoeMessage, Message
    <3>3. s[i].payload = parts[i]
      BY <2>7, <3>1
    <3>4. s[i].more = (i < m)
      BY <2>7, <3>2, Zenon
    <3> QED  BY <3>3, <3>4, Zenon
  <2>9. c[i] = IF i < m THEN <<v + 1, i + 1>> ELSE <<(v + 1) + 1, 1>>
    BY <2>1, <2>5 DEF After
  <2> QED  BY <2>4, <2>6, <2>8, <2>9
<1>5. \A i \in 1 .. n : c[i - 1] = b(i)
  <2> DEFINE T == {i \in 1 .. n : c[i - 1] # b(i)}
  <2> SUFFICES ASSUME T # {} PROVE FALSE
    OBVIOUS
  <2>1. T \subseteq Nat
    BY <1>1
  <2>2. PICK i \in T : \A j \in T : i <= j
    <3> HIDE DEF T
    <3> QED  BY <2>1, LeastOf
  <2>3. i \in 1 .. n /\ i \in Nat /\ c[i - 1] # b(i)
    BY <2>1, <2>2
  <2>4. i # 1
    BY <1>2, <2>3
  <2> DEFINE j == i - 1
  <2>5. j \in 1 .. n /\ j \in 1 .. n - 1 /\ j + 1 = i /\ ~(i <= j)
    BY <1>1, <2>3, <2>4
  <2>6. c[j - 1] = b(j)
    <3> HIDE DEF j, b
    <3>1. j \notin T
      <4> HIDE DEF T
      <4> QED  BY <2>2, <2>5
    <3> QED  BY <2>5, <3>1
  <2> HIDE DEF T, j, parts
  <2>7. s[j].more = (j < m) /\ c[j] = IF j < m THEN b(j + 1) ELSE <<v + 2, 1>>
    BY <1>4, <2>5, <2>6
  <2>8. j < m
    BY <2>5, <2>7
  <2>9. c[j] = b(i)
    BY <2>5, <2>7, <2>8
  <2> QED  BY <2>3, <2>9 DEF j
<1>6. v + 1 \in DOMAIN fs /\ n \in 1 .. m /\ ~(n < m) /\ c[n] = <<v + 2, 1>>
  <2>1. n \in 1 .. n
    BY <1>1
  <2>2. /\ v + 1 \in DOMAIN fs /\ n \in 1 .. m /\ s[n].more = (n < m)
        /\ c[n] = IF n < m THEN b(n + 1) ELSE <<v + 2, 1>>
    <3> HIDE DEF b, parts
    <3> QED  BY <1>4, <1>5, <2>1
  <2> QED  BY <2>2
<1>7. parts = [k \in 1 .. n |-> s[k].payload]
  <2>1. m \in Nat /\ DOMAIN parts = 1 .. m /\ IsSeq(parts)
    BY <1>6, PartsAre
  <2>2. m = n
    <3> HIDE DEF m
    <3> QED  BY <1>1, <1>6, <2>1
  <2>3. \A k \in 1 .. n : s[k].payload = parts[k]
    <3> HIDE DEF b, parts
    <3> QED  BY <1>4, <1>5
  <2>4. parts = [k \in 1 .. n |-> parts[k]]
    <3> HIDE DEF parts
    <3>1. PICK S : parts \in Seq(S)
      BY <2>1 DEF IsSeq
    <3> QED  BY <2>1, <2>2, <3>1
  <2> HIDE DEF parts
  <2> QED  BY <2>3, <2>4
<1>8. Trail(fs, r, t, c[n], c[Len(s)])
  <2>1. n \in 0 .. Len(s)
    BY <1>1
  <2> QED  BY <1>2, <2>1, TrailRest
<1> QED  BY <1>2, <1>6, <1>7, <1>8

\* What is in the buffers of a pool.
Holds(pool, d) == [k \in DOMAIN pool |-> d[pool[k]]]
EoeHas         == Holds(recv_pool["eoe"], data)

\* What the buffers of a pool hold, in order.
LEMMA HoldsIs ==
    ASSUME NEW pool \in Seq(Buffers), NEW d
    PROVE  /\ IsSeq(Holds(pool, d)) /\ Len(Holds(pool, d)) = Len(pool)
           /\ DOMAIN Holds(pool, d) = 1 .. Len(pool) /\ Len(pool) \in Nat
           /\ \A k \in 1 .. Len(pool) : Holds(pool, d)[k] = d[pool[k]]
<1> DEFINE h == Holds(pool, d)
<1>1. Len(pool) \in Nat /\ DOMAIN pool = 1 .. Len(pool)
  OBVIOUS
<1>2. h = [k \in 1 .. Len(pool) |-> d[pool[k]]]
  BY <1>1 DEF Holds
<1> HIDE DEF h
<1>3. h = [k \in 1 .. Len(pool) |-> h[k]]
  BY <1>2
<1>4. IsSeq(h) /\ Len(h) = Len(pool) /\ DOMAIN h = 1 .. Len(pool)
  BY <1>1, <1>3, FunIsSeq
<1> QED  BY <1>1, <1>2, <1>4 DEF h

\* A message that is put into another buffer, and that buffer behind the others.
Lacks(pool, b) == \A k \in DOMAIN pool : pool[k] # b

Stored(d, b, m, e) == e = [d EXCEPT ![b] = m]

\* A message stored in a buffer that is not in the pool is put behind the others with it.
LEMMA HoldsMore ==
    ASSUME NEW pool, pool \in Seq(Buffers), NEW d, DOMAIN d = Buffers, NEW b, b \in Buffers,
           Lacks(pool, b), NEW m, NEW e, Stored(d, b, m, e)
    PROVE  /\ Holds(pool, e) = Holds(pool, d)
           /\ Holds(Append(pool, b), e) = Holds(pool, d) \o <<m>>
<1> DEFINE more == Append(pool, b)
           g == Holds(pool, d)
           h == Holds(more, e)
           one == <<m>>
<1> USE DEF Lacks
<1>1. e[b] = m /\ \A x \in Buffers : x # b => e[x] = d[x]
  BY DEF Stored
<1>2. /\ Len(pool) \in Nat /\ DOMAIN pool = 1 .. Len(pool)
      /\ more \in Seq(Buffers) /\ Len(more) = Len(pool) + 1 /\ more[Len(pool) + 1] = b
      /\ \A k \in 1 .. Len(pool) : more[k] = pool[k] /\ pool[k] \in Buffers
  OBVIOUS
<1> HIDE DEF more
<1>3. \A k \in DOMAIN pool : e[pool[k]] = d[pool[k]]
  BY <1>1, <1>2
<1>4. Holds(pool, e) = g
  BY <1>3 DEF Holds
<1>5. /\ IsSeq(g) /\ Len(g) = Len(pool) /\ \A k \in 1 .. Len(pool) : g[k] = d[pool[k]]
  BY HoldsIs
<1>6. /\ IsSeq(h) /\ Len(h) = Len(pool) + 1 /\ \A k \in 1 .. Len(pool) + 1 : h[k] = e[more[k]]
  BY <1>2, HoldsIs
<1>7. IsSeq(one) /\ Len(one) = 1 /\ one[1] = m
  BY OneIs
<1> HIDE DEF g, h, one
<1>8. /\ IsSeq(g \o one) /\ Len(g \o one) = Len(pool) + 1
      /\ \A k \in 1 .. Len(g) : (g \o one)[k] = g[k]
      /\ \A k \in Len(g) + 1 .. Len(g) + Len(one) : (g \o one)[k] = one[k - Len(g)]
  <2>1. IsSeq(g) /\ IsSeq(one)
    BY <1>5, <1>7
  <2>2. /\ IsSeq(g \o one) /\ Len(g \o one) = Len(g) + Len(one)
        /\ \A k \in 1 .. Len(g) : (g \o one)[k] = g[k]
        /\ \A k \in Len(g) + 1 .. Len(g) + Len(one) : (g \o one)[k] = one[k - Len(g)]
    BY <2>1, CatIs
  <2> QED  BY <1>5, <1>7, <2>2
<1>9. ASSUME NEW k \in 1 .. Len(h) PROVE h[k] = (g \o one)[k]
  <2>1. CASE k <= Len(pool)
    <3>1. k \in 1 .. Len(pool) /\ k \in 1 .. Len(g) /\ k \in 1 .. Len(pool) + 1
      BY <1>2, <1>5, <2>1, <1>6
    <3>2. (g \o one)[k] = g[k]
      BY <1>8, <3>1
    <3>3. h[k] = e[pool[k]] /\ g[k] = d[pool[k]]
      BY <1>2, <1>5, <1>6, <3>1
    <3> QED  BY <1>2, <1>3, <3>1, <3>2, <3>3
  <2>2. CASE ~(k <= Len(pool))
    <3>1. k = Len(pool) + 1 /\ k \in Len(g) + 1 .. Len(g) + Len(one) /\ k - Len(g) = 1
      BY <1>2, <1>5, <1>6, <1>7, <2>2
    <3>2. (g \o one)[k] = one[k - Len(g)]
      BY <1>8, <3>1
    <3> QED  BY <1>1, <1>2, <1>6, <1>7, <3>1, <3>2
  <2> QED  BY <2>1, <2>2
<1>10. h = g \o one
  BY <1>6, <1>8, <1>9, SameSeq
<1> QED  BY <1>4, <1>10 DEF more, g, h, one

\* From the frames the device has to those the network has sent lead the fragments that
\* wait for EoE, the read mailbox and what the slave is going to put into it.
Flow(fs, r, has, on, ahead, v, n) ==
    /\ AllEoe(has)
    /\ \E a, b \in Cursors : /\ Trail(fs, r, has, <<v + 1, 1>>, a) /\ Trail(fs, r, on, a, b)
                             /\ Trail(fs, r, ahead, b, <<n + 1, 1>>)

\* The handler reads a message, of EoE or of another service.
LEMMA FlowReads ==
    ASSUME NEW fs, NEW r, NEW has, IsSeq(has), NEW m, NEW ahead, NEW v, NEW n,
           Flow(fs, r, has, <<m>>, ahead, v, n)
    PROVE  /\ m.pool = "eoe" => Flow(fs, r, has \o <<m>>, <<>>, ahead, v, n)
           /\ m.pool # "eoe" => Flow(fs, r, has, <<>>, ahead, v, n)
<1> DEFINE one == <<m>>
           none == <<>>
           more == has \o one
           start == <<v + 1, 1>>
           end == <<n + 1, 1>>
<1>1. IsSeq(one) /\ Len(one) = 1 /\ one[1] = m
  BY OneIs
<1>2. PICK a \in Cursors, b \in Cursors :
         Trail(fs, r, has, start, a) /\ Trail(fs, r, one, a, b) /\ Trail(fs, r, ahead, b, end)
  BY DEF Flow
<1>3. Trail(fs, r, none, b, b) /\ Leads(fs, r, m, a, b)
  BY <1>2, TrailNone, TrailOne
<1>4. IsSeq(more) /\ Len(more) = Len(has) + 1 /\ \A i \in 1 .. Len(has) : more[i] = has[i]
  BY <1>1, CatIs
<1>5. more[Len(has) + 1] = m /\ Len(has) \in Nat
  <2>1. Len(has) \in Nat
    BY SeqLen
  <2>2. Len(has) + 1 \in Len(has) + 1 .. Len(has) + Len(one) /\ (Len(has) + 1) - Len(has) = 1
    BY <1>1, <2>1
  <2>3. more[Len(has) + 1] = one[(Len(has) + 1) - Len(has)]
    BY <1>1, <2>2, CatIs
  <2> QED  BY <1>1, <2>1, <2>2, <2>3
<1> HIDE DEF one, none, start, end
<1>6. CASE m.pool = "eoe"
  <2>1. Trail(fs, r, more, start, b)
    BY <1>1, <1>2, TrailCat
  <2> HIDE DEF more
  <2>2. AllEoe(more)
    <3>1. \A k \in 1 .. Len(has) : has[k].pool = "eoe"
      BY SeqLen DEF Flow, AllEoe
    <3>2. DOMAIN more = 1 .. Len(has) + 1
      BY <1>4, SeqLen
    <3>3. ASSUME NEW k \in 1 .. Len(has) + 1 PROVE more[k].pool = "eoe"
      <4>1. k \in 1 .. Len(has) \/ k = Len(has) + 1
        BY <1>5
      <4> QED  BY <1>4, <1>5, <1>6, <3>1, <4>1
    <3> QED  BY <3>2, <3>3 DEF AllEoe
  <2>3. Flow(fs, r, more, none, ahead, v, n)
    BY <1>2, <1>3, <2>1, <2>2 DEF Flow, start, end
  <2> QED  BY <1>6, <2>3 DEF more, one, none
<1>7. CASE m.pool # "eoe"
  <2>1. b = a
    BY <1>3, <1>7 DEF Leads
  <2>2. Flow(fs, r, has, none, ahead, v, n)
    BY <1>2, <1>3, <2>1 DEF Flow, start, end
  <2> QED  BY <1>7, <2>2 DEF none
<1> QED  BY <1>6, <1>7

\* The slave puts its next message into the read mailbox.
LEMMA FlowFills ==
    ASSUME NEW fs, NEW r, NEW has, NEW ahead, IsSeq(ahead), ahead # <<>>, NEW v, NEW n,
           Flow(fs, r, has, <<>>, ahead, v, n)
    PROVE  Flow(fs, r, has, <<Head(ahead)>>, Tail(ahead), v, n)
<1> DEFINE none == <<>>
           start == <<v + 1, 1>>
           end == <<n + 1, 1>>
<1>1. PICK a \in Cursors, b \in Cursors :
         Trail(fs, r, has, start, a) /\ Trail(fs, r, none, a, b) /\ Trail(fs, r, ahead, b, end)
  BY DEF Flow
<1>2. a = b
  BY <1>1, TrailNone
<1> HIDE DEF start, end, none
<1>3. PICK c \in Cursors : Leads(fs, r, Head(ahead), b, c) /\ Trail(fs, r, Tail(ahead), c, end)
  BY <1>1, TrailTail
<1>4. Trail(fs, r, <<Head(ahead)>>, b, c)
  BY <1>3, TrailOne
<1> QED  BY <1>1, <1>2, <1>3, <1>4 DEF Flow, start, end

\* The slave has something to say, of another service or the next frame.
LEMMA FlowJoins ==
    ASSUME NEW fs, NEW r, NEW has, NEW on, NEW ahead, IsSeq(ahead), NEW v, NEW n, NEW m,
           Flow(fs, r, has, on, ahead, v, n),
           NEW u, IsSeq(u), Trail(fs, r, u, <<n + 1, 1>>, <<m + 1, 1>>)
    PROVE  Flow(fs, r, has, on, ahead \o u, v, m)
<1> DEFINE start == <<v + 1, 1>>
           end == <<n + 1, 1>>
           last == <<m + 1, 1>>
<1>1. PICK a \in Cursors, b \in Cursors :
         Trail(fs, r, has, start, a) /\ Trail(fs, r, on, a, b) /\ Trail(fs, r, ahead, b, end)
  BY DEF Flow
<1>2. Trail(fs, r, u, end, last)
  OBVIOUS
<1> HIDE DEF start, end, last
<1>3. Trail(fs, r, ahead \o u, b, last)
  BY <1>1, <1>2, TrailCat
<1> QED  BY <1>1, <1>3 DEF Flow, start, last

\* Each frame has a start.
LEMMA CursorIs == \A n \in Nat : <<n + 1, 1>> \in Cursors
BY DEF Cursors

\* Messages of other services may be put behind.
LEMMA FlowOther ==
    ASSUME NEW fs, NEW r, NEW has, NEW on, NEW ahead, IsSeq(ahead), NEW v, NEW n \in Nat,
           Flow(fs, r, has, on, ahead, v, n),
           NEW u, IsSeq(u), \A i \in DOMAIN u : u[i].pool # "eoe"
    PROVE  Flow(fs, r, has, on, ahead \o u, v, n)
<1> DEFINE end == <<n + 1, 1>>
<1>1. end \in Cursors
  BY CursorIs
<1> HIDE DEF end
<1>2. Trail(fs, r, u, end, end)
  BY <1>1, TrailOther
<1> QED  BY <1>2, FlowJoins DEF end

\* So may the fragments of the next frame of the slave's network.
LEMMA FlowFrame ==
    ASSUME NEW fs, NEW r \in Nat \ {0}, NEW has, NEW on, NEW ahead, IsSeq(ahead), NEW v, NEW n \in Nat,
           Flow(fs, r, has, on, ahead, v, n), n + 1 \in DOMAIN fs, IsSeq(fs[n + 1]),
           NEW u, u = [k \in DOMAIN Fragments(fs[n + 1], r) |->
                         EoeMessage(k - 1, Fragments(fs[n + 1], r)[k], k < Len(Fragments(fs[n + 1], r)))]
    PROVE  IsSeq(u) /\ Flow(fs, r, has, on, ahead \o u, v, n + 1)
<1> DEFINE f == n + 1
<1>1. f \in Nat /\ f \in DOMAIN fs /\ IsSeq(fs[f])
  OBVIOUS
<1>2. u = [k \in DOMAIN Fragments(fs[f], r) |->
             EoeMessage(k - 1, Fragments(fs[f], r)[k], k < Len(Fragments(fs[f], r)))]
  OBVIOUS
<1> HIDE DEF f
<1>3. IsSeq(u) /\ Trail(fs, r, u, <<f, 1>>, <<f + 1, 1>>)
  BY <1>1, <1>2, TrailFrame
<1>4. Trail(fs, r, u, <<n + 1, 1>>, <<f + 1, 1>>)
  BY <1>3 DEF f
<1>5. Flow(fs, r, has, on, ahead \o u, v, f)
  BY <1>3, <1>4, FlowJoins
<1> QED  BY <1>3, <1>5 DEF f

\* The first frame that waits is put together.
LEMMA FlowEnds ==
    ASSUME NEW fs, NEW r \in Nat \ {0}, AllFrames(fs),
           NEW s, IsSeq(s), NEW on, NEW ahead, NEW v \in Nat, NEW n, Flow(fs, r, s, on, ahead, v, n),
           NEW e, FirstEnd(s, e), NEW t, RestOf(s, e, t)
    PROVE  /\ v + 1 \in DOMAIN fs /\ FlattenSeq([k \in 1 .. e |-> s[k].payload]) = fs[v + 1]
           /\ Flow(fs, r, t, on, ahead, v + 1, n)
<1>1. PICK a \in Cursors, b \in Cursors :
         /\ Trail(fs, r, s, <<v + 1, 1>>, a) /\ Trail(fs, r, on, a, b)
         /\ Trail(fs, r, ahead, b, <<n + 1, 1>>)
  BY DEF Flow
<1>2. AllEoe(s)
  BY DEF Flow
<1>3. /\ v + 1 \in DOMAIN fs
      /\ Fragments(fs[v + 1], r) = [k \in 1 .. e |-> s[k].payload]
      /\ Trail(fs, r, t, <<v + 2, 1>>, a)
  <2>1. Trail(fs, r, s, <<v + 1, 1>>, a)
    BY <1>1
  <2> QED  BY <1>2, <2>1, TrailEnds
<1>4. FlattenSeq(Fragments(fs[v + 1], r)) = fs[v + 1]
  BY <1>3, FrameOfParts DEF AllFrames
<1>5. AllEoe(t)
  <2>1. Len(s) \in Nat /\ DOMAIN s = 1 .. Len(s) /\ DOMAIN t = 1 .. Len(t)
    BY SeqLen DEF RestOf
  <2>2. \A k \in 1 .. Len(t) : e + k \in DOMAIN s
    BY <2>1 DEF FirstEnd, RestOf
  <2>3. ASSUME NEW k \in 1 .. Len(t) PROVE t[k].pool = "eoe"
    <3>1. e + k \in DOMAIN s /\ t[k] = s[e + k]
      BY <2>2 DEF RestOf
    <3> QED  BY <1>2, <3>1 DEF AllEoe
  <2> QED  BY <2>1, <2>3 DEF AllEoe
<1>6. (v + 1) + 1 = v + 2
  OBVIOUS
<1>7. Trail(fs, r, t, <<(v + 1) + 1, 1>>, a)
  BY <1>3, <1>6
<1> QED  BY <1>1, <1>3, <1>4, <1>5, <1>7 DEF Flow

\* The device has the first frames of the network, and no buffer for frames is used.
Delivered(fs) == /\ eth_free = FreeFrames /\ IsSeq(veth) /\ Len(veth) <= Len(fs)
                 /\ \A i \in 1 .. Len(veth) : veth[i] = fs[i]

Flowing(fs, r) == Flow(fs, r, EoeHas, Full, answers, Len(veth), node.sent)

NetOk(fs, r) == veth # NULL /\ losses = 0 => Delivered(fs) /\ Flowing(fs, r)

\* The inductive invariant.
NetInv(fs, r) == FoeInv /\ node.frames = fs /\ room.read = r /\ NetOk(fs, r)

\* What FoE's invariant says of the state EoE receives in.
LEMMA NetIs ==
    ASSUME FoeInv
    PROVE  /\ RecvInv /\ InPort /\ IsSeq(answers) /\ DOMAIN data = Buffers /\ losses \in Nat
           /\ recv_pool["eoe"] \in Seq(Buffers) /\ recv_pool \in [Pools -> Seq(Buffers)]
           /\ IsSeq(EoeHas) /\ Len(EoeHas) = Len(recv_pool["eoe"])
           /\ \A k \in 1 .. Len(recv_pool["eoe"]) : EoeHas[k] = Fragment(k)
           /\ node.sent \in Nat /\ IsSeq(node.frames) /\ AllFrames(node.frames)
           /\ room.read \in Nat \ {0}
<1>1. PortOk /\ OthersOk
  BY DEF FoeInv
<1>2. RecvInv /\ InPort
  BY <1>1 DEF PortOk
<1>3. recv_pool["eoe"] \in Seq(Buffers) /\ recv_pool \in [Pools -> Seq(Buffers)]
  BY <1>2 DEF RecvInv, Pools
<1>4. /\ IsSeq(EoeHas) /\ Len(EoeHas) = Len(recv_pool["eoe"])
      /\ \A k \in 1 .. Len(recv_pool["eoe"]) : EoeHas[k] = Fragment(k)
  BY <1>3, HoldsIs DEF EoeHas, Fragment
<1>5. IsSeq(answers) /\ DOMAIN data = Buffers /\ losses \in Nat
  BY <1>2 DEF InPort
<1>6. node.sent \in Nat /\ IsSeq(node.frames) /\ AllFrames(node.frames) /\ room.read \in Nat \ {0}
  BY <1>1 DEF OthersOk, AllFrames
<1> QED  BY <1>2, <1>3, <1>4, <1>5, <1>6

\* What another thread does.
LEMMA FlowStays ==
    ASSUME NEW fs, NEW r, NetOk(fs, r), EoeHas' = EoeHas, Full' = Full, node'.sent = node.sent,
           UNCHANGED <<answers, losses, veth, eth_free>>
    PROVE  NetOk(fs, r)'
<1> SUFFICES ASSUME veth' # NULL, losses' = 0 PROVE Delivered(fs)' /\ Flowing(fs, r)'
  BY DEF NetOk
<1>1. Delivered(fs) /\ Flowing(fs, r)
  BY DEF NetOk
<1>2. Delivered(fs)'
  BY <1>1 DEF Delivered
<1>3. Flow(fs, r, EoeHas', Full', answers', Len(veth'), node'.sent)
  BY <1>1 DEF Flowing
<1>4. Flowing(fs, r)'
  BY <1>3 DEF Flowing
<1> QED  BY <1>2, <1>4

\* What moves the messages that come, and leaves the device.
LEMMA FlowMoves ==
    ASSUME NEW fs, NEW r, NetOk(fs, r), UNCHANGED <<losses, veth, eth_free>>,
           Flowing(fs, r) => Flow(fs, r, EoeHas', Full', answers', Len(veth), node'.sent)
    PROVE  NetOk(fs, r)'
<1> SUFFICES ASSUME veth' # NULL, losses' = 0 PROVE Delivered(fs)' /\ Flowing(fs, r)'
  BY DEF NetOk
<1>1. Delivered(fs) /\ Flowing(fs, r)
  BY DEF NetOk
<1>2. Delivered(fs)'
  BY <1>1 DEF Delivered
<1>3. Flow(fs, r, EoeHas', Full', answers', Len(veth'), node'.sent)
  BY <1>1
<1>4. Flowing(fs, r)'
  BY <1>3 DEF Flowing
<1> QED  BY <1>2, <1>4

\* What EoE has received stays while its pool and the data do.
LEMMA HasSame ==
    ASSUME recv_pool'["eoe"] = recv_pool["eoe"], data' = data
    PROVE  EoeHas' = EoeHas
BY DEF EoeHas, Holds

\* So does the read mailbox.
LEMMA FullSame ==
    ASSUME full' = full
    PROVE  Full' = Full
BY DEF Full

\* Threads.
LEMMA ServicesStay ==
    ASSUME FoeInv, NEW fs, NEW r, NetOk(fs, r), FoeThread \/ SoeThread \/ EoeThread,
           ~SoeReturnsAgain
    PROVE  NetOk(fs, r)'
<1>1. recv_pool \in [Pools -> Seq(Buffers)]
  BY NetIs
<1>2. ASSUME NEW p \in {"foe", "soe", "ip"}, TakeAndReturn(p)
      PROVE  recv_pool'["eoe"] = recv_pool["eoe"] /\ UNCHANGED <<data, full, answers, losses>>
  BY <1>1, <1>2 DEF TakeAndReturn, slave, Pools
<1>3. ASSUME UNCHANGED <<recvs, slave, losses>>
      PROVE  recv_pool'["eoe"] = recv_pool["eoe"] /\ UNCHANGED <<data, full, answers, losses>>
  BY <1>3 DEF recvs, slave
<1>4. ASSUME FoeThread
      PROVE  /\ recv_pool'["eoe"] = recv_pool["eoe"] /\ UNCHANGED <<data, full, answers, losses>>
             /\ UNCHANGED <<node, veth, eth_free>>
  <2>1. FoeNext /\ UNCHANGED <<node, veth, eth_free>>
    BY <1>4 DEF FoeThread, Lives, evars
  <2>2. UNCHANGED <<recvs, slave, losses>> \/ TakeAndReturn("foe")
    BY <2>1 DEF FoeNext, FoeCall, FoeReadData, FoeReadOther, FoeWriteAnswer, FoeWritePacket,
                FoeTimeout, Expires
  <2> QED  BY <1>2, <1>3, <2>1, <2>2
<1>5. ASSUME SoeThread
      PROVE  /\ recv_pool'["eoe"] = recv_pool["eoe"] /\ UNCHANGED <<data, full, answers, losses>>
             /\ UNCHANGED <<node, veth, eth_free>>
  <2>1. SoeNext /\ UNCHANGED <<node, veth, eth_free>>
    BY <1>5 DEF SoeThread, Lives, evars
  <2>2. UNCHANGED <<recvs, slave, losses>> \/ TakeAndReturn("soe")
    BY <2>1 DEF SoeNext, SoeCall, SoeReadFragment, SoeReadMore, SoeReadSpins, SoeWriteFragment,
                SoeWriteAnswer, SoeTimeout, Expires, port
  <2> QED  BY <1>2, <1>3, <2>1, <2>2
<1>6. ASSUME EoeThread
      PROVE  /\ recv_pool'["eoe"] = recv_pool["eoe"] /\ UNCHANGED <<data, full, answers, losses>>
             /\ UNCHANGED <<node, veth, eth_free>>
  <2>1. EoeNext /\ UNCHANGED <<node, veth, eth_free>>
    BY <1>6 DEF EoeThread, EoeNext, EoeCall, EoeFragment, EoeNoBuffer, EoeSynced, EoeIpAnswer,
                EoeTimeout, EoeOnly
  <2>2. UNCHANGED <<recvs, slave, losses>> \/ TakeAndReturn("ip")
    BY <2>1 DEF EoeNext, EoeCall, EoeFragment, EoeNoBuffer, EoeSynced, EoeIpAnswer, EoeTimeout, Expires, port
  <2> QED  BY <1>2, <1>3, <2>1, <2>2
<1>7. /\ recv_pool'["eoe"] = recv_pool["eoe"] /\ UNCHANGED <<data, full, answers, losses>>
      /\ UNCHANGED <<node, veth, eth_free>>
  BY <1>4, <1>5, <1>6
<1> QED  BY <1>7, HasSame, FullSame, FlowStays

\* The handler takes a buffer, or nothing is in the mailbox; what gets lost ends the promise.
LEMMA HandlerStays ==
    ASSUME FoeInv, NEW fs, NEW r, NetOk(fs, r), UNCHANGED <<node, veth, eth_free>>,
           HandlerPop \/ HandlerBuffer \/ HandlerEmpty \/ HandlerRequeue \/ HandlerSend
    PROVE  NetOk(fs, r)'
<1>1. /\ RecvInv /\ DOMAIN data = Buffers /\ losses \in Nat /\ recv_pool["eoe"] \in Seq(Buffers)
  BY NetIs
<1>2. ASSUME UNCHANGED <<recv_pool, data, full, answers, losses>> PROVE NetOk(fs, r)'
  BY <1>2, HasSame, FullSame, FlowStays
<1>3. CASE HandlerPop \/ HandlerRequeue \/ HandlerSend
  BY <1>2, <1>3 DEF HandlerPop, HandlerRequeue, HandlerSend, slave
<1>4. CASE HandlerBuffer
  <2> DEFINE pool == recv_pool["eoe"]
             b == Head(recv_free)
  <2>1. /\ recv_free # <<>> /\ data' = [data EXCEPT ![b] = Zeroed]
        /\ UNCHANGED <<recv_pool, full, answers, losses>>
    BY <1>4 DEF HandlerBuffer, slave
  <2>2. b \in Buffers /\ Lacks(pool, b)
    BY <1>1, <2>1, PoolApart DEF Pools, Lacks
  <2>3. Holds(pool, data') = Holds(pool, data)
    <3> DEFINE m == Zeroed
    <3>1. pool \in Seq(Buffers) /\ Stored(data, b, m, data')
      BY <1>1, <2>1 DEF Stored
    <3> HIDE DEF pool, b, m
    <3>2. /\ Holds(pool, data') = Holds(pool, data)
          /\ Holds(Append(pool, b), data') = Holds(pool, data) \o <<m>>
      BY <1>1, <2>2, <3>1, HoldsMore
    <3> QED  BY <3>2
  <2>4. EoeHas' = EoeHas
    BY <2>1, <2>3 DEF EoeHas
  <2> QED  BY <2>1, <2>4, FullSame, FlowStays
<1>5. CASE HandlerEmpty
  <2>1. CASE full = NULL
    <3>1. UNCHANGED <<recv_pool, data, full, answers, losses>>
      BY <1>5, <2>1 DEF HandlerEmpty
    <3> QED  BY <1>2, <3>1
  <2>2. CASE full # NULL
    <3>1. losses' = losses + 1
      BY <1>5, <2>2 DEF HandlerEmpty
    <3>2. losses' # 0
      BY <1>1, <3>1
    <3> QED  BY <3>2 DEF NetOk
  <2> QED  BY <2>1, <2>2
<1> QED  BY <1>3, <1>4, <1>5

\* A message that is read is the next of its service.
LEMMA NetReads ==
    ASSUME FoeInv, NEW fs, NEW r, NetOk(fs, r), UNCHANGED <<node, veth, eth_free>>, HandlerRead
    PROVE  NetOk(fs, r)'
<1>1. /\ RecvInv /\ DOMAIN data = Buffers /\ recv_pool["eoe"] \in Seq(Buffers)
      /\ recv_pool \in [Pools -> Seq(Buffers)] /\ IsSeq(EoeHas)
  BY NetIs
<1> DEFINE pool == recv_pool["eoe"]
           b == handler.with
           m == full
<1>2. /\ handler.does = "receive" /\ full # NULL /\ data' = [data EXCEPT ![b] = m] /\ full' = NULL
      /\ UNCHANGED <<answers, losses>>
  BY DEF HandlerRead
<1>3. b \in Buffers /\ Lacks(pool, b)
  BY <1>1, <1>2, PoolApart DEF Pools, Lacks
<1>4. /\ Holds(pool, data') = Holds(pool, data)
      /\ Holds(Append(pool, b), data') = Holds(pool, data) \o <<m>>
  <2>1. pool \in Seq(Buffers) /\ Stored(data, b, m, data')
    BY <1>1, <1>2 DEF Stored
  <2> HIDE DEF pool, b, m
  <2> QED  BY <1>1, <1>3, <2>1, HoldsMore
<1>5. Full = <<m>> /\ Full' = <<>>
  BY <1>1, <1>2, InIs, InIsNext
<1>6. /\ m.pool = "eoe" => EoeHas' = EoeHas \o <<m>>
      /\ m.pool # "eoe" => EoeHas' = EoeHas
  <2>1. CASE m.pool = "eoe"
    <3>1. recv_pool'["eoe"] = Append(pool, b)
      BY <1>1, <2>1 DEF HandlerRead, Pools
    <3>2. EoeHas' = EoeHas \o <<m>>
      BY <1>2, <1>4, <3>1 DEF EoeHas
    <3> QED  BY <2>1, <3>2
  <2>2. CASE m.pool # "eoe"
    <3>1. recv_pool'["eoe"] = pool
      BY <1>1, <2>2 DEF HandlerRead, Pools
    <3>2. EoeHas' = EoeHas
      BY <1>2, <1>4, <3>1 DEF EoeHas
    <3> QED  BY <2>2, <3>2
  <2> QED  BY <2>1, <2>2
<1>7. ASSUME Flowing(fs, r) PROVE Flow(fs, r, EoeHas', Full', answers', Len(veth), node'.sent)
  <2>1. Flow(fs, r, EoeHas, <<m>>, answers, Len(veth), node.sent)
    BY <1>5, <1>7 DEF Flowing
  <2> HIDE DEF m
  <2>2. /\ m.pool = "eoe" => Flow(fs, r, EoeHas \o <<m>>, <<>>, answers, Len(veth), node.sent)
        /\ m.pool # "eoe" => Flow(fs, r, EoeHas, <<>>, answers, Len(veth), node.sent)
    BY <1>1, <2>1, FlowReads
  <2>3. node' = node /\ answers' = answers
    BY <1>2
  <2>4. CASE m.pool = "eoe"
    BY <1>5, <1>6, <2>2, <2>3, <2>4
  <2>5. CASE m.pool # "eoe"
    BY <1>5, <1>6, <2>2, <2>3, <2>5
  <2> QED  BY <2>4, <2>5
<1> QED  BY <1>2, <1>7, FlowMoves

\* What the slave, its drive and its network say.
LEMMA NetSays ==
    ASSUME FoeInv, NEW fs, NEW r, NetOk(fs, r), UNCHANGED <<veth, eth_free>>, node'.sent = node.sent,
           NEW u, IsSeq(u), \A i \in DOMAIN u : u[i].pool # "eoe",
           SlaveSpeaks(u) \/ SlaveTakes(u)
    PROVE  NetOk(fs, r)'
<1>1. node.sent \in Nat /\ IsSeq(answers)
  BY NetIs
<1>2. UNCHANGED <<recvs, full, losses>> /\ answers' = answers \o u
  <2>1. <<>> \o u = u
    BY CatEmpty
  <2> QED  BY <2>1 DEF SlaveSpeaks, SlaveTakes
<1>3. EoeHas' = EoeHas /\ Full' = Full
  BY <1>2, HasSame, FullSame DEF recvs
<1>4. ASSUME Flowing(fs, r) PROVE Flow(fs, r, EoeHas', Full', answers', Len(veth), node'.sent)
  <2>1. Flow(fs, r, EoeHas, Full, answers, Len(veth), node.sent)
    BY <1>4 DEF Flowing
  <2>2. Flow(fs, r, EoeHas, Full, answers \o u, Len(veth), node.sent)
    BY <1>1, <2>1, FlowOther
  <2> QED  BY <1>2, <1>3, <2>2
<1> QED  BY <1>2, <1>4, FlowMoves

\* The slave puts an answer, which is not of EoE, behind the others.
LEMMA NetAnswers ==
    ASSUME FoeInv, NEW fs, NEW r, NetOk(fs, r), UNCHANGED <<veth, eth_free, node>>, SlaveAnswers
    PROVE  NetOk(fs, r)'
<1>1. InPort /\ IsSeq(answers) /\ RecvInv
  BY NetIs
<1>2. /\ answers # <<>> /\ full = NULL /\ full' = Head(answers) /\ answers' = Tail(answers)
      /\ UNCHANGED <<recvs, losses>>
  BY DEF SlaveAnswers
<1>3. Head(answers) # NULL
  <2>1. 1 \in DOMAIN answers /\ Head(answers) = answers[1]
    BY <1>1, <1>2, HeadTailIs
  <2> QED  BY <1>1, <2>1 DEF InPort
<1>4. EoeHas' = EoeHas /\ Full = <<>> /\ Full' = <<Head(answers)>>
  BY <1>1, <1>2, <1>3, HasSame, InIs, InIsNext DEF recvs
<1>5. ASSUME Flowing(fs, r) PROVE Flow(fs, r, EoeHas', Full', answers', Len(veth), node'.sent)
  <2>1. Flow(fs, r, EoeHas, <<>>, answers, Len(veth), node.sent)
    BY <1>4, <1>5 DEF Flowing
  <2>2. Flow(fs, r, EoeHas, <<Head(answers)>>, Tail(answers), Len(veth), node.sent)
    BY <1>1, <1>2, <2>1, FlowFills
  <2> QED  BY <1>2, <1>4, <2>2
<1> QED  BY <1>2, <1>5, FlowMoves

\* The slave's network sends a frame.
LEMMA NetSends ==
    ASSUME FoeInv, NEW fs, NEW r, node.frames = fs, room.read = r, NetOk(fs, r), NodeSends
    PROVE  NetOk(fs, r)' /\ node'.frames = fs
<1>1. /\ node.sent \in Nat /\ IsSeq(answers) /\ IsSeq(fs) /\ AllFrames(fs) /\ r \in Nat \ {0}
  BY NetIs
<1> DEFINE n == node.sent
           u == [k \in DOMAIN Fragments(fs[n + 1], r) |->
                   EoeMessage(k - 1, Fragments(fs[n + 1], r)[k], k < Len(Fragments(fs[n + 1], r)))]
<1>2. /\ n < Len(fs) /\ SlaveSpeaks(u) /\ UNCHANGED <<veth, eth_free>>
      /\ node' = [node EXCEPT !.sent = @ + 1]
  BY DEF NodeSends
<1>3. n + 1 \in DOMAIN fs /\ IsSeq(fs[n + 1])
  BY <1>1, <1>2, SeqLen DEF AllFrames
<1>4. node'.sent = n + 1 /\ node'.frames = fs
  <2>1. "sent" \in DOMAIN node /\ "frames" \in DOMAIN node
    BY DEF FoeInv, OthersOk
  <2> QED  BY <1>2, <2>1
<1>5. UNCHANGED <<recvs, full, losses>> /\ answers' = answers \o u
  BY <1>2 DEF SlaveSpeaks
<1>6. EoeHas' = EoeHas /\ Full' = Full
  BY <1>5, HasSame, FullSame DEF recvs
<1>7. ASSUME Flowing(fs, r) PROVE Flow(fs, r, EoeHas', Full', answers', Len(veth), node'.sent)
  <2>1. Flow(fs, r, EoeHas, Full, answers, Len(veth), n)
    BY <1>7 DEF Flowing
  <2>2. u = [k \in DOMAIN Fragments(fs[n + 1], r) |->
               EoeMessage(k - 1, Fragments(fs[n + 1], r)[k], k < Len(Fragments(fs[n + 1], r)))]
    OBVIOUS
  <2>3. n \in Nat
    BY <1>1
  <2> HIDE DEF n, u
  <2>4. Flow(fs, r, EoeHas, Full, answers \o u, Len(veth), n + 1)
    BY <1>1, <1>3, <2>1, <2>2, <2>3, FlowFrame
  <2> QED  BY <1>4, <1>5, <1>6, <2>4
<1>8. NetOk(fs, r)'
  BY <1>2, <1>5, <1>7, FlowMoves
<1> QED  BY <1>4, <1>8

\* The first fragment that waits starts a frame.
LEMMA FlowStarts ==
    ASSUME NEW fs, NEW r, NEW has, IsSeq(has), has # <<>>, NEW on, NEW ahead, NEW v \in Nat, NEW n,
           Flow(fs, r, has, on, ahead, v, n)
    PROVE  has[1].nr = 0
<1>1. PICK a \in Cursors : Trail(fs, r, has, <<v + 1, 1>>, a)
  BY DEF Flow
<1>2. 1 \in DOMAIN has
  BY HeadTailIs
<1>3. has[1].pool = "eoe"
  BY <1>2 DEF Flow, AllEoe
<1> QED  BY <1>1, <1>3, TrailStarts

\* A frame that is put together is the next one, and goes to the device.
LEMMA NetFrame ==
    ASSUME FoeInv, NEW fs, NEW r, node.frames = fs, room.read = r, Delivered(fs), Flowing(fs, r),
           HandlerFrames, EoeFrame, veth # NULL
    PROVE  Delivered(fs)' /\ Flowing(fs, r)'
<1>1. /\ recv_pool["eoe"] \in Seq(Buffers) /\ recv_pool \in [Pools -> Seq(Buffers)]
      /\ IsSeq(EoeHas) /\ Len(EoeHas) = Len(recv_pool["eoe"])
      /\ \A k \in 1 .. Len(recv_pool["eoe"]) : EoeHas[k] = Fragment(k)
      /\ IsSeq(fs) /\ AllFrames(fs) /\ r \in Nat \ {0}
  BY NetIs
<1> DEFINE pool == recv_pool["eoe"]
           s == EoeHas
           v == Len(veth)
           whole(e) == FlattenSeq([k \in 1 .. e |-> Fragment(k).payload])
<1>2. UNCHANGED <<data, full, answers, node, eth_free>>
  BY DEF HandlerFrames, EoeFrame, slave
<1>3. PICK e \in DOMAIN pool : EndsFrame(e) /\ EoeReleases(e) /\ veth' = Append(veth, whole(e))
  BY DEF EoeFrame
<1>4. IsSeq(veth) /\ v \in Nat /\ v <= Len(fs) /\ \A i \in 1 .. v : veth[i] = fs[i]
  BY SeqLen DEF Delivered
<1>5. Len(pool) \in Nat /\ e \in 1 .. Len(pool) /\ IsSeq(pool) /\ e \in Nat
  BY <1>1, <1>3 DEF IsSeq
<1> DEFINE rest == SubSeq(pool, e + 1, Len(pool))
           t == Holds(rest, data)
<1>6. recv_pool'["eoe"] = rest
  BY <1>1, <1>3 DEF EoeReleases, Pools
<1>7. EoeHas' = t
  BY <1>2, <1>6 DEF EoeHas
<1>8. FirstEnd(s, e)
  <2>1. \A j \in 1 .. e : s[j] = Fragment(j)
    BY <1>1, <1>5
  <2>2. e \in 1 .. e /\ \A j \in 1 .. e - 1 : j \in 1 .. e
    BY <1>5
  <2>3. ~Fragment(e).more /\ \A j \in 1 .. e - 1 : Fragment(j).more
    BY <1>3, Zenon DEF EndsFrame
  <2>4. s[e] = Fragment(e) /\ \A j \in 1 .. e - 1 : s[j] = Fragment(j)
    BY <2>1, <2>2
  <2>5. ~s[e].more /\ \A j \in 1 .. e - 1 : s[j].more
    <3> HIDE DEF s
    <3> QED  BY <2>3, <2>4, Zenon
  <2>6. e \in 1 .. Len(s)
    BY <1>1, <1>5
  <2> QED  BY <2>5, <2>6, Zenon DEF FirstEnd
<1>9. RestOf(s, e, t)
  <2>1. /\ IsSeq(rest) /\ Len(rest) = Len(pool) - e
        /\ \A i \in 1 .. Len(pool) - e : rest[i] = pool[e + i]
    <3> HIDE DEF pool
    <3>1. e <= Len(pool)
      BY <1>5
    <3>2. PICK n \in Nat : n = Len(pool) /\ e <= n /\ n <= Len(pool)
      BY <1>5
    <3>3. IsSeq(pool) /\ e \in Nat
      BY <1>5
    <3>4. /\ IsSeq(SubSeq(pool, e + 1, n)) /\ Len(SubSeq(pool, e + 1, n)) = n - e
          /\ \A i \in 1 .. n - e : SubSeq(pool, e + 1, n)[i] = pool[e + i]
      BY <3>2, <3>3, SliceIs
    <3> QED  BY <3>2, <3>4
  <2>2. rest \in Seq(Buffers)
    BY <1>1, <1>5
  <2> HIDE DEF rest
  <2>3. /\ IsSeq(t) /\ Len(t) = Len(rest) /\ \A k \in 1 .. Len(rest) : t[k] = data[rest[k]]
    BY <2>2, HoldsIs
  <2>4. ASSUME NEW i \in 1 .. Len(t) PROVE t[i] = s[e + i]
    <3>1. i \in 1 .. Len(pool) - e /\ e + i \in 1 .. Len(pool)
      BY <1>5, <2>1, <2>3
    <3>2. t[i] = data[pool[e + i]]
      BY <2>1, <2>3, <3>1
    <3>3. s[e + i] = Fragment(e + i)
      BY <1>1, <3>1
    <3> QED  BY <3>2, <3>3 DEF Fragment
  <2>5. Len(t) = Len(s) - e
    BY <1>1, <2>1, <2>3
  <2> HIDE DEF t, s
  <2> QED  BY <2>3, <2>4, <2>5 DEF RestOf
<1>10. \A k \in 1 .. e : Fragment(k) = s[k]
  BY <1>1, <1>5
<1>11. whole(e) = FlattenSeq([k \in 1 .. e |-> s[k].payload])
  <2>1. [k \in 1 .. e |-> Fragment(k).payload] = [k \in 1 .. e |-> s[k].payload]
    <3> HIDE DEF s
    <3> QED  BY <1>10
  <2> QED  BY <2>1
<1>12. Flow(fs, r, s, Full, answers, v, node.sent)
  BY DEF Flowing
<1> HIDE DEF s, t, v, whole, rest, pool
<1>13. /\ v + 1 \in DOMAIN fs /\ FlattenSeq([k \in 1 .. e |-> s[k].payload]) = fs[v + 1]
       /\ Flow(fs, r, t, Full, answers, v + 1, node.sent)
  <2>1. IsSeq(s)
    BY <1>1 DEF s
  <2> QED  BY <1>1, <1>4, <1>8, <1>9, <1>12, <2>1, FlowEnds
<1> DEFINE w == veth \o <<fs[v + 1]>>
<1>14. veth' = w
  BY <1>3, <1>4, <1>11, <1>13, AppendIs
<1>15. IsSeq(w) /\ Len(w) = v + 1 /\ \A i \in 1 .. v + 1 : w[i] = fs[i]
  <2> DEFINE one == <<fs[v + 1]>>
  <2>1. IsSeq(one) /\ Len(one) = 1 /\ one[1] = fs[v + 1]
    BY OneIs
  <2> HIDE DEF one
  <2>2. /\ IsSeq(veth \o one) /\ Len(veth \o one) = v + 1
        /\ \A i \in 1 .. v : (veth \o one)[i] = veth[i]
        /\ \A i \in v + 1 .. v + 1 : (veth \o one)[i] = one[i - v]
    <3>1. /\ IsSeq(veth \o one) /\ Len(veth \o one) = Len(veth) + Len(one)
          /\ \A i \in 1 .. Len(veth) : (veth \o one)[i] = veth[i]
          /\ \A i \in Len(veth) + 1 .. Len(veth) + Len(one) : (veth \o one)[i] = one[i - Len(veth)]
      <4>1. IsSeq(veth) /\ IsSeq(one)
        BY <1>4, <2>1
      <4> QED  BY <4>1, CatIs, ZenonT(60)
    <3> QED  BY <2>1, <3>1 DEF v
  <2>3. ASSUME NEW i \in 1 .. v + 1 PROVE (veth \o one)[i] = fs[i]
    <3>1. CASE i \in 1 .. v
      BY <1>4, <2>2, <3>1
    <3>2. CASE i \notin 1 .. v
      <4>1. i = v + 1 /\ i \in v + 1 .. v + 1 /\ i - v = 1
        BY <1>4, <3>2
      <4> QED  BY <2>1, <2>2, <4>1
    <3> QED  BY <3>1, <3>2
  <2> QED  BY <2>2, <2>3 DEF one
<1> HIDE DEF w
<1>16. v + 1 <= Len(fs)
  BY <1>1, <1>13, SeqLen
<1>17. Delivered(fs)'
  <2>1. eth_free' = FreeFrames
    BY <1>2 DEF Delivered
  <2> QED  BY <1>14, <1>15, <1>16, <2>1 DEF Delivered
<1>18. Flow(fs, r, EoeHas', Full', answers', Len(veth'), node'.sent)
  <2>1. Full' = Full /\ answers' = answers /\ node' = node
    BY <1>2, FullSame
  <2> QED  BY <1>7, <1>13, <1>14, <1>15, <2>1 DEF t
<1>19. Flowing(fs, r)'
  BY <1>18 DEF Flowing
<1> QED  BY <1>17, <1>19

\* The handler has EoE handle what it received.
LEMMA NetFrames ==
    ASSUME FreeFrames \in Nat \ {0}, FoeInv, NEW fs, NEW r, node.frames = fs, room.read = r,
           NetOk(fs, r), HandlerFrames
    PROVE  NetOk(fs, r)'
<1>1. UNCHANGED <<data, full, answers, losses, node>>
  BY DEF HandlerFrames, slave
<1>2. CASE EoeNoFrame
  <2>1. UNCHANGED <<recv_pool, eth_free, veth>>
    BY <1>2 DEF EoeNoFrame
  <2> QED  BY <1>1, <2>1, HasSame, FullSame, FlowStays
<1>3. CASE ~EoeNoFrame
  <2> SUFFICES ASSUME veth' # NULL, losses' = 0 PROVE Delivered(fs)' /\ Flowing(fs, r)'
    BY DEF NetOk
  <2>1. EoeNoMemory \/ EoeNoStart \/ EoeFrame
    BY <1>3 DEF HandlerFrames
  <2>2. veth # NULL
    BY <2>1 DEF EoeNoMemory, EoeNoStart, EoeFrame
  <2>3. Delivered(fs) /\ Flowing(fs, r)
    BY <1>1, <2>2 DEF NetOk
  <2>4. CASE EoeNoMemory
    BY <2>3, <2>4 DEF EoeNoMemory, Delivered
  <2>5. CASE EoeNoStart
    <3>1. Fragment(1).nr # 0 /\ recv_pool["eoe"] # <<>>
      BY <2>5 DEF EoeNoStart, Arrived
    <3>2. /\ recv_pool["eoe"] \in Seq(Buffers) /\ IsSeq(EoeHas) /\ Len(EoeHas) = Len(recv_pool["eoe"])
          /\ \A k \in 1 .. Len(recv_pool["eoe"]) : EoeHas[k] = Fragment(k)
      BY NetIs
    <3>3. 1 \in 1 .. Len(recv_pool["eoe"]) /\ Len(recv_pool["eoe"]) # 0
      BY <3>1, <3>2
    <3>4. EoeHas[1] = Fragment(1) /\ EoeHas # <<>>
      BY <3>2, <3>3, NoneIs
    <3>5. Len(veth) \in Nat /\ Flow(fs, r, EoeHas, Full, answers, Len(veth), node.sent)
      BY <2>3, SeqLen DEF Delivered, Flowing
    <3>6. EoeHas[1].nr = 0
      BY <3>2, <3>4, <3>5, FlowStarts
    <3> QED  BY <3>1, <3>4, <3>6
  <2>6. CASE EoeFrame
    BY <2>2, <2>3, <2>6, NetFrame
  <2> QED  BY <2>1, <2>4, <2>5, <2>6
<1> QED  BY <1>2, <1>3

\* Every step keeps the invariant, ...
LEMMA NetKeeps ==
    ASSUME NullIsNone, FreeFrames \in Nat \ {0}, NEW fs, NEW r
    PROVE  NetInv(fs, r) /\ [Next]_vars /\ ~SoeReturnsAgain => NetInv(fs, r)'
<1> SUFFICES ASSUME NetInv(fs, r), [Next]_vars, ~SoeReturnsAgain PROVE NetInv(fs, r)'
  OBVIOUS
<1>1. FoeInv /\ node.frames = fs /\ room.read = r /\ NetOk(fs, r)
  BY DEF NetInv
<1>2. FoeInv'
  BY <1>1, FoeInvKeeps
<1>3. ASSUME UNCHANGED <<room, veth, eth_free, node>>, NetOk(fs, r)' PROVE NetInv(fs, r)'
  BY <1>1, <1>2, <1>3 DEF NetInv
<1>4. PortOk /\ OthersOk /\ NullIsNone
  BY <1>1 DEF FoeInv
<1>5. CASE FoeThread \/ SoeThread \/ EoeThread
  <2>1. UNCHANGED <<room, node>>
    <3>1. CASE FoeThread
      BY <3>1 DEF FoeThread, Lives, evars, FoeNext, FoeOnly, FoeCall, FoeReadData, FoeReadOther,
                  FoeWriteAnswer, FoeWritePacket, FoeTimeout
    <3>2. CASE SoeThread
      BY <3>2 DEF SoeThread, Lives, fvars, evars
    <3>3. CASE EoeThread
      BY <3>3 DEF EoeThread, Lives, fvars, EoeNext, EoeCall, EoeFragment, EoeNoBuffer, EoeSynced,
                  EoeIpAnswer, EoeTimeout, EoeOnly
    <3> QED  BY <1>5, <3>1, <3>2, <3>3
  <2>2. NetOk(fs, r)'
    BY <1>1, <1>5, ServicesStay
  <2> QED  BY <1>1, <1>2, <2>1, <2>2 DEF NetInv
<1>6. CASE Pops \/ Takes \/ Ends \/ Sends
  <2>1. /\ HandlerPop \/ HandlerBuffer \/ HandlerEmpty \/ HandlerRead \/ HandlerRequeue \/ HandlerSend
        /\ UNCHANGED <<room, veth, eth_free, node>>
    BY <1>6 DEF Pops, Takes, Ends, Sends, Handler, Lives, HandlerSends, evars, fvars
  <2>2. NetOk(fs, r)'
    BY <1>1, <2>1, HandlerStays, NetReads
  <2> QED  BY <1>3, <2>1, <2>2
<1>7. CASE Frames
  <2>1. HandlerFrames /\ UNCHANGED <<room, node>>
    BY <1>7 DEF Frames, Lives, fvars, HandlerFrames
  <2>2. NetOk(fs, r)'
    BY <1>1, <2>1, NetFrames
  <2> QED  BY <1>1, <1>2, <2>1, <2>2 DEF NetInv
<1>8. CASE SlaveFoe /\ Lives(<<sevars, evars>>)
  <2>1. PICK s : ServesWith(s)
    BY <1>8, SlaveFoeIs
  <2>2. IsSeq(s.replies) /\ \A i \in DOMAIN s.replies : s.replies[i].pool = "foe"
    BY <1>4, <2>1, ServePort
  <2>3. SlaveTakes(s.replies) /\ UNCHANGED <<room, veth, eth_free, node>>
    BY <2>1 DEF ServesWith, evars
  <2>4. \A i \in DOMAIN s.replies : s.replies[i].pool # "eoe"
    BY <2>2
  <2>5. NetOk(fs, r)'
    BY <1>1, <2>2, <2>3, <2>4, NetSays
  <2> QED  BY <1>3, <2>3, <2>5
<1>9. CASE \/ SlaveSoe /\ Lives(<<fvars, evars>>)
           \/ SlaveEoe /\ Lives(<<fvars, sevars>>)
           \/ DriveSpeaks /\ Lives(<<fvars, evars>>)
  <2>1. \E u : Elsewhere(u) /\ (SlaveTakes(u) \/ SlaveSpeaks(u))
    BY <1>4, <1>9, SlaveReplies, DriveSays, Zenon
  <2>2. PICK u : Elsewhere(u) /\ (SlaveTakes(u) \/ SlaveSpeaks(u))
    BY <2>1
  <2>3. IsSeq(u) /\ \A i \in DOMAIN u : u[i].pool # "eoe"
    BY <2>2 DEF Elsewhere
  <2>4. UNCHANGED <<room, veth, eth_free>>
    BY <1>9 DEF Lives, fvars, evars, SlaveEoe
  <2>5. node'.sent = node.sent /\ node'.frames = node.frames
    <3>1. {"sent", "frames"} \subseteq DOMAIN node
      BY <1>4 DEF OthersOk
    <3>2. CASE SlaveEoe
      <4>1. node' = node \/ node' = NodeReceives(wrote)
        BY <3>2 DEF SlaveEoe
      <4> QED  BY <3>1, <4>1 DEF NodeReceives
    <3>3. CASE UNCHANGED node
      BY <3>3
    <3> QED  BY <1>9, <3>2, <3>3 DEF Lives, evars
  <2>6. NetOk(fs, r)'
    BY <1>1, <2>2, <2>3, <2>4, <2>5, NetSays
  <2> QED  BY <1>1, <1>2, <2>4, <2>5, <2>6 DEF NetInv
<1>10. CASE SlaveAnswers /\ Lives(<<fvars, sevars, evars>>)
  <2>1. UNCHANGED <<room, veth, eth_free, node>>
    BY <1>10 DEF Lives, fvars, evars
  <2>2. NetOk(fs, r)'
    BY <1>1, <1>10, <2>1, NetAnswers
  <2> QED  BY <1>3, <2>1, <2>2
<1>11. CASE NodeSends /\ Lives(<<fvars, sevars>>)
  <2>1. room' = room
    BY <1>11 DEF Lives, fvars
  <2>2. NetOk(fs, r)' /\ node'.frames = fs
    BY <1>1, <1>11, NetSends
  <2> QED  BY <1>1, <1>2, <2>1, <2>2 DEF NetInv
<1>12. CASE UNCHANGED vars
  <2>1. /\ UNCHANGED <<recv_pool, data, full, answers, losses>>
        /\ UNCHANGED <<room, veth, eth_free, node>>
    BY <1>12 DEF vars, port, recvs, slave, fvars, evars
  <2>2. NetOk(fs, r)'
    BY <1>1, <2>1, HasSame, FullSame, FlowStays
  <2> QED  BY <1>3, <2>1, <2>2
<1> QED  BY <1>5, <1>6, <1>7, <1>8, <1>9, <1>10, <1>11, <1>12 DEF Next, Slave

\* ... and the initial states satisfy it.
LEMMA NetBegins ==
    ASSUME NEW calls, NEW sizes, NEW frames, NEW device, NEW held, Asked(calls, sizes, frames),
           ServicesInit(calls, sizes, frames, device, held)
    PROVE  NetInv(frames, sizes.read)
<1>1. FoeInv
  BY FoeBegins
<1>2. node.frames = frames /\ node.sent = 0 /\ room = sizes
  BY DEF ServicesInit, EoeInit, FoeInit
<1>3. /\ recv_pool["eoe"] = <<>> /\ full = NULL /\ answers = <<>>
      /\ eth_free = FreeFrames /\ (veth # NULL => veth = <<>>)
  BY DEF ServicesInit, PortInit, EoeInit, Pools
<1>4. EoeHas = <<>> /\ AllEoe(EoeHas)
  <2>1. IsSeq(EoeHas) /\ Len(EoeHas) = 0
    BY <1>1, <1>3, NetIs, NoneIs
  <2> DEFINE e == <<>>
  <2>2. IsSeq(e) /\ Len(e) = 0
    BY NoneIs
  <2> HIDE DEF e
  <2>3. EoeHas = e
    BY <2>1, <2>2, SameSeq
  <2>4. DOMAIN EoeHas = 1 .. 0
    BY <2>1, SeqLen
  <2>5. AllEoe(EoeHas)
    BY <2>4 DEF AllEoe
  <2> QED  BY <2>3, <2>5 DEF e
<1>5. Full = <<>>
  BY <1>1, <1>3, NetIs, InIs
<1>6. ASSUME veth # NULL PROVE Delivered(frames) /\ Flowing(frames, sizes.read)
  <2>1. veth = <<>> /\ IsSeq(veth) /\ Len(veth) = 0
    BY <1>3, <1>6, NoneIs
  <2>2. IsSeq(frames) /\ Len(frames) \in Nat
    BY SeqLen DEF Asked
  <2>3. Delivered(frames)
    BY <1>3, <2>1, <2>2 DEF Delivered
  <2> DEFINE c == <<0 + 1, 1>>
  <2>4. c \in Cursors
    BY DEF Cursors
  <2> HIDE DEF c
  <2>5. Trail(frames, sizes.read, <<>>, c, c)
    BY <2>4, TrailNone
  <2>6. Flow(frames, sizes.read, EoeHas, Full, answers, 0, 0)
    BY <1>3, <1>4, <1>5, <2>4, <2>5 DEF Flow, c
  <2> QED  BY <1>2, <2>1, <2>3, <2>6 DEF Flowing
<1> QED  BY <1>1, <1>2, <1>6 DEF NetInv, NetOk

\* A sequence whose entries are the first ones of another is a first part of it.
LEMMA FirstOnes ==
    ASSUME NEW f, IsSeq(f), NEW g, IsSeq(g), Len(g) <= Len(f),
           \A i \in 1 .. Len(g) : g[i] = f[i]
    PROVE  g = SubSeq(f, 1, Len(g))
<1>1. PICK v \in Nat : v = Len(g)
  BY SeqLen
<1> DEFINE p == SubSeq(f, 0 + 1, v)
<1>2. IsSeq(p) /\ Len(p) = v - 0 /\ \A i \in 1 .. v - 0 : p[i] = f[0 + i]
  <2>1. 0 \in Nat /\ 0 <= v /\ v <= Len(f)
    BY <1>1
  <2> QED  BY <2>1, SliceIs
<1>3. p = SubSeq(f, 1, v)
  OBVIOUS
<1> HIDE DEF p
<1>4. v - 0 = v /\ \A i \in 1 .. v : 0 + i = i
  OBVIOUS
<1>5. g = p
  BY <1>1, <1>2, <1>4, SameSeq
<1> QED  BY <1>1, <1>3, <1>5

\* What EoE promises follows from the invariant, and outlives the step that returns a buffer
\* twice.
NetHeld(fs, r) == /\ HasPc /\ EoeFramesWhole
                  /\ ~ReturnedTwice => NetInv(fs, r)

LEMMA NetWhole ==
    ASSUME NEW CONSTANT fs, NEW CONSTANT r, IsSeq(fs)
    PROVE  NetInv(fs, r) => EoeFramesWhole
<1> SUFFICES ASSUME NetInv(fs, r) PROVE EoeFramesWhole
  OBVIOUS
<1> SUFFICES ASSUME veth # NULL, losses = 0
             PROVE  veth = SubSeq(node.frames, 1, Len(veth)) /\ eth_free = FreeFrames
  BY DEF EoeFramesWhole
<1>1. Delivered(fs) /\ node.frames = fs
  BY DEF NetInv, NetOk
<1>2. veth = SubSeq(fs, 1, Len(veth))
  BY <1>1, FirstOnes DEF Delivered
<1> QED  BY <1>1, <1>2 DEF Delivered

LEMMA NetWholeNext ==
    ASSUME NEW CONSTANT fs, NEW CONSTANT r, IsSeq(fs)
    PROVE  NetInv(fs, r)' => EoeFramesWhole'
<1>1. (NetInv(fs, r) => EoeFramesWhole)'
  BY NetWhole, PTL
<1> QED  BY <1>1

LEMMA NetHeldKeeps ==
    ASSUME NullIsNone, FreeFrames \in Nat \ {0}, NEW CONSTANT fs, NEW CONSTANT r, IsSeq(fs)
    PROVE  NetHeld(fs, r) /\ [Next]_vars => NetHeld(fs, r)'
<1> SUFFICES ASSUME NetHeld(fs, r), [Next]_vars PROVE NetHeld(fs, r)'
  OBVIOUS
<1>1. HasPc /\ HasPc' /\ EoeFramesWhole
  BY PcStays DEF NetHeld
<1>2. ASSUME UNCHANGED <<evars, losses>> PROVE EoeFramesWhole'
  BY <1>1, <1>2 DEF EoeFramesWhole, evars
<1>3. CASE ReturnedTwice
  <2>1. UNCHANGED vars
    BY <1>3, TwiceStays
  <2>2. ReturnedTwice' /\ UNCHANGED <<evars, losses>>
    BY <1>3, <2>1 DEF ReturnedTwice, vars, sevars, port
  <2> QED  BY <1>1, <1>2, <2>2 DEF NetHeld
<1>4. CASE SoeReturnsAgain
  <2>1. ReturnedTwice' /\ UNCHANGED losses
    BY <1>1, <1>4, TwiceIs DEF SoeReturnsAgain
  <2>2. UNCHANGED evars
    BY <1>1, <1>4, AgainIs
  <2> QED  BY <1>1, <1>2, <2>1, <2>2 DEF NetHeld
<1>5. CASE ~ReturnedTwice /\ ~SoeReturnsAgain
  <2>1. NetInv(fs, r)'
    BY <1>5, NetKeeps DEF NetHeld
  <2>2. EoeFramesWhole'
    BY <2>1, NetWholeNext
  <2> QED  BY <1>1, <2>1, <2>2 DEF NetHeld
<1> QED  BY <1>3, <1>4, <1>5

\* The frames of the slave's network come to the virtual network device whole and in
\* order, whatever the services do at the same time, and the buffers for frames are free
\* again after each, as long as no message is lost: ec_eoe_process_recv puts the fragments
\* together as they come and gives its frame to the device (eoe.c:517-635).
THEOREM EoeFramesAreWhole ==
    ASSUME NEW CONSTANT calls, NEW CONSTANT sizes, NEW CONSTANT frames, NEW CONSTANT device,
           NEW CONSTANT held, NullIsNone, Asked(calls, sizes, frames), FreeFrames \in Nat \ {0}
    PROVE  ServicesInit(calls, sizes, frames, device, held) /\ [][Next]_vars => []EoeFramesWhole
<1>1. IsSeq(frames)
  BY DEF Asked
<1>2. ServicesInit(calls, sizes, frames, device, held) => NetHeld(frames, sizes.read)
  BY <1>1, NetBegins, NetWhole DEF NetHeld, HasPc, ServicesInit, SoeInit
<1>3. NetHeld(frames, sizes.read) /\ [Next]_vars => NetHeld(frames, sizes.read)'
  BY <1>1, NetHeldKeeps
<1>4. NetHeld(frames, sizes.read) => EoeFramesWhole
  BY DEF NetHeld
<1>5. QED
  BY <1>2, <1>3, <1>4, PTL

=============================================================================
