--------------------------- MODULE AudioCoreProofs ---------------------------
(***************************************************************************)
(* Proofs about AudioCore for any sets of devices and streams and any      *)
(* number of steps of the world.  First, queues of messages in general:    *)
(* what handling the first message, or sending more, does to what a copy   *)
(* will hold.  Then IInv, by which the client's copies follow the server,  *)
(* and RInv, by which the server's default and streams follow the client.  *)
(***************************************************************************)
EXTENDS AudioCore, TLAPS

\* The places of two queues after each other.
LEMMA ConcatPlaces ==
  ASSUME NEW Msg, NEW q \in Seq(Msg), NEW r \in Seq(Msg)
  PROVE  /\ q \o r \in Seq(Msg)
         /\ Len(q) \in Nat /\ Len(r) \in Nat
         /\ DOMAIN q = 1..Len(q) /\ DOMAIN r = 1..Len(r)
         /\ DOMAIN (q \o r) = 1..(Len(q) + Len(r))
         /\ \A p \in 1..Len(q) : (q \o r)[p] = q[p]
         /\ \A p \in 1..Len(r) : (q \o r)[Len(q) + p] = r[p]
OBVIOUS

LEMMA ConcatLen ==
  ASSUME NEW Msg, NEW q \in Seq(Msg), NEW r \in Seq(Msg)
  PROVE  Len(q \o r) = Len(q) + Len(r)
OBVIOUS

LEMMA ConcatNothing ==
  ASSUME NEW Msg, NEW q \in Seq(Msg)
  PROVE  <<>> \in Seq(Msg) /\ q = q \o <<>> /\ DOMAIN <<>> = {}
OBVIOUS

LEMMA ConcatOne ==
  ASSUME NEW Msg, NEW q \in Seq(Msg), NEW r \in Seq(Msg), Len(r) = 1
  PROVE  \A p, x \in DOMAIN (q \o r) : x < p => x \in DOMAIN q
<1>1. /\ DOMAIN q = 1..Len(q) /\ Len(q) \in Nat
      /\ DOMAIN (q \o r) = 1..(Len(q) + 1)
  <2>1. DOMAIN q = 1..Len(q) /\ Len(q) \in Nat
    OBVIOUS
  <2>2. Len(q \o r) = Len(q) + Len(r)
    BY ConcatLen, Zenon
  <2>3. DOMAIN (q \o r) = 1..Len(q \o r)
    OBVIOUS
  <2>. QED  BY <2>1, <2>2, <2>3, Zenon
<1>2. \A p, x \in 1..(Len(q) + 1) : x < p => x \in 1..Len(q)
  BY ONLY <1>1
<1>. QED  BY <1>1, <1>2, Zenon

LEMMA ConcatCases ==
  ASSUME NEW Msg, NEW q \in Seq(Msg), NEW r \in Seq(Msg)
  PROVE  /\ \A p \in DOMAIN q : p \in DOMAIN (q \o r) /\ (q \o r)[p] = q[p]
         /\ \A p \in DOMAIN (q \o r) : p \in DOMAIN q \/ \E k \in DOMAIN r : (q \o r)[p] = r[k]
         /\ \A p \in DOMAIN q, x \in DOMAIN (q \o r) : x < p => x \in DOMAIN q
<1> DEFINE c == q \o r
           n == Len(q)
           m == Len(r)
<1>1. /\ n \in Nat /\ m \in Nat
      /\ DOMAIN q = 1..n /\ DOMAIN r = 1..m /\ DOMAIN c = 1..(n + m)
      /\ \A p \in 1..n : c[p] = q[p]
      /\ \A p \in 1..m : c[n + p] = r[p]
  BY ConcatPlaces
<1> HIDE DEF c, n, m
<1>2. /\ \A p \in 1..(n + m) : p \in 1..n \/ (p - n \in 1..m /\ p = n + (p - n))
      /\ \A p \in 1..n, x \in 1..(n + m) : x < p => x \in 1..n
      /\ \A p \in 1..n : p \in 1..(n + m)
  BY <1>1
<1>3. ASSUME NEW p \in 1..(n + m), p \notin 1..n
      PROVE  \E k \in 1..m : c[p] = r[k]
  BY <1>1, <1>2, <1>3, Zenon
<1>. QED  BY <1>1, <1>2, <1>3, Zenon DEF c

LEMMA NoneAfterConcat ==
  ASSUME NEW Msg, NEW q \in Seq(Msg), NEW r \in Seq(Msg), NEW drops
  PROVE  /\ \A p \in 0..Len(q) :
              NoneAfter(q \o r, p, drops) <=> NoneAfter(q, p, drops) /\ NoneAfter(r, 0, drops)
         /\ \A p \in 1..Len(r) :
              NoneAfter(q \o r, Len(q) + p, drops) <=> NoneAfter(r, p, drops)
<1> DEFINE c == q \o r
           n == Len(q)
           m == Len(r)
<1>1. /\ n \in Nat /\ m \in Nat
      /\ DOMAIN q = 1..n /\ DOMAIN r = 1..m /\ DOMAIN c = 1..(n + m)
      /\ \A p \in 1..n : c[p] = q[p]
      /\ \A p \in 1..m : c[n + p] = r[p]
  BY ConcatPlaces
<1> HIDE DEF c, n, m
<1>2. \A k \in 1..(n + m) : k \in 1..n \/ (k - n \in 1..m /\ k = n + (k - n))
  BY <1>1
<1>3. ASSUME NEW p \in 0..n
      PROVE  NoneAfter(c, p, drops) <=> NoneAfter(q, p, drops) /\ NoneAfter(r, 0, drops)
  <2>1. ASSUME NoneAfter(c, p, drops)
        PROVE  NoneAfter(q, p, drops) /\ NoneAfter(r, 0, drops)
    <3>1. /\ \A k \in 1..n : k \in 1..(n + m)
          /\ \A k \in 1..m : n + k \in 1..(n + m) /\ n + k > p
      BY <1>1
    <3>. QED  BY <1>1, <2>1, <3>1, Zenon DEF NoneAfter
  <2>2. ASSUME NoneAfter(q, p, drops), NoneAfter(r, 0, drops), NEW k \in 1..(n + m), k > p
        PROVE  c[k] \notin drops
    <3>1. CASE k \in 1..n
      BY <1>1, <2>2, <3>1, Zenon DEF NoneAfter
    <3>2. CASE k - n \in 1..m /\ k = n + (k - n)
      <4>1. k - n > 0
        BY <3>2
      <4>. QED  BY <1>1, <2>2, <3>2, <4>1, Zenon DEF NoneAfter
    <3>. QED  BY <1>2, <3>1, <3>2, Zenon
  <2>. QED  BY <1>1, <2>1, <2>2, Zenon DEF NoneAfter
<1>4. ASSUME NEW p \in 1..m
      PROVE  NoneAfter(c, n + p, drops) <=> NoneAfter(r, p, drops)
  <2>1. ASSUME NoneAfter(c, n + p, drops)
        PROVE  NoneAfter(r, p, drops)
    BY <1>1, <2>1, SMTT(20) DEF NoneAfter
  <2>2. ASSUME NoneAfter(r, p, drops), NEW k \in 1..(n + m), k > n + p
        PROVE  c[k] \notin drops
    <3>1. k - n \in 1..m /\ k = n + (k - n) /\ k - n > p
      BY <1>1, <2>2
    <3>. QED  BY <1>1, <2>2, <3>1, Zenon DEF NoneAfter
  <2>. QED  BY <1>1, <2>1, <2>2, Zenon DEF NoneAfter
<1>. QED  BY <1>3, <1>4, Zenon DEF c, n, m

\* Messages sent behind others act on what those leave.
LEMMA HeldConcat ==
  ASSUME NEW Msg, NEW q \in Seq(Msg), NEW r \in Seq(Msg), NEW now, NEW adds, NEW drops
  PROVE  Held(q \o r, now, adds, drops) <=> Held(r, Held(q, now, adds, drops), adds, drops)
<1> DEFINE c == q \o r
           n == Len(q)
           m == Len(r)
           Add(x, p) == x[p] \in adds /\ NoneAfter(x, p, drops)
<1>1. /\ n \in Nat /\ m \in Nat
      /\ DOMAIN q = 1..n /\ DOMAIN r = 1..m /\ DOMAIN c = 1..(n + m)
      /\ \A p \in 1..n : c[p] = q[p]
      /\ \A p \in 1..m : c[n + p] = r[p]
  BY ConcatPlaces
<1>2. \A p \in 0..n : NoneAfter(c, p, drops) <=> NoneAfter(q, p, drops) /\ NoneAfter(r, 0, drops)
  BY NoneAfterConcat, Zenon
<1>3. \A p \in 1..m : NoneAfter(c, n + p, drops) <=> NoneAfter(r, p, drops)
  BY NoneAfterConcat, Zenon
<1>4. /\ Held(c, now, adds, drops) <=> (\E p \in 1..(n + m) : Add(c, p)) \/ (now /\ NoneAfter(c, 0, drops))
      /\ Held(q, now, adds, drops) <=> (\E p \in 1..n : Add(q, p)) \/ (now /\ NoneAfter(q, 0, drops))
      /\ Held(r, Held(q, now, adds, drops), adds, drops) <=>
           \/ \E p \in 1..m : Add(r, p)
           \/ Held(q, now, adds, drops) /\ NoneAfter(r, 0, drops)
  BY <1>1, Zenon DEF Held
<1> HIDE DEF c, n, m
<1>5. /\ 0 \in 0..n
      /\ \A p \in 1..n : p \in 0..n /\ p \in 1..(n + m)
      /\ \A p \in 1..m : n + p \in 1..(n + m)
      /\ \A k \in 1..(n + m) : k \in 1..n \/ \E p \in 1..m : k = n + p
  BY <1>1
<1>6. /\ \A p \in 1..n : Add(c, p) <=> Add(q, p) /\ NoneAfter(r, 0, drops)
      /\ \A p \in 1..m : Add(c, n + p) <=> Add(r, p)
  BY <1>1, <1>2, <1>3, <1>5, Zenon
<1> HIDE DEF Add
<1>7. (\E p \in 1..(n + m) : Add(c, p)) <=>
        \/ (\E p \in 1..n : Add(q, p)) /\ NoneAfter(r, 0, drops)
        \/ \E p \in 1..m : Add(r, p)
  BY <1>5, <1>6, Zenon
<1>8. NoneAfter(c, 0, drops) <=> NoneAfter(q, 0, drops) /\ NoneAfter(r, 0, drops)
  BY <1>2, <1>5, Zenon
<1>9. Held(c, now, adds, drops) <=> Held(r, Held(q, now, adds, drops), adds, drops)
  BY <1>4, <1>7, <1>8, Zenon
<1>. QED  BY <1>9, Zenon DEF c

LEMMA HeadTail ==
  ASSUME NEW Msg, NEW q \in Seq(Msg), q # <<>>
  PROVE  /\ Head(q) \in Msg /\ Tail(q) \in Seq(Msg) /\ <<Head(q)>> \in Seq(Msg)
         /\ q = <<Head(q)>> \o Tail(q)
         /\ 1 \in DOMAIN q /\ q[1] = Head(q)
         /\ \A p \in DOMAIN Tail(q) : p + 1 \in DOMAIN q /\ Tail(q)[p] = q[p + 1]
         /\ \A p \in DOMAIN q : p = 1 \/ (p - 1 \in DOMAIN Tail(q) /\ Tail(q)[p - 1] = q[p])
<1>1. /\ Head(q) \in Msg /\ Tail(q) \in Seq(Msg) /\ <<Head(q)>> \in Seq(Msg)
      /\ Len(q) \in Nat /\ Len(q) > 0 /\ DOMAIN q = 1..Len(q)
      /\ DOMAIN Tail(q) = 1..(Len(q) - 1) /\ Head(q) = q[1]
      /\ \A p \in 1..(Len(q) - 1) : Tail(q)[p] = q[p + 1]
  OBVIOUS
<1>2. q = <<Head(q)>> \o Tail(q)
  OBVIOUS
<1>. QED  BY <1>1, <1>2

\* Events about an entry follow it: they drop it if it went and do not if it stays.
LEMMA HeldTold ==
  ASSUME NEW Msg, NEW q \in Seq(Msg), NEW a \in Seq(Msg), NEW now, NEW adds, NEW drops,
         NEW was, NEW is,
         Held(q, now, adds, drops) => was,
         \A p \in DOMAIN a : a[p] \notin adds,
         was /\ ~is => \E p \in DOMAIN a : a[p] \in drops,
         is => \A p \in DOMAIN a : a[p] \notin drops
  PROVE  /\ Held(q \o a, now, adds, drops) => is
         /\ is /\ Held(q, now, adds, drops) => Held(q \o a, now, adds, drops)
<1>0. \A p \in DOMAIN a : p > 0
  OBVIOUS
<1>1. Held(q \o a, now, adds, drops) <=> Held(a, Held(q, now, adds, drops), adds, drops)
  BY HeldConcat, Zenon
<1>2. (\A p \in DOMAIN a : a[p] \notin adds /\ a[p] \notin drops) =>
        (Held(a, Held(q, now, adds, drops), adds, drops) <=> Held(q, now, adds, drops))
  BY <1>0, Zenon DEF Held, NoneAfter
<1>3. ~is => ~Held(a, Held(q, now, adds, drops), adds, drops)
  BY <1>0, Zenon DEF Held, NoneAfter
<1>. QED  BY <1>1, <1>2, <1>3, Zenon

\* Answers about an entry add it, if there is one to tell of.
LEMMA HeldAnswered ==
  ASSUME NEW Msg, NEW q \in Seq(Msg), NEW a \in Seq(Msg), NEW now, NEW adds, NEW drops,
         NEW is,
         Held(q, now, adds, drops) => is,
         \A p \in DOMAIN a : a[p] \notin drops,
         (\E p \in DOMAIN a : a[p] \in adds) => is
  PROVE  /\ Held(q \o a, now, adds, drops) => is
         /\ (\E p \in DOMAIN a : a[p] \in adds) \/ Held(q, now, adds, drops) =>
              Held(q \o a, now, adds, drops)
<1>1. Held(q \o a, now, adds, drops) <=> Held(a, Held(q, now, adds, drops), adds, drops)
  BY HeldConcat, Zenon
<1>. QED  BY <1>1, Zenon DEF Held, NoneAfter

\* Handling the first message: what the copy will hold in the end is the same.
LEMMA HeldTail ==
  ASSUME NEW Msg, NEW q \in Seq(Msg), q # <<>>, NEW now, NEW next, NEW adds, NEW drops,
         next <=> Head(q) \in adds \/ (now /\ Head(q) \notin drops)
  PROVE  Held(Tail(q), next, adds, drops) <=> Held(q, now, adds, drops)
<1> DEFINE h == <<Head(q)>>
<1>1. h \in Seq(Msg) /\ Tail(q) \in Seq(Msg) /\ q = h \o Tail(q)
  BY HeadTail, Zenon
<1>2. DOMAIN h = {1} /\ h[1] = Head(q)
  OBVIOUS
<1> HIDE DEF h
<1>3. Held(h, now, adds, drops) <=> next
  <2>1. ~(1 > 1) /\ 1 > 0
    OBVIOUS
  <2>. QED  BY <1>2, <2>1, Zenon DEF Held, NoneAfter
<1>4. Held(h \o Tail(q), now, adds, drops)
        <=> Held(Tail(q), Held(h, now, adds, drops), adds, drops)
  BY <1>1, HeldConcat, Zenon
<1>5. Held(Tail(q), Held(h, now, adds, drops), adds, drops) <=> Held(Tail(q), next, adds, drops)
  BY <1>3, Zenon DEF Held
<1>. QED  BY <1>1, <1>4, <1>5, Zenon

LEMMA RangeConcat ==
  ASSUME NEW Msg, NEW q \in Seq(Msg), NEW r \in Seq(Msg), NEW m
  PROVE  m \in Range(q \o r) <=> m \in Range(q) \/ m \in Range(r)
<1> DEFINE c == q \o r
           j == Len(q)
           k == Len(r)
<1>1. /\ j \in Nat /\ k \in Nat
      /\ DOMAIN q = 1..j /\ DOMAIN r = 1..k /\ DOMAIN c = 1..(j + k)
      /\ \A p \in 1..j : c[p] = q[p]
      /\ \A p \in 1..k : c[j + p] = r[p]
  BY ConcatPlaces
<1>2. /\ m \in Range(c) <=> \E p \in 1..(j + k) : c[p] = m
      /\ m \in Range(q) <=> \E p \in 1..j : q[p] = m
      /\ m \in Range(r) <=> \E p \in 1..k : r[p] = m
  BY <1>1, Zenon DEF Range
<1> HIDE DEF c, j, k
<1>3. /\ \A p \in 1..j : p \in 1..(j + k)
      /\ \A p \in 1..k : j + p \in 1..(j + k)
      /\ \A p \in 1..(j + k) : p \in 1..j \/ \E x \in 1..k : p = j + x
  BY <1>1
<1>4. ASSUME m \in Range(c)
      PROVE  m \in Range(q) \/ m \in Range(r)
  <2>1. PICK p \in 1..(j + k) : c[p] = m
    BY <1>1, <1>2, <1>4, Zenon
  <2>2. CASE p \in 1..j
    BY <1>1, <1>2, <2>1, <2>2, Zenon
  <2>3. CASE \E x \in 1..k : p = j + x
    BY <1>1, <1>2, <2>1, <2>3, Zenon
  <2>. QED  BY <1>3, <2>2, <2>3, Zenon
<1>5. m \in Range(q) => m \in Range(c)
  BY <1>1, <1>2, <1>3, Zenon
<1>6. m \in Range(r) => m \in Range(c)
  BY <1>1, <1>2, <1>3, Zenon
<1>. QED  BY <1>4, <1>5, <1>6, Zenon DEF c

LEMMA RangeTail ==
  ASSUME NEW Msg, NEW q \in Seq(Msg), q # <<>>, NEW m
  PROVE  m \in Range(q) <=> Head(q) = m \/ m \in Range(Tail(q))
<1> DEFINE h == <<Head(q)>>
<1>1. h \in Seq(Msg) /\ Tail(q) \in Seq(Msg) /\ q = h \o Tail(q)
  BY HeadTail, Zenon
<1>2. m \in Range(h) <=> Head(q) = m
  BY DEF Range
<1> HIDE DEF h
<1>3. m \in Range(h \o Tail(q)) <=> m \in Range(h) \/ m \in Range(Tail(q))
  BY <1>1, RangeConcat, Zenon
<1>. QED  BY <1>1, <1>2, <1>3, Zenon

\* A message of two queues after each other is one of the first or of the second.
LEMMA ConcatMessages ==
  ASSUME NEW Msg, NEW q \in Seq(Msg), NEW r \in Seq(Msg), NEW p \in DOMAIN (q \o r)
  PROVE  \/ \E k \in DOMAIN q : (q \o r)[p] = q[k]
         \/ \E k \in DOMAIN r : (q \o r)[p] = r[k]
<1>1. p \in 1..Len(q) \/ (p - Len(q) \in 1..Len(r) /\ p = Len(q) + (p - Len(q)))
  BY ConcatPlaces
<1>2. CASE p \in 1..Len(q)
  BY <1>2, ConcatPlaces, Zenon
<1>3. CASE p - Len(q) \in 1..Len(r) /\ p = Len(q) + (p - Len(q))
  BY <1>3, ConcatPlaces
<1>. QED  BY <1>1, <1>2, <1>3, Zenon

\* A list of a finite set is a sequence of its members in which each occurs.
LEMMA ListingsOf ==
  ASSUME NEW S, NEW l \in Listings(S)
  PROVE  /\ l \in Seq(S) /\ Len(l) \in Nat /\ DOMAIN l = 1..Len(l)
         /\ \A n \in 1..Len(l) : l[n] \in S
         /\ \A x \in S : \E n \in 1..Len(l) : l[n] = x
<1>1. PICK size \in Nat : l \in Bijection(1..size, S)
  BY DEF Listings
<1>2. l \in [1..size -> S] /\ \A x \in S : \E n \in 1..size : l[n] = x
  BY <1>1, Zenon DEF Bijection, Injection, Surjection
<1>3. l \in Seq(S) /\ Len(l) = size
  BY <1>2
<1>. QED  BY <1>2, <1>3, Zenon

-----------------------------------------------------------------------------
\* Types.

\* The device autoDefault chooses is one of those it is given.
LEMMA ChoiceIn ==
  ASSUME NEW devices, NEW hdmi
  PROVE  Choice(devices, hdmi) = None \/ \E i \in DOMAIN devices : Choice(devices, hdmi) = devices[i]
BY Zenon DEF Choice

LEMMA NoticeFields ==
  ASSUME NEW m \in Notice
  PROVE  /\ m.t \in {"new", "remove", "info", "open", "close", "stream", "server"}
         /\ m.t \in {"new", "remove"} => m.i \in Nat /\ m = [t |-> m.t, i |-> m.i]
         /\ m.t = "info" => m.i \in Nat /\ m.d \in Device /\ m = [t |-> "info", i |-> m.i, d |-> m.d]
         /\ m.t \in {"open", "close", "stream"} => m.s \in Stream /\ m = [t |-> m.t, s |-> m.s]
         /\ m.t = "server" => m.d \in Device \cup {None}
BY Zenon DEF Notice

LEMMA RequestFields ==
  ASSUME NEW m \in Request
  PROVE  /\ m.t \in {"subscribe", "server", "sinks", "inputs", "sink", "input", "default", "move"}
         /\ m.t \in {"subscribe", "server", "sinks", "inputs"} => m = [t |-> m.t]
         /\ m.t = "sink" => m.i \in Nat /\ m = [t |-> "sink", i |-> m.i]
         /\ m.t = "input" => m.s \in Stream /\ m = [t |-> "input", s |-> m.s]
         /\ m.t = "default" => m.d \in Device /\ m = [t |-> "default", d |-> m.d]
         /\ m.t = "move" => /\ m.s \in Stream /\ m.d \in Device \cup {None}
                            /\ m = [t |-> "move", s |-> m.s, d |-> m.d]
BY Zenon DEF Request

\* The requests autoDefault makes when it sets the default d.
Orders(out, d) ==
  /\ \A p \in DOMAIN out : out[p] = [t |-> "default", d |-> d] \/ \E s \in Stream : out[p] = Move(s, d)
  /\ [t |-> "default", d |-> d] \in Range(out)
  /\ \A s \in sinkInputs : Move(s, d) \in Range(out)

LEMMA AutoDefaultOrders ==
  ASSUME TypeOK, NEW devices, NEW hdmi, autoDefault(devices, hdmi), NEW d \in Device,
         Choice(devices, hdmi) = d, d # defaultSinkName
  PROVE  \E out \in Seq(Request) : toServer' = toServer \o out /\ Orders(out, d)
<1> DEFINE c == [t |-> "default", d |-> d]
           f == <<c>>
<1>1. PICK l \in Listings(sinkInputs) : toServer' = toServer \o (f \o [n \in 1..Len(l) |-> Move(l[n], d)])
  BY AudioCoreAssumption, Zenon DEF autoDefault
<1> DEFINE size == Len(l)
           g == [n \in 1..size |-> Move(l[n], d)]
<1>2. sinkInputs \subseteq Stream
  BY Zenon DEF TypeOK
<1>3. /\ size \in Nat
      /\ \A n \in 1..size : l[n] \in Stream
      /\ \A s \in sinkInputs : \E n \in 1..size : l[n] = s
  BY <1>2, ListingsOf, Zenon
<1>4. toServer' = toServer \o (f \o g)
  BY <1>1, Zenon
<1>5. f \in Seq(Request) /\ DOMAIN f = {1} /\ f[1] = c
  BY DEF Request
<1> HIDE DEF f, size
<1>6. g \in Seq(Request) /\ DOMAIN g = 1..size /\ \A n \in 1..size : g[n] = Move(l[n], d)
  <2>1. \A n \in 1..size : Move(l[n], d) \in Request
    BY <1>3, Zenon DEF Move, Request
  <2>. QED  BY <1>3, <2>1
<1> HIDE DEF g, c
<1>7. f \o g \in Seq(Request)
  BY <1>5, <1>6
<1>8. \A p \in DOMAIN (f \o g) : (f \o g)[p] = c \/ \E s \in Stream : (f \o g)[p] = Move(s, d)
  <2>1. \A p \in DOMAIN (f \o g) : (f \o g)[p] \in Range(f \o g)
    BY Zenon DEF Range
  <2>2. \A x : x \in Range(f \o g) => x \in Range(f) \/ x \in Range(g)
    BY <1>5, <1>6, RangeConcat, Zenon
  <2>3. \A x \in Range(f) : x = c
    BY <1>5, Zenon DEF Range
  <2>4. \A x \in Range(g) : \E s \in Stream : x = Move(s, d)
    <3>1. \A x \in Range(g) : \E n \in DOMAIN g : x = g[n]
      BY Zenon DEF Range
    <3>2. \A n \in DOMAIN g : \E s \in Stream : g[n] = Move(s, d)
      BY <1>3, <1>6, Zenon
    <3>. QED  BY <3>1, <3>2, Zenon
  <2>. QED  BY <2>1, <2>2, <2>3, <2>4, Zenon
<1>9. c \in Range(f \o g) /\ \A s \in sinkInputs : Move(s, d) \in Range(f \o g)
  <2>1. c \in Range(f) /\ \A s \in sinkInputs : Move(s, d) \in Range(g)
    BY <1>3, <1>5, <1>6, Zenon DEF Range
  <2>. QED  BY <1>5, <1>6, <2>1, RangeConcat, Zenon
<1>10. Orders(f \o g, d)
  BY <1>8, <1>9, Zenon DEF Orders, c
<1>. QED  BY <1>4, <1>7, <1>10, Zenon

\* autoDefault only adds requests: nothing, or the new default and the moves to it
\* of the streams the client knows.
LEMMA AutoDefaultSends ==
  ASSUME TypeOK, NEW n \in Nat, NEW devices, DOMAIN devices \subseteq 1..n,
         devices \in [DOMAIN devices -> Device], NEW hdmi, autoDefault(devices, hdmi)
  PROVE  /\ defaultSinkName' \in Device \cup {None} /\ lapsed' \in BOOLEAN
         /\ \E out \in Seq(Request) :
              /\ toServer' = toServer \o out
              /\ \A p \in DOMAIN out : out[p].t \in {"default", "move"}
<1>1. CASE UNCHANGED <<defaultSinkName, toServer>> /\ (lapsed' = TRUE \/ lapsed' = lapsed)
  <2>1. toServer' = toServer \o <<>> /\ <<>> \in Seq(Request) /\ DOMAIN <<>> = {}
    BY <1>1 DEF TypeOK
  <2>2. \A p \in DOMAIN <<>> : <<>>[p].t \in {"default", "move"}
    BY <2>1, Zenon
  <2>. QED  BY <1>1, <2>1, <2>2, Zenon DEF TypeOK
<1>2. CASE Choice(devices, hdmi) # None /\ Choice(devices, hdmi) # defaultSinkName
  <2>1. PICK d \in Device : Choice(devices, hdmi) = d
    BY <1>2, ChoiceIn, Zenon
  <2>2. PICK out \in Seq(Request) : toServer' = toServer \o out /\ Orders(out, d)
    BY <1>2, <2>1, AutoDefaultOrders, Zenon
  <2>3. \A p \in DOMAIN out : out[p].t \in {"default", "move"}
    BY <2>2 DEF Orders, Move
  <2>4. defaultSinkName' = d /\ lapsed' = FALSE
    BY <1>2, <2>1, Zenon DEF autoDefault
  <2>. QED  BY <2>2, <2>3, <2>4, Zenon
<1>. QED  BY <1>1, <1>2, Zenon DEF autoDefault

\* What a step of the client that handles a message does, whatever the message.
LEMMA ReceiveTypes ==
  ASSUME TypeOK, NEW type, Receive(type)
  PROVE  /\ Head(toClient) \in Notice /\ Head(toClient).t = type
         /\ toClient' = Tail(toClient) /\ toClient' \in Seq(Notice)
         /\ 1 \in DOMAIN toClient /\ toClient[1] = Head(toClient)
         /\ toClient # <<>> /\ status = "ready"
BY HeadTail, Zenon DEF Receive, TypeOK

LEMMA ClientTypes ==
  ASSUME TypeOK, NamesOK, Client
  PROVE  TypeOK'
<1> DEFINE m == Head(toClient)
           Sends == \E out \in Seq(Request) : toServer' = toServer \o out
<1> USE DEF setup, client, server
<1>0. toServer \in Seq(Request) /\ env.last \in Nat
  BY Zenon DEF TypeOK
<1>a. ASSUME Sends PROVE toServer' \in Seq(Request)
  BY <1>0, <1>a
<1>b. ASSUME NEW r \in Request PROVE Append(toServer, r) \in Seq(Request)
  BY <1>0
<1>1. CASE Ready
  <2>1. Hello \in Seq(Request)
    BY DEF Hello, Request
  <2>. QED  BY <1>1, <2>1, Zenon DEF Ready, TypeOK
<1>2. CASE DeviceEvent
  <2>1. Receive("new")
    BY <1>2, Zenon DEF DeviceEvent
  <2>2. [t |-> "sink", i |-> m.i] \in Request
    BY <2>1, ReceiveTypes, NoticeFields, Zenon DEF Request
  <2>. QED  BY <1>2, <1>b, <2>1, <2>2, ReceiveTypes, ZenonT(30) DEF DeviceEvent, TypeOK
<1>3. CASE DeviceRemoved
  <2>1. Receive("remove")
    BY <1>3, Zenon DEF DeviceRemoved
  <2>2. DOMAIN Without(sinks, m.i) \subseteq 1..env.last
         /\ Without(sinks, m.i) \in [DOMAIN Without(sinks, m.i) -> Device]
    BY Zenon DEF TypeOK, Without
  <2>3. autoDefault(Without(sinks, m.i), bHDMI) /\ sinks' = Without(sinks, m.i)
    BY <1>3, Zenon DEF DeviceRemoved
  <2>4. defaultSinkName' \in Device \cup {None} /\ lapsed' \in BOOLEAN /\ Sends
    BY <1>0, <2>2, <2>3, AutoDefaultSends, Zenon
  <2>. QED  BY <1>3, <1>a, <2>1, <2>2, <2>3, <2>4, ReceiveTypes, Zenon DEF DeviceRemoved, TypeOK
<1>4. CASE StreamEvent
  <2>1. Receive("open")
    BY <1>4, Zenon DEF StreamEvent
  <2>2. [t |-> "input", s |-> m.s] \in Request
    BY <2>1, ReceiveTypes, NoticeFields, Zenon DEF Request
  <2>. QED  BY <1>4, <1>b, <2>1, <2>2, ReceiveTypes DEF StreamEvent, TypeOK
<1>5. CASE StreamRemoved
  BY <1>5, ReceiveTypes DEF StreamRemoved, TypeOK
<1>6. CASE updateSink
  <2>1. Receive("info")
    BY <1>6, Zenon DEF updateSink
  <2>2. m.i \in 1..env.last /\ m.d \in Device
    BY <2>1, ReceiveTypes, NoticeFields, Zenon DEF NamesOK, Truthful
  <2>3. DOMAIN With(sinks, m.i, m.d) \subseteq 1..env.last
         /\ With(sinks, m.i, m.d) \in [DOMAIN With(sinks, m.i, m.d) -> Device]
    BY <2>2, Zenon DEF TypeOK, With
  <2>4. autoDefault(With(sinks, m.i, m.d), bHDMI) /\ sinks' = With(sinks, m.i, m.d)
    BY <1>6, Zenon DEF updateSink
  <2>5. defaultSinkName' \in Device \cup {None} /\ lapsed' \in BOOLEAN /\ Sends
    BY <1>0, <2>3, <2>4, AutoDefaultSends, Zenon
  <2>6. inner' \in BOOLEAN
    BY <1>6, Zenon DEF updateSink, TypeOK
  <2>. QED  BY <1>6, <1>a, <2>1, <2>3, <2>4, <2>5, <2>6, ReceiveTypes, Zenon DEF updateSink, TypeOK
<1>7. CASE updateSinkInput
  <2>1. Receive("stream")
    BY <1>7, Zenon DEF updateSinkInput
  <2>2. m.s \in Stream /\ Move(m.s, defaultSinkName) \in Request
    BY <2>1, ReceiveTypes, NoticeFields, Zenon DEF Request, Move, TypeOK
  <2>. QED  BY <1>7, <1>b, <2>1, <2>2, ReceiveTypes DEF updateSinkInput, TypeOK
<1>8. CASE updateServer
  BY <1>8, ReceiveTypes, NoticeFields DEF updateServer, TypeOK
<1>. QED  BY <1>1, <1>2, <1>3, <1>4, <1>5, <1>6, <1>7, <1>8, Zenon DEF Client

\* What the server answers is about what there is, and an answer leaves out nothing
\* that it was asked for.
LEMMA AnswersTold ==
  ASSUME TypeOK, NEW m \in Request, NEW a \in Answers(m)
  PROVE  /\ a \in Seq(Notice)
         /\ \A p \in DOMAIN a :
              \/ /\ m.t \in {"sink", "sinks"} /\ \E i \in DOMAIN present : a[p] = Info(i)
              \/ /\ m.t \in {"input", "inputs"}
                 /\ \E s \in DOMAIN on : a[p] = StreamInfo(s)
              \/ /\ m.t = "server" /\ a[p] = [t |-> "server", d |-> srvDefault]
         /\ \A i \in DOMAIN present : m.t = "sinks" \/ m = [t |-> "sink", i |-> i] =>
              \E p \in DOMAIN a : a[p] = Info(i)
         /\ \A s \in DOMAIN on : m.t = "inputs" \/ m = [t |-> "input", s |-> s] =>
              \E p \in DOMAIN a : a[p] = StreamInfo(s)
<1>0. /\ \A i \in DOMAIN present : i \in Nat /\ Info(i) \in Notice
      /\ \A s \in DOMAIN on : StreamInfo(s) \in Notice
      /\ [t |-> "server", d |-> srvDefault] \in Notice
  BY DEF TypeOK, Notice, Info, StreamInfo
<1>1. CASE m.t = "sink" /\ m.i \in DOMAIN present
  <2>1. a = <<Info(m.i)>>
    BY <1>1, Zenon DEF Answers
  <2>. QED  BY <1>0, <1>1, <2>1
<1>2. CASE m.t = "input" /\ m.s \in DOMAIN on
  <2>1. a = <<StreamInfo(m.s)>>
    BY <1>2, Zenon DEF Answers
  <2>. QED  BY <1>0, <1>2, <2>1
<1>3. CASE m.t = "server"
  <2>1. a = <<[t |-> "server", d |-> srvDefault]>>
    BY <1>3, Zenon DEF Answers
  <2>. QED  BY <1>0, <1>3, <2>1
<1>4. CASE m.t = "sinks"
  <2>1. PICK l \in Listings(DOMAIN present) : a = [n \in 1..Len(l) |-> Info(l[n])]
    BY <1>4, Zenon DEF Answers
  <2>2. /\ Len(l) \in Nat /\ \A n \in 1..Len(l) : l[n] \in DOMAIN present
        /\ \A x \in DOMAIN present : \E n \in 1..Len(l) : l[n] = x
    BY ListingsOf, Zenon
  <2>3. DOMAIN a = 1..Len(l) /\ \A n \in 1..Len(l) : a[n] = Info(l[n])
    BY <2>1, Zenon
  <2>4. a \in Seq(Notice)
    BY <1>0, <2>1, <2>2
  <2>5. \A p \in DOMAIN a : \E i \in DOMAIN present : a[p] = Info(i)
    BY <2>2, <2>3, ZenonT(30)
  <2>6. \A i \in DOMAIN present : \E p \in DOMAIN a : a[p] = Info(i)
    BY <2>2, <2>3, Zenon
  <2>7. m.t # "inputs" /\ \A s : m # [t |-> "input", s |-> s]
    BY <1>4
  <2>. QED  BY <1>4, <2>4, <2>5, <2>6, <2>7, Zenon
<1>5. CASE m.t = "inputs"
  <2>1. PICK l \in Listings(DOMAIN on) : a = [n \in 1..Len(l) |-> StreamInfo(l[n])]
    BY <1>5, Zenon DEF Answers
  <2>2. /\ Len(l) \in Nat /\ \A n \in 1..Len(l) : l[n] \in DOMAIN on
        /\ \A x \in DOMAIN on : \E n \in 1..Len(l) : l[n] = x
    BY ListingsOf, Zenon
  <2>3. DOMAIN a = 1..Len(l) /\ \A n \in 1..Len(l) : a[n] = StreamInfo(l[n])
    BY <2>1, Zenon
  <2>4. a \in Seq(Notice)
    BY <1>0, <2>1, <2>2
  <2>5. \A p \in DOMAIN a : \E s \in DOMAIN on : a[p] = StreamInfo(s)
    BY <2>2, <2>3, ZenonT(30)
  <2>6. \A s \in DOMAIN on : \E p \in DOMAIN a : a[p] = StreamInfo(s)
    BY <2>2, <2>3, Zenon
  <2>7. m.t # "sinks" /\ \A i : m # [t |-> "sink", i |-> i]
    BY <1>5
  <2>. QED  BY <1>5, <2>4, <2>5, <2>6, <2>7, Zenon
<1>6. CASE /\ ~(m.t = "sink" /\ m.i \in DOMAIN present) /\ ~(m.t = "input" /\ m.s \in DOMAIN on)
           /\ m.t \notin {"server", "sinks", "inputs"}
  <2>1. a = <<>>
    BY <1>6, Zenon DEF Answers
  <2>. QED  BY <1>6, <2>1
<1>. QED  BY <1>1, <1>2, <1>3, <1>4, <1>5, <1>6, Zenon

LEMMA AnswersAll ==
  ASSUME TypeOK, NEW m \in Request, NEW a \in Answers(m)
  PROVE  /\ \A i \in DOMAIN present : m.t = "sinks" \/ m = [t |-> "sink", i |-> i] =>
              \E p \in DOMAIN a : a[p] = Info(i)
         /\ \A s \in DOMAIN on : m.t = "inputs" \/ m = [t |-> "input", s |-> s] =>
              \E p \in DOMAIN a : a[p] = StreamInfo(s)
<1>1. \A i \in DOMAIN present : m.t = "sinks" \/ m = [t |-> "sink", i |-> i] =>
        \E p \in DOMAIN a : a[p] = Info(i)
  BY AnswersTold, ZenonT(30)
<1>2. \A s \in DOMAIN on : m.t = "inputs" \/ m = [t |-> "input", s |-> s] =>
        \E p \in DOMAIN a : a[p] = StreamInfo(s)
  BY AnswersTold, ZenonT(30)
<1>. QED  BY <1>1, <1>2, Zenon

\* An event goes to a client that has subscribed, behind all that was sent before.
LEMMA TellSends ==
  ASSUME TypeOK, NEW a \in Seq(Notice), Tell(a)
  PROVE  /\ toClient' \in Seq(Notice)
         /\ subscribed => toClient' = toClient \o a
         /\ ~subscribed => toClient' = toClient
BY DEF TypeOK, Tell

LEMMA WorldTypes ==
  ASSUME TypeOK, World
  PROVE  TypeOK'
<1> USE DEF setup, client, server
<1>0. env.last \in Nat /\ env.steps \in Nat /\ env = [steps |-> env.steps, last |-> env.last]
  BY Zenon DEF TypeOK
<1>1. ASSUME NEW hdmi \in BOOLEAN, changeProfile(hdmi)
      PROVE  TypeOK'
  <2>1. env' = [steps |-> env.steps + 1, last |-> env.last]
    BY <1>0, <1>1, Zenon DEF changeProfile
  <2>2. /\ defaultSinkName' \in Device \cup {None} /\ lapsed' \in BOOLEAN
        /\ toServer' \in Seq(Request)
    <3>1. CASE autoDefault(sinks, hdmi)
      <4>1. DOMAIN sinks \subseteq 1..env.last /\ sinks \in [DOMAIN sinks -> Device]
        BY Zenon DEF TypeOK
      <4>2. /\ defaultSinkName' \in Device \cup {None} /\ lapsed' \in BOOLEAN
            /\ \E out \in Seq(Request) : toServer' = toServer \o out
        BY <1>0, <3>1, <4>1, AutoDefaultSends, Zenon
      <4>3. toServer \in Seq(Request)
        BY Zenon DEF TypeOK
      <4>. QED  BY <4>2, <4>3
    <3>2. CASE UNCHANGED <<lapsed, defaultSinkName, toServer>>
      BY <3>2, Zenon DEF TypeOK
    <3>. QED  BY <1>1, <3>1, <3>2, Zenon DEF changeProfile
  <2>. QED  BY <1>0, <1>1, <2>1, <2>2 DEF changeProfile, TypeOK
<1>2. ASSUME NEW d \in Device, Plug(d)
      PROVE  TypeOK'
  <2>1. env' = [steps |-> env.steps + 1, last |-> env.last + 1]
    BY <1>2, Zenon DEF Plug
  <2>2. <<[t |-> "new", i |-> env.last + 1]>> \in Seq(Notice)
    BY <1>0 DEF Notice
  <2>3. toClient' \in Seq(Notice)
    BY <1>2, <2>2, TellSends, Zenon DEF Plug
  <2>4. /\ DOMAIN present' \subseteq 1..(env.last + 1)
        /\ present' \in [DOMAIN present' -> Device]
    BY <1>0, <1>2 DEF Plug, With, TypeOK
  <2>5. DOMAIN sinks \subseteq 1..(env.last + 1) /\ srvDefault' \in Device \cup {None}
    BY <1>0, <1>2 DEF Plug, TypeOK
  <2>. QED  BY <1>0, <1>2, <2>1, <2>3, <2>4, <2>5 DEF Plug, TypeOK
<1>3. ASSUME NEW i \in DOMAIN present, Unplug(i)
      PROVE  TypeOK'
  <2> DEFINE left == Without(present, i)
             rest == {left[j] : j \in DOMAIN left}
             moved == {s \in DOMAIN on : on[s] = present[i]}
  <2>1. env' = [steps |-> env.steps + 1, last |-> env.last]
    BY <1>0, <1>3, Zenon DEF Unplug
  <2>2. left \in [DOMAIN left -> Device] /\ DOMAIN left \subseteq 1..env.last /\ rest \subseteq Device
    BY Zenon DEF TypeOK, Without
  <2>3. [t |-> "remove", i |-> i] \in Notice
    BY <1>0 DEF TypeOK, Notice
  <2>4. present' = left
    BY <1>3, Zenon DEF Unplug
  <2>5. /\ srvDefault' \in Device \cup {None}
        /\ on' \in [DOMAIN on' -> Device] /\ DOMAIN on' \subseteq Stream
        /\ toClient' \in Seq(Notice)
    <3>1. CASE rest = {}
      <4>1. PICK l \in Listings(moved) :
              Tell([n \in 1..Len(l) |-> [t |-> "close", s |-> l[n]]] \o <<[t |-> "remove", i |-> i]>>)
        BY <1>3, <3>1, Zenon DEF Unplug
      <4>2. moved \subseteq Stream
        BY Zenon DEF TypeOK
      <4>3. Len(l) \in Nat /\ \A n \in 1..Len(l) : l[n] \in Stream
        BY <4>2, ListingsOf, Zenon
      <4>4. [n \in 1..Len(l) |-> [t |-> "close", s |-> l[n]]] \in Seq(Notice)
        BY <4>3 DEF Notice
      <4>5. <<[t |-> "remove", i |-> i]>> \in Seq(Notice)
        BY <2>3
      <4>6. toClient' \in Seq(Notice)
        <5> DEFINE closes == [n \in 1..Len(l) |-> [t |-> "close", s |-> l[n]]]
                   last == <<[t |-> "remove", i |-> i]>>
        <5>1. closes \in Seq(Notice) /\ last \in Seq(Notice) /\ Tell(closes \o last)
          BY <4>1, <4>4, <4>5, Zenon
        <5> HIDE DEF closes, last
        <5>2. closes \o last \in Seq(Notice)
          BY <5>1
        <5>. QED  BY <5>1, <5>2, TellSends, Zenon
      <4>7. srvDefault' = None /\ on' = [s \in DOMAIN on \ moved |-> on[s]]
        BY <1>3, <3>1, Zenon DEF Unplug
      <4>. QED  BY <4>6, <4>7, Zenon DEF TypeOK
    <3>2. CASE rest # {}
      <4>1. PICK r \in rest :
              /\ srvDefault' = IF srvDefault = present[i] THEN r ELSE srvDefault
              /\ on' = [s \in DOMAIN on |-> IF s \in moved THEN r ELSE on[s]]
              /\ Tell(<<[t |-> "remove", i |-> i]>>)
        BY <1>3, <3>2, Zenon DEF Unplug
      <4>2. toClient' \in Seq(Notice)
        <5>1. <<[t |-> "remove", i |-> i]>> \in Seq(Notice)
          BY <2>3
        <5>. QED  BY <4>1, <5>1, TellSends, Zenon
      <4>. QED  BY <2>2, <4>1, <4>2, Zenon DEF TypeOK
    <3>. QED  BY <3>1, <3>2, Zenon
  <2>6. UNCHANGED <<side, termialType, status, sinks, sinkInputs, defaultSinkName, bHDMI,
                    inner, lapsed, subscribed, toServer>>
    BY <1>3, Zenon DEF Unplug
  <2>. QED  BY <1>0, <2>1, <2>2, <2>4, <2>5, <2>6 DEF TypeOK
<1>4. ASSUME NEW i \in DOMAIN present, Change(i)
      PROVE  TypeOK'
  <2>1. env' = [steps |-> env.steps + 1, last |-> env.last]
    BY <1>0, <1>4, Zenon DEF Change
  <2>2. <<[t |-> "new", i |-> i]>> \in Seq(Notice)
    BY <1>0 DEF Notice, TypeOK
  <2>3. toClient' \in Seq(Notice)
    BY <1>4, <2>2, TellSends, Zenon DEF Change
  <2>4. UNCHANGED <<side, termialType, status, sinks, sinkInputs, defaultSinkName, bHDMI,
                    inner, lapsed, subscribed, present, on, srvDefault, toServer>>
    BY <1>4, Zenon DEF Change
  <2>. QED  BY <1>0, <2>1, <2>3, <2>4 DEF TypeOK
<1>5. ASSUME NEW s \in Stream, Open(s) \/ Close(s)
      PROVE  TypeOK'
  <2>1. env' = [steps |-> env.steps + 1, last |-> env.last]
    BY <1>0, <1>5, Zenon DEF Open, Close
  <2>2. <<[t |-> "open", s |-> s]>> \in Seq(Notice) /\ <<[t |-> "close", s |-> s]>> \in Seq(Notice)
    BY DEF Notice
  <2>3. toClient' \in Seq(Notice)
    BY <1>5, <2>2, TellSends, Zenon DEF Open, Close
  <2>4. on' \in [DOMAIN on' -> Device] /\ DOMAIN on' \subseteq Stream
    <3>1. on \in [DOMAIN on -> Device] /\ DOMAIN on \subseteq Stream
      BY Zenon DEF TypeOK
    <3>2. CASE on' = With(on, s, srvDefault) /\ srvDefault \in Device
      BY <3>1, <3>2, Zenon DEF With
    <3>3. CASE on' = Without(on, s)
      BY <3>1, <3>3, Zenon DEF Without
    <3>. QED  BY <1>5, <3>2, <3>3, Zenon DEF Open, Close, TypeOK
  <2>. QED  BY <1>0, <1>5, <2>1, <2>3, <2>4 DEF Open, Close, TypeOK
<1>. QED  BY <1>1, <1>2, <1>3, <1>4, <1>5, Zenon DEF World

LEMMA ServeTypes ==
  ASSUME TypeOK, Serve
  PROVE  /\ TypeOK'
         /\ Head(toServer) \in Request /\ toServer # <<>> /\ toServer' = Tail(toServer)
         /\ \E a \in Answers(Head(toServer)) : toClient' = toClient \o a
<1> DEFINE m == Head(toServer)
<1> USE DEF setup, client
<1>1. m \in Request /\ toServer # <<>> /\ toServer' = Tail(toServer) /\ Tail(toServer) \in Seq(Request)
  BY HeadTail, Zenon DEF Serve, TypeOK
<1>2. PICK a \in Answers(m) : toClient' = toClient \o a
  BY Zenon DEF Serve
<1>3. a \in Seq(Notice)
  BY <1>1, <1>2, AnswersTold, Zenon
<1>4. toClient' \in Seq(Notice)
  BY <1>2, <1>3 DEF TypeOK
<1>5. srvDefault' \in Device \cup {None} /\ subscribed' \in BOOLEAN
  <2>1. m.t = "default" => m.d \in Device
    BY <1>1, RequestFields, Zenon
  <2>. QED  BY <2>1, Zenon DEF Serve, TypeOK
<1>6. on' \in [DOMAIN on' -> Device] /\ DOMAIN on' = DOMAIN on
  <2>1. Plugged(m.d) => m.d \in Device
    BY Zenon DEF Plugged, TypeOK
  <2>2. on \in [DOMAIN on -> Device]
    BY Zenon DEF TypeOK
  <2>3. CASE on' = [on EXCEPT ![m.s] = m.d] /\ Plugged(m.d)
    BY <2>1, <2>2, <2>3, Zenon
  <2>. QED  BY <2>2, <2>3, Zenon DEF Serve
<1>7. UNCHANGED <<side, termialType, status, sinks, sinkInputs, defaultSinkName, bHDMI,
                  inner, lapsed, present, env>>
  BY Zenon DEF Serve
<1>8. TypeOK'
  BY <1>1, <1>4, <1>5, <1>6, <1>7, Zenon DEF TypeOK
<1>. QED  BY <1>1, <1>2, <1>8, Zenon

-----------------------------------------------------------------------------
\* The three kinds of steps, as far as the copies are concerned.

\* A step of the world, and the events a about it: all that comes and goes is
\* told, and nothing else.
Told(a) ==
  /\ \A p \in DOMAIN a :
       \/ \E i \in DOMAIN present' : a[p] = [t |-> "new", i |-> i]
       \/ \E i \in DOMAIN present \ DOMAIN present' : a[p] = [t |-> "remove", i |-> i]
       \/ \E s \in DOMAIN on' : a[p] = [t |-> "open", s |-> s]
       \/ \E s \in DOMAIN on \ DOMAIN on' : a[p] = [t |-> "close", s |-> s]
  /\ \A i \in DOMAIN present \ DOMAIN present' : [t |-> "remove", i |-> i] \in Range(a)
  /\ \A i \in DOMAIN present' \ DOMAIN present : i \notin 1..env.last /\ [t |-> "new", i |-> i] \in Range(a)
  /\ \A s \in DOMAIN on \ DOMAIN on' : [t |-> "close", s |-> s] \in Range(a)
  /\ \A s \in DOMAIN on' \ DOMAIN on : [t |-> "open", s |-> s] \in Range(a)
  /\ \A i \in DOMAIN present \cap DOMAIN present' : present'[i] = present[i]
  /\ env.last <= env'.last

LEMMA RangeOne ==
  ASSUME NEW m
  PROVE  m \in Range(<<m>>) /\ DOMAIN <<m>> = {1} /\ <<m>>[1] = m
BY DEF Range

LEMMA RangePlace ==
  ASSUME NEW Msg, NEW q \in Seq(Msg), NEW m
  PROVE  m \in Range(q) <=> \E p \in DOMAIN q : q[p] = m
BY Zenon DEF Range

LEMMA WorldTells ==
  ASSUME TypeOK, World
  PROVE  \E a \in Seq(Notice), out \in Seq(Request) :
           /\ Tell(a) /\ Told(a) /\ toServer' = toServer \o out
           /\ UNCHANGED <<status, sinks, sinkInputs, inner, subscribed>>
           /\ out # <<>> => inner
<1> USE DEF setup, client, server
<1>0. /\ env.last \in Nat /\ DOMAIN present \subseteq 1..env.last
      /\ toServer \in Seq(Request) /\ toClient \in Seq(Notice)
      /\ <<>> \in Seq(Request) /\ <<>> \in Seq(Notice) /\ DOMAIN <<>> = {}
  BY DEF TypeOK
<1>a. toServer = toServer \o <<>> /\ toClient = toClient \o <<>>
  BY <1>0
<1>1. ASSUME NEW hdmi \in BOOLEAN, changeProfile(hdmi)
      PROVE  \E a \in Seq(Notice), out \in Seq(Request) :
               /\ Tell(a) /\ Told(a) /\ toServer' = toServer \o out
               /\ UNCHANGED <<status, sinks, sinkInputs, inner, subscribed>>
               /\ out # <<>> => inner
  <2>1. UNCHANGED <<status, sinks, sinkInputs, inner, subscribed, present, on, toClient>> /\ inner
    BY <1>1, Zenon DEF changeProfile
  <2>2. env'.last = env.last
    BY <1>1, Zenon DEF changeProfile, TypeOK
  <2>3. Tell(<<>>)
    BY <1>a, <2>1, Zenon DEF Tell
  <2>4. Told(<<>>)
    BY <1>0, <2>1, <2>2 DEF Told
  <2>5. \E out \in Seq(Request) : toServer' = toServer \o out
    <3>1. CASE autoDefault(sinks, hdmi)
      <4>1. DOMAIN sinks \subseteq 1..env.last /\ sinks \in [DOMAIN sinks -> Device]
        BY Zenon DEF TypeOK
      <4>. QED  BY <1>0, <3>1, <4>1, AutoDefaultSends, Zenon
    <3>2. CASE toServer' = toServer
      BY <1>0, <1>a, <3>2, Zenon
    <3>. QED  BY <1>1, <3>1, <3>2, Zenon DEF changeProfile
  <2>. QED  BY <1>0, <2>1, <2>3, <2>4, <2>5, Zenon
<1> DEFINE Still == UNCHANGED <<status, sinks, sinkInputs, inner, subscribed, toServer>>
<1>b. ASSUME NEW a \in Seq(Notice), Tell(a), Told(a), Still
      PROVE  \E e \in Seq(Notice), out \in Seq(Request) :
               /\ Tell(e) /\ Told(e) /\ toServer' = toServer \o out
               /\ UNCHANGED <<status, sinks, sinkInputs, inner, subscribed>>
               /\ out # <<>> => inner
  BY <1>0, <1>a, <1>b, Zenon
<1>2. ASSUME NEW d \in Device, Plug(d)
      PROVE  \E a \in Seq(Notice) : Tell(a) /\ Told(a) /\ Still
  <2> DEFINE i == env.last + 1
             a == <<[t |-> "new", i |-> i]>>
  <2>1. a \in Seq(Notice) /\ i \in Nat /\ i \notin 1..env.last
    BY <1>0 DEF Notice
  <2>2. Tell(a) /\ Still /\ on' = on /\ env'.last = i /\ present' = With(present, i, d)
    BY <1>2, Zenon DEF Plug
  <2>3. DOMAIN present' = DOMAIN present \cup {i} /\ \A j \in DOMAIN present : present'[j] = present[j]
    BY <1>0, <2>1, <2>2, Zenon DEF With
  <2>4. [t |-> "new", i |-> i] \in Range(a) /\ DOMAIN a = {1} /\ a[1] = [t |-> "new", i |-> i]
    BY RangeOne, Zenon
  <2>5. env.last <= env'.last
    BY <1>0, <2>2
  <2> HIDE DEF i, a
  <2>6. Told(a)
    BY <2>1, <2>2, <2>3, <2>4, <2>5, Zenon DEF Told
  <2>. QED  BY <2>1, <2>2, <2>6, Zenon
<1>3. ASSUME NEW i \in DOMAIN present, Unplug(i)
      PROVE  \E a \in Seq(Notice) : Tell(a) /\ Told(a) /\ Still
  <2> DEFINE gone == [t |-> "remove", i |-> i]
             rest == {Without(present, i)[j] : j \in DOMAIN Without(present, i)}
             moved == {s \in DOMAIN on : on[s] = present[i]}
  <2>1. Still /\ present' = Without(present, i)
    BY <1>3, Zenon DEF Unplug
  <2>2. env'.last = env.last
    BY <1>0, <1>3, Zenon DEF Unplug, TypeOK
  <2>3. DOMAIN present' = DOMAIN present \ {i} /\ \A j \in DOMAIN present' : present'[j] = present[j]
    BY <2>1, Zenon DEF Without
  <2>4. gone \in Notice /\ <<gone>> \in Seq(Notice) /\ env.last <= env'.last
    BY <1>0, <2>2 DEF Notice
  <2>5. gone \in Range(<<gone>>) /\ DOMAIN <<gone>> = {1} /\ <<gone>>[1] = gone
    BY RangeOne, Zenon
  <2>6. CASE rest = {}
    <3>1. PICK l \in Listings(moved) :
            Tell([n \in 1..Len(l) |-> [t |-> "close", s |-> l[n]]] \o <<gone>>)
      BY <1>3, <2>6, Zenon DEF Unplug
    <3>2. on' = [s \in DOMAIN on \ moved |-> on[s]]
      BY <1>3, <2>6, Zenon DEF Unplug
    <3>3. moved \subseteq Stream
      BY Zenon DEF TypeOK
    <3>4. Len(l) \in Nat /\ (\A n \in 1..Len(l) : l[n] \in moved)
            /\ \A s \in moved : \E n \in 1..Len(l) : l[n] = s
      <4> HIDE DEF moved
      <4>. QED  BY ListingsOf, Zenon
    <3>5. moved = DOMAIN on \ DOMAIN on' /\ DOMAIN on' \subseteq DOMAIN on
      BY <3>2, Zenon
    <3> DEFINE Ends(s) == [t |-> "close", s |-> s]
               c == [n \in 1..Len(l) |-> Ends(l[n])]
    <3>6. c \in Seq(Notice)
      BY <3>3, <3>4 DEF Notice
    <3>7. DOMAIN c = 1..Len(l) /\ \A n \in 1..Len(l) : c[n] = Ends(l[n])
      BY Zenon
    <3>8. Tell(c \o <<gone>>)
      BY <3>1, Zenon
    <3> HIDE DEF Ends, c, moved, gone
    <3>9. \A s \in moved : Ends(s) \in Range(c)
      BY <3>4, <3>6, <3>7, RangePlace, ZenonT(30)
    <3>10. c \o <<gone>> \in Seq(Notice)
      BY <2>4, <3>6
    <3>11. gone \in Range(c \o <<gone>>) /\ \A s \in moved : Ends(s) \in Range(c \o <<gone>>)
      BY <2>4, <2>5, <3>6, <3>9, RangeConcat, Zenon
    <3>12. \A p \in DOMAIN (c \o <<gone>>) :
             \/ (c \o <<gone>>)[p] = gone
             \/ \E s \in moved : (c \o <<gone>>)[p] = Ends(s)
      <4> SUFFICES ASSUME NEW p \in DOMAIN (c \o <<gone>>)
                   PROVE  \/ (c \o <<gone>>)[p] = gone
                          \/ \E s \in moved : (c \o <<gone>>)[p] = Ends(s)
        BY Zenon
      <4>1. \/ \E k \in DOMAIN c : (c \o <<gone>>)[p] = c[k]
            \/ \E k \in DOMAIN <<gone>> : (c \o <<gone>>)[p] = <<gone>>[k]
        BY <2>4, <3>6, ConcatMessages
      <4>2. \A k \in DOMAIN c : \E s \in moved : c[k] = Ends(s)
        BY <3>4, <3>7, ZenonT(30)
      <4>3. \A k \in DOMAIN <<gone>> : <<gone>>[k] = gone
        BY <2>5, Zenon
      <4>. QED  BY <4>1, <4>2, <4>3, Zenon
    <3> DEFINE a == c \o <<gone>>
    <3> HIDE DEF a
    <3>13. Told(a)
      <4>1. \A j \in DOMAIN present \ DOMAIN present' : j = i
        BY <2>3, Zenon
      <4>2. i \in DOMAIN present \ DOMAIN present' /\ DOMAIN present' \ DOMAIN present = {}
              /\ DOMAIN on' \ DOMAIN on = {}
        BY <2>3, <3>5, Zenon
      <4>. QED  BY <2>3, <2>4, <3>5, <3>11, <3>12, <4>1, <4>2, Zenon DEF Told, a, Ends, gone
    <3>. QED  BY <2>1, <3>8, <3>10, <3>13, Zenon DEF a
  <2>7. CASE rest # {}
    <3>1. DOMAIN on' = DOMAIN on /\ Tell(<<gone>>)
      BY <1>3, <2>7, Zenon DEF Unplug
    <3>2. Told(<<gone>>)
      BY <2>3, <2>4, <2>5, <3>1, Zenon DEF Told
    <3>. QED  BY <2>1, <2>4, <3>1, <3>2, Zenon
  <2>. QED  BY <2>6, <2>7, Zenon
<1>4. ASSUME NEW i \in DOMAIN present, Change(i)
      PROVE  \E a \in Seq(Notice) : Tell(a) /\ Told(a) /\ Still
  <2> DEFINE a == <<[t |-> "new", i |-> i]>>
  <2>1. a \in Seq(Notice)
    BY <1>0 DEF Notice
  <2>2. Tell(a) /\ Still /\ UNCHANGED <<present, on>>
    BY <1>4, Zenon DEF Change
  <2>3. env'.last = env.last
    BY <1>4, Zenon DEF Change, TypeOK
  <2>4. DOMAIN a = {1} /\ a[1] = [t |-> "new", i |-> i]
    BY RangeOne, Zenon
  <2> HIDE DEF a
  <2>5. Told(a)
    BY <1>0, <2>2, <2>3, <2>4 DEF Told
  <2>. QED  BY <2>1, <2>2, <2>5, Zenon
<1>5. ASSUME NEW s \in Stream, Open(s)
      PROVE  \E a \in Seq(Notice) : Tell(a) /\ Told(a) /\ Still
  <2> DEFINE a == <<[t |-> "open", s |-> s]>>
  <2>1. a \in Seq(Notice)
    BY DEF Notice
  <2>2. Tell(a) /\ Still /\ present' = present /\ on' = With(on, s, srvDefault)
    BY <1>5, Zenon DEF Open
  <2>3. env'.last = env.last /\ DOMAIN on' = DOMAIN on \cup {s}
    BY <1>5, <2>2, Zenon DEF Open, TypeOK, With
  <2>4. [t |-> "open", s |-> s] \in Range(a) /\ DOMAIN a = {1} /\ a[1] = [t |-> "open", s |-> s]
    BY RangeOne, Zenon
  <2> HIDE DEF a
  <2>5. Told(a)
    BY <1>0, <2>2, <2>3, <2>4 DEF Told
  <2>. QED  BY <2>1, <2>2, <2>5, Zenon
<1>6. ASSUME NEW s \in Stream, Close(s)
      PROVE  \E a \in Seq(Notice) : Tell(a) /\ Told(a) /\ Still
  <2> DEFINE a == <<[t |-> "close", s |-> s]>>
  <2>1. a \in Seq(Notice)
    BY DEF Notice
  <2>2. Tell(a) /\ Still /\ present' = present /\ on' = Without(on, s) /\ s \in DOMAIN on
    BY <1>6, Zenon DEF Close
  <2>3. env'.last = env.last /\ DOMAIN on' = DOMAIN on \ {s}
    BY <1>6, <2>2, Zenon DEF Close, TypeOK, Without
  <2>4. [t |-> "close", s |-> s] \in Range(a) /\ DOMAIN a = {1} /\ a[1] = [t |-> "close", s |-> s]
    BY RangeOne, Zenon
  <2> HIDE DEF a
  <2>5. Told(a)
    BY <1>0, <2>2, <2>3, <2>4 DEF Told
  <2>. QED  BY <2>1, <2>2, <2>5, Zenon
<1> HIDE DEF Still
<1>7. CASE \E a \in Seq(Notice) : Tell(a) /\ Told(a) /\ Still
  BY <1>b, <1>7, Zenon
<1>. QED  BY <1>1, <1>2, <1>3, <1>4, <1>5, <1>6, <1>7, Zenon DEF World

\* A step of the client that handles a message, and the requests it makes: the
\* message does to the copies what Held says, and an announcement is asked about.
Handled(out) ==
  LET h == Head(toClient) IN
  /\ toClient # <<>> /\ toClient' = Tail(toClient) /\ status = "ready"
  /\ toServer' = toServer \o out
  /\ UNCHANGED <<subscribed, present, on, env>>
  /\ \A s \in Stream : s \in sinkInputs' <=>
       h = StreamInfo(s) \/ (s \in sinkInputs /\ h # [t |-> "close", s |-> s])
  /\ \A i \in Nat : i \in DOMAIN sinks' <=>
       h \in [t : {"info"}, i : {i}, d : Device] \/ (i \in DOMAIN sinks /\ h # [t |-> "remove", i |-> i])
  /\ \A i \in DOMAIN sinks' :
       \/ i \in DOMAIN sinks /\ sinks'[i] = sinks[i]
       \/ h.t = "info" /\ h.i = i /\ h.d = sinks'[i]
  /\ \A s \in Stream : h = [t |-> "open", s |-> s] => [t |-> "input", s |-> s] \in Range(out)
  /\ \A i \in Nat : h = [t |-> "new", i |-> i] => [t |-> "sink", i |-> i] \in Range(out)
  /\ \A p \in DOMAIN out : out[p].t # "server"

LEMMA ClientHandles ==
  ASSUME TypeOK, NamesOK, Client, ~Ready
  PROVE  \E out \in Seq(Request) : Handled(out)
<1> DEFINE h == Head(toClient)
           Rest == UNCHANGED <<subscribed, present, on, env>>
           Sends(out) == toServer' = toServer \o out
<1> USE DEF setup, client, server
<1>0. /\ toServer \in Seq(Request) /\ env.last \in Nat
      /\ DOMAIN sinks \subseteq 1..env.last /\ sinks \in [DOMAIN sinks -> Device]
      /\ <<>> \in Seq(Request)
  BY DEF TypeOK
<1>a. toServer = toServer \o <<>>
  BY <1>0
<1>b. \A r \in Request : Append(toServer, r) = toServer \o <<r>> /\ <<r>> \in Seq(Request)
  BY <1>0
<1>c. ASSUME NEW type, Receive(type)
      PROVE  /\ h \in Notice /\ h.t = type
             /\ toClient # <<>> /\ toClient' = Tail(toClient) /\ status = "ready"
  BY <1>c, ReceiveTypes, Zenon
<1>1. CASE DeviceEvent
  <2> DEFINE r == [t |-> "sink", i |-> h.i]
  <2>1. /\ Receive("new") /\ Rest /\ UNCHANGED <<sinks, sinkInputs>>
        /\ toServer' = Append(toServer, r)
    BY <1>1, Zenon DEF DeviceEvent
  <2>2. h \in Notice /\ h.t = "new" /\ h.i \in Nat
    BY <1>c, <2>1, NoticeFields, Zenon
  <2>3. r \in Request
    BY <2>2, Zenon DEF Request
  <2>4. Sends(<<r>>) /\ <<r>> \in Seq(Request) /\ r \in Range(<<r>>)
    BY <1>b, <2>1, <2>3, RangeOne, Zenon
  <2>5. \A p \in DOMAIN <<r>> : <<r>>[p].t # "server"
    OBVIOUS
  <2>6. Handled(<<r>>)
    <3>1. \A s : h # StreamInfo(s) /\ h # [t |-> "close", s |-> s] /\ h # [t |-> "open", s |-> s]
      BY <2>2 DEF StreamInfo
    <3>2. \A i : h \notin [t : {"info"}, i : {i}, d : Device] /\ h # [t |-> "remove", i |-> i]
      BY <2>2
    <3>3. \A i : h = [t |-> "new", i |-> i] => [t |-> "sink", i |-> i] = r
      OBVIOUS
    <3> HIDE DEF r
    <3>. QED  BY <1>c, <2>1, <2>4, <2>5, <3>1, <3>2, <3>3, ZenonT(30) DEF Handled
  <2>. QED  BY <2>4, <2>6, Zenon
<1>2. CASE DeviceRemoved
  <2>1. /\ Receive("remove") /\ Rest /\ UNCHANGED sinkInputs
        /\ sinks' = Without(sinks, h.i) /\ autoDefault(Without(sinks, h.i), bHDMI)
    BY <1>2, Zenon DEF DeviceRemoved
  <2>2. h \in Notice /\ h.t = "remove" /\ h.i \in Nat /\ h = [t |-> "remove", i |-> h.i]
    BY <1>c, <2>1, NoticeFields, Zenon
  <2>3. /\ DOMAIN sinks' = DOMAIN sinks \ {h.i} /\ sinks' \in [DOMAIN sinks' -> Device]
        /\ \A i \in DOMAIN sinks' : sinks'[i] = sinks[i]
    BY <1>0, <2>1, Zenon DEF Without
  <2>4. PICK out \in Seq(Request) : Sends(out) /\ \A p \in DOMAIN out : out[p].t # "server"
    <3>1. DOMAIN Without(sinks, h.i) \subseteq 1..env.last
            /\ Without(sinks, h.i) \in [DOMAIN Without(sinks, h.i) -> Device]
      BY <1>0, <2>1, <2>3, Zenon
    <3>2. \E out \in Seq(Request) :
            Sends(out) /\ \A p \in DOMAIN out : out[p].t \in {"default", "move"}
      BY <1>0, <2>1, <3>1, AutoDefaultSends, Zenon
    <3>. QED  BY <3>2, Zenon
  <2>5. \A i \in Nat : i \in DOMAIN sinks' <=>
          h \in [t : {"info"}, i : {i}, d : Device] \/ (i \in DOMAIN sinks /\ h # [t |-> "remove", i |-> i])
    BY <2>2, <2>3
  <2>6. Handled(out)
    BY <1>c, <2>1, <2>2, <2>3, <2>4, <2>5 DEF Handled, StreamInfo
  <2>. QED  BY <2>6, Zenon
<1>3. CASE StreamEvent
  <2> DEFINE r == [t |-> "input", s |-> h.s]
  <2>1. /\ Receive("open") /\ Rest /\ UNCHANGED <<sinks, sinkInputs>>
        /\ toServer' = Append(toServer, r)
    BY <1>3, Zenon DEF StreamEvent
  <2>2. h \in Notice /\ h.t = "open" /\ h.s \in Stream
    BY <1>c, <2>1, NoticeFields, Zenon
  <2>3. r \in Request
    BY <2>2, Zenon DEF Request
  <2>4. Sends(<<r>>) /\ <<r>> \in Seq(Request) /\ r \in Range(<<r>>)
    BY <1>b, <2>1, <2>3, RangeOne, Zenon
  <2>5. \A p \in DOMAIN <<r>> : <<r>>[p].t # "server"
    OBVIOUS
  <2>6. Handled(<<r>>)
    BY <1>c, <2>1, <2>2, <2>4, <2>5 DEF Handled, StreamInfo
  <2>. QED  BY <2>4, <2>6, Zenon
<1>4. CASE StreamRemoved
  <2>1. /\ Receive("close") /\ Rest /\ UNCHANGED <<sinks, toServer>>
        /\ sinkInputs' = sinkInputs \ {h.s}
    BY <1>4, Zenon DEF StreamRemoved
  <2>2. h \in Notice /\ h.t = "close" /\ h.s \in Stream /\ h = [t |-> "close", s |-> h.s]
    BY <1>c, <2>1, NoticeFields, Zenon
  <2>3. Sends(<<>>)
    BY <1>a, <2>1, Zenon
  <2>4. Handled(<<>>)
    BY <1>c, <2>1, <2>2, <2>3 DEF Handled, StreamInfo
  <2>. QED  BY <1>0, <2>4, Zenon
<1>5. CASE updateSink
  <2>1. /\ Receive("info") /\ Rest /\ UNCHANGED sinkInputs
        /\ sinks' = With(sinks, h.i, h.d) /\ autoDefault(With(sinks, h.i, h.d), bHDMI)
    BY <1>5, Zenon DEF updateSink
  <2>2. /\ h \in Notice /\ h.t = "info" /\ h.i \in Nat /\ h.d \in Device
        /\ h = [t |-> "info", i |-> h.i, d |-> h.d] /\ h.i \in 1..env.last
    BY <1>c, <2>1, ReceiveTypes, NoticeFields, Zenon DEF NamesOK, Truthful
  <2>3. /\ DOMAIN sinks' = DOMAIN sinks \cup {h.i} /\ sinks' \in [DOMAIN sinks' -> Device]
        /\ sinks'[h.i] = h.d /\ \A i \in DOMAIN sinks' \ {h.i} : sinks'[i] = sinks[i]
    BY <1>0, <2>1, <2>2, Zenon DEF With
  <2>4. PICK out \in Seq(Request) : Sends(out) /\ \A p \in DOMAIN out : out[p].t # "server"
    <3>1. DOMAIN With(sinks, h.i, h.d) \subseteq 1..env.last
            /\ With(sinks, h.i, h.d) \in [DOMAIN With(sinks, h.i, h.d) -> Device]
      BY <1>0, <2>1, <2>2, <2>3, Zenon
    <3>2. \E out \in Seq(Request) :
            Sends(out) /\ \A p \in DOMAIN out : out[p].t \in {"default", "move"}
      BY <1>0, <2>1, <3>1, AutoDefaultSends, Zenon
    <3>. QED  BY <3>2, Zenon
  <2>5. \A i \in Nat : i \in DOMAIN sinks' <=>
          h \in [t : {"info"}, i : {i}, d : Device] \/ (i \in DOMAIN sinks /\ h # [t |-> "remove", i |-> i])
    BY <2>2, <2>3
  <2>6. Handled(out)
    BY <1>c, <2>1, <2>2, <2>3, <2>4, <2>5 DEF Handled, StreamInfo
  <2>. QED  BY <2>6, Zenon
<1>6. CASE updateSinkInput
  <2> DEFINE r == Move(h.s, defaultSinkName)
  <2>1. /\ Receive("stream") /\ Rest /\ UNCHANGED sinks
        /\ sinkInputs' = sinkInputs \cup {h.s} /\ toServer' = Append(toServer, r)
    BY <1>6, Zenon DEF updateSinkInput
  <2>2. h \in Notice /\ h.t = "stream" /\ h.s \in Stream /\ h = StreamInfo(h.s)
    BY <1>c, <2>1, NoticeFields, Zenon DEF StreamInfo
  <2>3. r \in Request
    BY <2>2, Zenon DEF Request, Move, TypeOK
  <2>4. Sends(<<r>>) /\ <<r>> \in Seq(Request)
    BY <1>b, <2>1, <2>3, Zenon
  <2>5. \A p \in DOMAIN <<r>> : <<r>>[p].t # "server"
    BY DEF Move
  <2>6. Handled(<<r>>)
    BY <1>c, <2>1, <2>2, <2>4, <2>5 DEF Handled, StreamInfo
  <2>. QED  BY <2>4, <2>6, Zenon
<1>7. CASE updateServer
  <2>1. Receive("server") /\ Rest /\ UNCHANGED <<sinks, sinkInputs, toServer>>
    BY <1>7, Zenon DEF updateServer
  <2>2. h \in Notice /\ h.t = "server"
    BY <1>c, <2>1, Zenon
  <2>3. Sends(<<>>)
    BY <1>a, <2>1, Zenon
  <2>4. Handled(<<>>)
    BY <1>c, <2>1, <2>2, <2>3 DEF Handled, StreamInfo
  <2>. QED  BY <1>0, <2>4, Zenon
<1>. QED  BY <1>1, <1>2, <1>3, <1>4, <1>5, <1>6, <1>7, Zenon DEF Client

-----------------------------------------------------------------------------
\* The copies follow the server.

LEMMA HelloAsks ==
  [t |-> "sinks"] \in Range(Hello) /\ [t |-> "inputs"] \in Range(Hello)
<1>1. DOMAIN Hello = 1..4 /\ Hello[3] = [t |-> "sinks"] /\ Hello[4] = [t |-> "inputs"]
  BY DEF Hello
<1>2. 3 \in 1..4 /\ 4 \in 1..4
  OBVIOUS
<1>. QED  BY <1>1, <1>2, Zenon DEF Range

LEMMA StreamsWorld ==
  ASSUME TypeOK, SessionOK, StreamsOK, NEW a \in Seq(Notice), NEW out \in Seq(Request),
         Tell(a), Told(a), toServer' = toServer \o out,
         UNCHANGED <<status, sinkInputs>>
  PROVE  StreamsOK'
<1> SUFFICES ASSUME NEW s \in Stream
             PROVE  /\ StreamHeld(s)' => s \in DOMAIN on'
                    /\ status # "start" /\ s \in DOMAIN on' =>
                         \/ StreamHeld(s)' \/ [t |-> "open", s |-> s] \in Range(toClient')
                         \/ [t |-> "input", s |-> s] \in Range(toServer')
                         \/ [t |-> "inputs"] \in Range(toServer')
  BY Zenon DEF StreamsOK
<1> DEFINE adds == {StreamInfo(s)}
           drops == {[t |-> "close", s |-> s]}
           now == s \in sinkInputs
<1>1. /\ toServer \in Seq(Request) /\ toClient \in Seq(Notice)
      /\ StreamHeld(s) <=> Held(toClient, now, adds, drops)
      /\ StreamHeld(s)' <=> Held(toClient', now, adds, drops)
  BY Zenon DEF TypeOK, StreamHeld
<1>2. \A m : m \in Range(toServer) => m \in Range(toServer')
  BY <1>1, RangeConcat, Zenon
<1>3. CASE subscribed
  <2>1. toClient' = toClient \o a
    BY <1>3, Zenon DEF Tell
  <2>2. \A m : m \in Range(toClient') <=> m \in Range(toClient) \/ m \in Range(a)
    BY <1>1, <2>1, RangeConcat, Zenon
  <2>3. \A p \in DOMAIN a : a[p] \notin adds
    BY DEF Told, StreamInfo
  <2>4. s \in DOMAIN on' => \A p \in DOMAIN a : a[p] \notin drops
    BY DEF Told
  <2>5. s \in DOMAIN on /\ ~(s \in DOMAIN on') => \E p \in DOMAIN a : a[p] \in drops
    <3> DEFINE c == [t |-> "close", s |-> s]
    <3>1. s \in DOMAIN on /\ ~(s \in DOMAIN on') => c \in Range(a)
      BY Zenon DEF Told
    <3>2. c \in Range(a) => \E p \in DOMAIN a : a[p] = c
      <4> HIDE DEF c
      <4>. QED  BY RangePlace, Zenon
    <3>. QED  BY <3>1, <3>2, Zenon
  <2>6. StreamHeld(s) => s \in DOMAIN on
    BY Zenon DEF StreamsOK
  <2> HIDE DEF adds, drops, now
  <2>7. /\ StreamHeld(s)' => s \in DOMAIN on'
        /\ s \in DOMAIN on' /\ StreamHeld(s) => StreamHeld(s)'
    BY <1>1, <2>1, <2>3, <2>4, <2>5, <2>6, HeldTold, Zenon
  <2>8. CASE s \in DOMAIN on' /\ s \notin DOMAIN on
    <3>1. [t |-> "open", s |-> s] \in Range(a)
      BY <2>8, Zenon DEF Told
    <3>. QED  BY <2>2, <2>7, <3>1, Zenon
  <2>9. CASE s \in DOMAIN on' => s \in DOMAIN on
    BY <1>2, <2>2, <2>7, <2>9, Zenon DEF StreamsOK
  <2>. QED  BY <2>8, <2>9, Zenon
<1>4. CASE ~subscribed
  <2>1. toClient' = <<>> /\ ~now
    BY <1>4, Zenon DEF Tell, SessionOK
  <2>2. ~StreamHeld(s)'
    <3>1. DOMAIN toClient' = {}
      BY <2>1
    <3> HIDE DEF adds, drops, now
    <3>. QED  BY <1>1, <2>1, <3>1, Zenon DEF Held
  <2>3. status # "start" => [t |-> "inputs"] \in Range(toServer)
    BY <1>4, HelloAsks, Zenon DEF SessionOK
  <2>. QED  BY <1>2, <2>2, <2>3, Zenon
<1>. QED  BY <1>3, <1>4, Zenon

LEMMA StreamsClient ==
  ASSUME TypeOK, StreamsOK, NEW out \in Seq(Request), Handled(out)
  PROVE  StreamsOK'
<1> SUFFICES ASSUME NEW s \in Stream
             PROVE  /\ StreamHeld(s)' => s \in DOMAIN on
                    /\ s \in DOMAIN on =>
                         \/ StreamHeld(s)' \/ [t |-> "open", s |-> s] \in Range(toClient')
                         \/ [t |-> "input", s |-> s] \in Range(toServer')
                         \/ [t |-> "inputs"] \in Range(toServer')
  BY Zenon DEF StreamsOK, Handled
<1> DEFINE adds == {StreamInfo(s)}
           drops == {[t |-> "close", s |-> s]}
           h == Head(toClient)
           now == s \in sinkInputs
           next == s \in sinkInputs'
<1>1. /\ toServer \in Seq(Request) /\ toClient \in Seq(Notice) /\ toClient # <<>>
      /\ toClient' = Tail(toClient) /\ toServer' = toServer \o out /\ status = "ready"
      /\ next <=> h \in adds \/ (now /\ h \notin drops)
  BY Zenon DEF TypeOK, Handled
<1>2. /\ StreamHeld(s) <=> Held(toClient, now, adds, drops)
      /\ StreamHeld(s)' <=> Held(Tail(toClient), next, adds, drops)
  BY <1>1, Zenon DEF StreamHeld
<1>3. \A m : m \in Range(toServer') <=> m \in Range(toServer) \/ m \in Range(out)
  BY <1>1, RangeConcat, Zenon
<1>4. \A m : m \in Range(toClient) <=> h = m \/ m \in Range(toClient')
  BY <1>1, RangeTail, Zenon
<1>5. h = [t |-> "open", s |-> s] => [t |-> "input", s |-> s] \in Range(out)
  BY Zenon DEF Handled
<1>6. StreamHeld(s)' <=> StreamHeld(s)
  <2> HIDE DEF adds, drops, now, next, h
  <2>. QED  BY <1>1, <1>2, HeldTail, Zenon DEF h
<1>7. /\ StreamHeld(s) => s \in DOMAIN on
      /\ s \in DOMAIN on => 
           \/ StreamHeld(s) \/ [t |-> "open", s |-> s] \in Range(toClient)
           \/ [t |-> "input", s |-> s] \in Range(toServer) \/ [t |-> "inputs"] \in Range(toServer)
  BY <1>1, Zenon DEF StreamsOK
<1> HIDE DEF h
<1>. QED  BY <1>3, <1>4, <1>5, <1>6, <1>7, Zenon

LEMMA StreamsServe ==
  ASSUME TypeOK, StreamsOK, SessionOK, Serve
  PROVE  StreamsOK'
<1> DEFINE m == Head(toServer)
<1>1. /\ m \in Request /\ toServer # <<>> /\ toServer' = Tail(toServer)
      /\ toServer \in Seq(Request) /\ toClient \in Seq(Notice)
      /\ UNCHANGED <<status, sinkInputs>> /\ DOMAIN on' = DOMAIN on
  BY ServeTypes, Zenon DEF Serve, client, TypeOK
<1>2. PICK a \in Answers(m) : toClient' = toClient \o a
  BY ServeTypes, Zenon
<1>3. a \in Seq(Notice)
  BY <1>1, <1>2, AnswersTold, Zenon
<1> SUFFICES ASSUME NEW s \in Stream
             PROVE  /\ StreamHeld(s)' => s \in DOMAIN on
                    /\ status # "start" /\ s \in DOMAIN on =>
                         \/ StreamHeld(s)' \/ [t |-> "open", s |-> s] \in Range(toClient')
                         \/ [t |-> "input", s |-> s] \in Range(toServer')
                         \/ [t |-> "inputs"] \in Range(toServer')
  BY <1>1, Zenon DEF StreamsOK
<1> DEFINE adds == {StreamInfo(s)}
           drops == {[t |-> "close", s |-> s]}
           now == s \in sinkInputs
<1>4. /\ StreamHeld(s) <=> Held(toClient, now, adds, drops)
      /\ StreamHeld(s)' <=> Held(toClient \o a, now, adds, drops)
  BY <1>1, <1>2, Zenon DEF StreamHeld
<1>5. /\ StreamHeld(s) => s \in DOMAIN on
      /\ status # "start" /\ s \in DOMAIN on => 
           \/ StreamHeld(s) \/ [t |-> "open", s |-> s] \in Range(toClient)
           \/ [t |-> "input", s |-> s] \in Range(toServer) \/ [t |-> "inputs"] \in Range(toServer)
  BY Zenon DEF StreamsOK
<1>6. \A p \in DOMAIN a :
        \/ m.t \in {"sink", "sinks"} /\ \E i \in DOMAIN present : a[p] = Info(i)
        \/ m.t \in {"input", "inputs"} /\ \E x \in DOMAIN on : a[p] = StreamInfo(x)
        \/ m.t = "server" /\ a[p] = [t |-> "server", d |-> srvDefault]
  BY <1>1, <1>2, AnswersTold, Zenon
<1>7. s \in DOMAIN on /\ (m = [t |-> "inputs"] \/ m = [t |-> "input", s |-> s]) =>
        \E p \in DOMAIN a : a[p] \in adds
  <2>1. s \in DOMAIN on /\ (m.t = "inputs" \/ m = [t |-> "input", s |-> s]) =>
          \E p \in DOMAIN a : a[p] = StreamInfo(s)
    <3>1. \A x \in DOMAIN on : m.t = "inputs" \/ m = [t |-> "input", s |-> x] =>
            \E p \in DOMAIN a : a[p] = StreamInfo(x)
      <4> HIDE DEF m
      <4>. QED  BY <1>1, <1>2, AnswersAll, Zenon
    <3> HIDE DEF m
    <3>. QED  BY <3>1, Zenon
  <2>2. m = [t |-> "inputs"] => m.t = "inputs"
    OBVIOUS
  <2>. QED  BY <2>1, <2>2, Zenon
<1>8. /\ \A p \in DOMAIN a : a[p] \notin drops
      /\ (\E p \in DOMAIN a : a[p] \in adds) => s \in DOMAIN on
  BY <1>6 DEF Info, StreamInfo
<1>9. /\ StreamHeld(s)' => s \in DOMAIN on
      /\ (\E p \in DOMAIN a : a[p] \in adds) \/ StreamHeld(s) => StreamHeld(s)'
  <2> HIDE DEF adds, drops, now
  <2>. QED  BY <1>1, <1>3, <1>4, <1>5, <1>8, HeldAnswered, Zenon
<1>10. \A x : x \in Range(toClient) => x \in Range(toClient')
  BY <1>1, <1>2, <1>3, RangeConcat, Zenon
<1>11. \A x : x \in Range(toServer) <=> m = x \/ x \in Range(toServer')
  BY <1>1, RangeTail, Zenon
<1> HIDE DEF m, adds
<1>. QED  BY <1>5, <1>7, <1>9, <1>10, <1>11, Zenon
\* An index that was not used yet is not heard of.
LEMMA DeviceKnown ==
  ASSUME TypeOK, NamesOK, NEW i \in Nat, DeviceHeld(i)
  PROVE  i \in 1..env.last
<1>1. CASE \E p \in DOMAIN toClient : toClient[p] \in [t : {"info"}, i : {i}, d : Device]
  BY <1>1, Zenon DEF NamesOK, Truthful
<1>2. CASE i \in DOMAIN sinks
  BY <1>2, Zenon DEF TypeOK
<1>. QED  BY <1>1, <1>2, Zenon DEF DeviceHeld, Held

LEMMA DevicesWorld ==
  ASSUME TypeOK, SessionOK, DevicesOK, NamesOK, NEW a \in Seq(Notice), NEW out \in Seq(Request),
         Tell(a), Told(a), toServer' = toServer \o out,
         UNCHANGED <<status, sinks>>
  PROVE  DevicesOK'
<1> SUFFICES ASSUME NEW i \in 1..env'.last
             PROVE  /\ DeviceHeld(i)' => i \in DOMAIN present'
                    /\ status # "start" /\ i \in DOMAIN present' =>
                         \/ DeviceHeld(i)' \/ [t |-> "new", i |-> i] \in Range(toClient')
                         \/ [t |-> "sink", i |-> i] \in Range(toServer')
                         \/ [t |-> "sinks"] \in Range(toServer')
  BY Zenon DEF DevicesOK
<1> DEFINE adds == [t : {"info"}, i : {i}, d : Device]
           drops == {[t |-> "remove", i |-> i]}
           now == i \in DOMAIN sinks
<1>1. /\ toServer \in Seq(Request) /\ toClient \in Seq(Notice)
      /\ DeviceHeld(i) <=> Held(toClient, now, adds, drops)
      /\ DeviceHeld(i)' <=> Held(toClient', now, adds, drops)
  BY Zenon DEF TypeOK, DeviceHeld
<1>2. \A m : m \in Range(toServer) => m \in Range(toServer')
  BY <1>1, RangeConcat, Zenon
<1>3. CASE subscribed
  <2>1. toClient' = toClient \o a
    BY <1>3, Zenon DEF Tell
  <2>2. \A m : m \in Range(toClient') <=> m \in Range(toClient) \/ m \in Range(a)
    BY <1>1, <2>1, RangeConcat, Zenon
  <2>3. \A p \in DOMAIN a : a[p] \notin adds
    BY DEF Told
  <2>4. i \in DOMAIN present' => \A p \in DOMAIN a : a[p] \notin drops
    BY DEF Told
  <2>5. i \in DOMAIN present /\ ~(i \in DOMAIN present') => \E p \in DOMAIN a : a[p] \in drops
    <3> DEFINE c == [t |-> "remove", i |-> i]
    <3>1. i \in DOMAIN present /\ ~(i \in DOMAIN present') => c \in Range(a)
      BY Zenon DEF Told
    <3>2. c \in Range(a) => \E p \in DOMAIN a : a[p] = c
      <4> HIDE DEF c
      <4>. QED  BY RangePlace, Zenon
    <3>. QED  BY <3>1, <3>2, Zenon
  <2>6. DeviceHeld(i) => i \in DOMAIN present
    <3>1. i \in Nat /\ DOMAIN present \subseteq 1..env.last
      BY DEF TypeOK
    <3>. QED  BY <3>1, DeviceKnown, Zenon DEF DevicesOK
  <2> HIDE DEF adds, drops, now
  <2>7. /\ DeviceHeld(i)' => i \in DOMAIN present'
        /\ i \in DOMAIN present' /\ DeviceHeld(i) => DeviceHeld(i)'
    BY <1>1, <2>1, <2>3, <2>4, <2>5, <2>6, HeldTold, ZenonT(30)
  <2>8. CASE i \in DOMAIN present' /\ i \notin DOMAIN present
    <3>1. [t |-> "new", i |-> i] \in Range(a)
      BY <2>8, Zenon DEF Told
    <3>. QED  BY <2>2, <2>7, <3>1, Zenon
  <2>9. CASE i \in DOMAIN present' => i \in DOMAIN present
    <3>1. DOMAIN present \subseteq 1..env.last
      BY Zenon DEF TypeOK
    <3>. QED  BY <1>2, <2>2, <2>7, <2>9, <3>1, Zenon DEF DevicesOK
  <2>. QED  BY <2>8, <2>9, Zenon
<1>4. CASE ~subscribed
  <2>1. toClient' = <<>> /\ ~now
    BY <1>4 DEF Tell, SessionOK
  <2>2. ~DeviceHeld(i)'
    <3>1. DOMAIN toClient' = {}
      BY <2>1
    <3> HIDE DEF adds, drops, now
    <3>. QED  BY <1>1, <2>1, <3>1, Zenon DEF Held
  <2>3. status # "start" => [t |-> "sinks"] \in Range(toServer)
    BY <1>4, HelloAsks, Zenon DEF SessionOK
  <2>. QED  BY <1>2, <2>2, <2>3, Zenon
<1>. QED  BY <1>3, <1>4, Zenon

LEMMA DevicesClient ==
  ASSUME TypeOK, DevicesOK, NEW out \in Seq(Request), Handled(out)
  PROVE  DevicesOK'
<1> SUFFICES ASSUME NEW i \in 1..env.last
             PROVE  /\ DeviceHeld(i)' => i \in DOMAIN present
                    /\ i \in DOMAIN present =>
                         \/ DeviceHeld(i)' \/ [t |-> "new", i |-> i] \in Range(toClient')
                         \/ [t |-> "sink", i |-> i] \in Range(toServer')
                         \/ [t |-> "sinks"] \in Range(toServer')
  BY Zenon DEF DevicesOK, Handled
<1> DEFINE adds == [t : {"info"}, i : {i}, d : Device]
           drops == {[t |-> "remove", i |-> i]}
           h == Head(toClient)
           now == i \in DOMAIN sinks
           next == i \in DOMAIN sinks'
<1>1. /\ toServer \in Seq(Request) /\ toClient \in Seq(Notice) /\ toClient # <<>>
      /\ toClient' = Tail(toClient) /\ toServer' = toServer \o out /\ status = "ready"
      /\ next <=> h \in adds \/ (now /\ h \notin drops)
  <2>1. i \in Nat
    BY DEF TypeOK
  <2>. QED  BY <2>1, Zenon DEF TypeOK, Handled
<1>2. /\ DeviceHeld(i) <=> Held(toClient, now, adds, drops)
      /\ DeviceHeld(i)' <=> Held(Tail(toClient), next, adds, drops)
  BY <1>1, Zenon DEF DeviceHeld
<1>3. \A m : m \in Range(toServer') <=> m \in Range(toServer) \/ m \in Range(out)
  BY <1>1, RangeConcat, Zenon
<1>4. \A m : m \in Range(toClient) <=> h = m \/ m \in Range(toClient')
  BY <1>1, RangeTail, Zenon
<1>5. h = [t |-> "new", i |-> i] => [t |-> "sink", i |-> i] \in Range(out)
  <2>1. i \in Nat
    BY DEF TypeOK
  <2>. QED  BY <2>1, Zenon DEF Handled
<1>6. DeviceHeld(i)' <=> DeviceHeld(i)
  <2> HIDE DEF adds, drops, now, next, h
  <2>. QED  BY <1>1, <1>2, HeldTail, Zenon DEF h
<1>7. /\ DeviceHeld(i) => i \in DOMAIN present
      /\ i \in DOMAIN present => 
           \/ DeviceHeld(i) \/ [t |-> "new", i |-> i] \in Range(toClient)
           \/ [t |-> "sink", i |-> i] \in Range(toServer) \/ [t |-> "sinks"] \in Range(toServer)
  BY <1>1, Zenon DEF DevicesOK
<1> HIDE DEF h
<1>. QED  BY <1>3, <1>4, <1>5, <1>6, <1>7, Zenon

LEMMA DevicesServe ==
  ASSUME TypeOK, DevicesOK, SessionOK, Serve
  PROVE  DevicesOK'
<1> DEFINE m == Head(toServer)
<1>1. /\ m \in Request /\ toServer # <<>> /\ toServer' = Tail(toServer)
      /\ toServer \in Seq(Request) /\ toClient \in Seq(Notice)
      /\ UNCHANGED <<status, sinks, present, env>>
  BY ServeTypes, Zenon DEF Serve, client, TypeOK
<1>2. PICK a \in Answers(m) : toClient' = toClient \o a
  BY ServeTypes, Zenon
<1>3. a \in Seq(Notice)
  BY <1>1, <1>2, AnswersTold, Zenon
<1> SUFFICES ASSUME NEW i \in 1..env.last
             PROVE  /\ DeviceHeld(i)' => i \in DOMAIN present
                    /\ status # "start" /\ i \in DOMAIN present =>
                         \/ DeviceHeld(i)' \/ [t |-> "new", i |-> i] \in Range(toClient')
                         \/ [t |-> "sink", i |-> i] \in Range(toServer')
                         \/ [t |-> "sinks"] \in Range(toServer')
  BY <1>1, Zenon DEF DevicesOK
<1> DEFINE adds == [t : {"info"}, i : {i}, d : Device]
           drops == {[t |-> "remove", i |-> i]}
           now == i \in DOMAIN sinks
<1>4. /\ DeviceHeld(i) <=> Held(toClient, now, adds, drops)
      /\ DeviceHeld(i)' <=> Held(toClient \o a, now, adds, drops)
  BY <1>1, <1>2, Zenon DEF DeviceHeld
<1>5. /\ DeviceHeld(i) => i \in DOMAIN present
      /\ status # "start" /\ i \in DOMAIN present => 
           \/ DeviceHeld(i) \/ [t |-> "new", i |-> i] \in Range(toClient)
           \/ [t |-> "sink", i |-> i] \in Range(toServer) \/ [t |-> "sinks"] \in Range(toServer)
  BY Zenon DEF DevicesOK
<1>6. \A p \in DOMAIN a :
        \/ m.t \in {"sink", "sinks"} /\ \E x \in DOMAIN present : a[p] = Info(x)
        \/ m.t \in {"input", "inputs"} /\ \E x \in DOMAIN on : a[p] = StreamInfo(x)
        \/ m.t = "server" /\ a[p] = [t |-> "server", d |-> srvDefault]
  BY <1>1, <1>2, AnswersTold, Zenon
<1>7. i \in DOMAIN present /\ (m = [t |-> "sinks"] \/ m = [t |-> "sink", i |-> i]) =>
        \E p \in DOMAIN a : a[p] \in adds
  <2>1. i \in DOMAIN present /\ (m.t = "sinks" \/ m = [t |-> "sink", i |-> i]) =>
          \E p \in DOMAIN a : a[p] = Info(i)
    <3>1. \A x \in DOMAIN present : m.t = "sinks" \/ m = [t |-> "sink", i |-> x] =>
            \E p \in DOMAIN a : a[p] = Info(x)
      <4> HIDE DEF m
      <4>. QED  BY <1>1, <1>2, AnswersAll, Zenon
    <3> HIDE DEF m
    <3>. QED  BY <3>1, Zenon
  <2>2. m = [t |-> "sinks"] => m.t = "sinks"
    OBVIOUS
  <2>3. i \in DOMAIN present => Info(i) \in adds
    BY Zenon DEF Info, TypeOK
  <2>. QED  BY <2>1, <2>2, <2>3, Zenon
<1>8. /\ \A p \in DOMAIN a : a[p] \notin drops
      /\ (\E p \in DOMAIN a : a[p] \in adds) => i \in DOMAIN present
  BY <1>6 DEF Info, StreamInfo
<1>9. /\ DeviceHeld(i)' => i \in DOMAIN present
      /\ (\E p \in DOMAIN a : a[p] \in adds) \/ DeviceHeld(i) => DeviceHeld(i)'
  <2> HIDE DEF adds, drops, now
  <2>. QED  BY <1>1, <1>3, <1>4, <1>5, <1>8, HeldAnswered, Zenon
<1>10. \A x : x \in Range(toClient) => x \in Range(toClient')
  BY <1>1, <1>2, <1>3, RangeConcat, Zenon
<1>11. \A x : x \in Range(toServer) <=> m = x \/ x \in Range(toServer')
  BY <1>1, RangeTail, Zenon
<1> HIDE DEF m, adds
<1>. QED  BY <1>5, <1>7, <1>9, <1>10, <1>11, Zenon

LEMMA NamesWorld ==
  ASSUME TypeOK, NamesOK, NEW a \in Seq(Notice), Tell(a), Told(a), UNCHANGED sinks, TypeOK'
  PROVE  NamesOK'
<1>1. /\ env.last \in Nat /\ env'.last \in Nat /\ env.last <= env'.last
      /\ DOMAIN sinks \subseteq 1..env.last /\ DOMAIN present' \subseteq 1..env'.last
      /\ DOMAIN present \subseteq 1..env.last /\ toClient \in Seq(Notice)
  BY Zenon DEF TypeOK, Told
<1>2. \A i \in 1..env.last : i \in DOMAIN present' => i \in DOMAIN present /\ present'[i] = present[i]
  BY Zenon DEF Told
<1>3. \A i \in DOMAIN sinks' \cap DOMAIN present' : sinks'[i] = present'[i]
  BY <1>1, <1>2, Zenon DEF NamesOK
<1> DEFINE Fine(m) ==
             /\ m.t \in {"new", "remove", "info"} => m.i \in 1..env'.last
             /\ m.t = "info" /\ m.i \in DOMAIN present' => m.d = present'[m.i]
<1>4. ASSUME NEW k \in DOMAIN toClient
      PROVE  Fine(toClient[k])
  <2>1. Truthful(toClient[k])
    BY Zenon DEF NamesOK
  <2>2. \A x \in 1..env.last : x \in 1..env'.last
    BY <1>1, SMTT(20)
  <2>. QED  BY <1>2, <2>1, <2>2, Zenon DEF Truthful
<1>5. ASSUME NEW p \in DOMAIN a PROVE Fine(a[p])
  <2>1. CASE \E i \in DOMAIN present' : a[p] = [t |-> "new", i |-> i]
    BY <1>1, <2>1
  <2>2. CASE \E i \in DOMAIN present \ DOMAIN present' : a[p] = [t |-> "remove", i |-> i]
    BY <1>1, <2>2
  <2>3. CASE \E s : a[p] = [t |-> "open", s |-> s] \/ a[p] = [t |-> "close", s |-> s]
    BY <2>3
  <2> HIDE DEF Fine
  <2>. QED  BY <2>1, <2>2, <2>3, Zenon DEF Told
<1>6. toClient' = toClient \o a \/ toClient' = toClient
  BY Zenon DEF Tell
<1>7. ASSUME NEW p \in DOMAIN toClient'
      PROVE  Fine(toClient'[p])
  <2> HIDE DEF Fine
  <2>1. CASE toClient' = toClient
    BY <1>4, <2>1, Zenon
  <2>2. CASE toClient' = toClient \o a
    <3>1. p \in DOMAIN (toClient \o a)
      BY <2>2, Zenon
    <3>2. (\E k \in DOMAIN toClient : (toClient \o a)[p] = toClient[k])
            \/ \E k \in DOMAIN a : (toClient \o a)[p] = a[k]
      BY <1>1, <3>1, ConcatMessages
    <3>. QED  BY <1>4, <1>5, <2>2, <3>2, Zenon
  <2>. QED  BY <1>6, <2>1, <2>2, Zenon
<1>. QED  BY <1>3, <1>7, Zenon DEF NamesOK, Truthful

LEMMA NamesClient ==
  ASSUME TypeOK, NamesOK, NEW out \in Seq(Request), Handled(out)
  PROVE  NamesOK'
<1>1. /\ toClient \in Seq(Notice) /\ toClient # <<>> /\ toClient' = Tail(toClient)
      /\ present' = present /\ env' = env
  BY Zenon DEF TypeOK, Handled
<1>2. Truthful(Head(toClient))
  BY <1>1, HeadTail, Zenon DEF NamesOK
<1>3. ASSUME NEW p \in DOMAIN toClient'
      PROVE  Truthful(toClient'[p])
  <2>1. p + 1 \in DOMAIN toClient /\ toClient'[p] = toClient[p + 1]
    BY <1>1, <1>3, HeadTail, Zenon
  <2>. QED  BY <2>1, Zenon DEF NamesOK
<1>4. ASSUME NEW i \in DOMAIN sinks' \cap DOMAIN present
      PROVE  sinks'[i] = present[i]
  <2>1. \/ i \in DOMAIN sinks /\ sinks'[i] = sinks[i]
        \/ Head(toClient).t = "info" /\ Head(toClient).i = i /\ Head(toClient).d = sinks'[i]
    BY Zenon DEF Handled
  <2>. QED  BY <1>2, <2>1 DEF NamesOK, Truthful
<1>. QED  BY <1>1, <1>3, <1>4, Zenon DEF NamesOK, Truthful

LEMMA NamesServe ==
  ASSUME TypeOK, NamesOK, Serve
  PROVE  NamesOK'
<1> DEFINE m == Head(toServer)
<1>1. /\ m \in Request /\ toClient \in Seq(Notice) /\ UNCHANGED <<sinks, present, env>>
      /\ DOMAIN present \subseteq 1..env.last
  BY ServeTypes, Zenon DEF Serve, client, TypeOK
<1>2. PICK a \in Answers(m) : toClient' = toClient \o a
  BY ServeTypes, Zenon
<1>3. a \in Seq(Notice)
  BY <1>1, <1>2, AnswersTold, Zenon
<1>4. \A p \in DOMAIN a : \/ \E i \in DOMAIN present : a[p] = Info(i)
                          \/ \E s \in DOMAIN on : a[p] = StreamInfo(s)
                          \/ a[p] = [t |-> "server", d |-> srvDefault]
  BY <1>1, <1>2, AnswersTold, Zenon
<1>5. \A p \in DOMAIN a : Truthful(a[p])
  BY <1>1, <1>4 DEF Truthful, Info, StreamInfo
<1>6. ASSUME NEW p \in DOMAIN toClient'
      PROVE  Truthful(toClient'[p])
  <2>1. (\E k \in DOMAIN toClient : toClient'[p] = toClient[k])
          \/ \E k \in DOMAIN a : toClient'[p] = a[k]
    BY <1>1, <1>2, <1>3, ConcatMessages
  <2>. QED  BY <1>5, <2>1, Zenon DEF NamesOK
<1>. QED  BY <1>1, <1>6, Zenon DEF NamesOK, Truthful

-----------------------------------------------------------------------------
\* The invariant.

LEMMA IInvInit ==
  Init => IInv
<1> SUFFICES ASSUME Init PROVE IInv
  BY Zenon
<1>1. /\ sinks = <<>> /\ sinkInputs = {} /\ toClient = <<>> /\ toServer = <<>>
      /\ status = "start" /\ ~subscribed /\ ~inner /\ DOMAIN sinks = {} /\ DOMAIN toClient = {}
  BY DEF Init
<1>2. present \in Seq(Device) /\ srvDefault \in Device
  <2>1. PICK n \in 1..MaxInit : present \in [1..n -> Device]
    BY Zenon DEF Init, Injection
  <2>2. srvDefault \in Range(present)
    BY Zenon DEF Init
  <2>3. n \in Nat
    BY AudioCoreAssumption
  <2>. QED  BY <2>1, <2>2, <2>3 DEF Range
<1>3. Len(present) \in Nat /\ DOMAIN present = 1..Len(present) /\ present \in [DOMAIN present -> Device]
  BY <1>2
<1>4. DOMAIN on \subseteq Stream /\ on \in [DOMAIN on -> Device]
  BY <1>2, Zenon DEF Init
<1>5. TypeOK
  <2>1. env = [steps |-> 0, last |-> Len(present)]
    BY Zenon DEF Init
  <2>2. <<>> \in Seq(Request) /\ <<>> \in Seq(Notice) /\ sinks \in [DOMAIN sinks -> Device]
    BY <1>1
  <2>3. /\ bHDMI \in BOOLEAN
        /\ side \in {"sink", "source"} /\ termialType \in {"VDI", "IDV", "other"}
        /\ defaultSinkName = None /\ inner = FALSE /\ lapsed = FALSE /\ subscribed = FALSE
    BY Zenon DEF Init
  <2>. QED  BY <1>1, <1>2, <1>3, <1>4, <2>1, <2>2, <2>3, Zenon DEF TypeOK
<1>6. (\A s \in Stream : ~StreamHeld(s)) /\ (\A i \in 1..env.last : ~DeviceHeld(i))
  BY <1>1, Zenon DEF StreamHeld, DeviceHeld, Held
<1>. QED  BY <1>1, <1>5, <1>6, Zenon DEF IInv, SessionOK, StreamsOK, DevicesOK, NamesOK

LEMMA SessionStep ==
  ASSUME TypeOK, SessionOK, Next
  PROVE  SessionOK'
<1> USE DEF setup, client, server
<1>1. CASE Ready
  BY <1>1, Zenon DEF Ready, SessionOK
<1>2. CASE Client /\ ~Ready
  <2>1. toClient # <<>> /\ status = "ready" /\ status' # "start" /\ UNCHANGED subscribed
    BY <1>2, Zenon DEF Client, DeviceEvent, DeviceRemoved, StreamEvent, StreamRemoved, updateSink,
                updateSinkInput, updateServer, Receive
  <2>2. subscribed
    BY <2>1, Zenon DEF SessionOK
  <2>. QED  BY <2>1, <2>2, Zenon DEF SessionOK
<1>3. CASE Serve
  <2>1. status # "stopped" /\ toServer # <<>> /\ UNCHANGED status
    BY <1>3, Zenon DEF Serve
  <2>2. status = "start" => FALSE
    BY <2>1, Zenon DEF SessionOK
  <2>3. subscribed'
    <3>1. CASE subscribed
      BY <1>3, <3>1, Zenon DEF Serve
    <3>2. CASE ~subscribed
      <4>1. toServer = Hello
        BY <2>2, <3>2, Zenon DEF SessionOK
      <4>2. Head(toServer).t = "subscribe"
        BY <4>1 DEF Hello
      <4>. QED  BY <1>3, <4>2, Zenon DEF Serve
    <3>. QED  BY <3>1, <3>2, Zenon
  <2>. QED  BY <2>1, <2>2, <2>3, Zenon DEF SessionOK
<1>4. CASE World
  <2>1. PICK a \in Seq(Notice), out \in Seq(Request) :
          /\ Tell(a) /\ toServer' = toServer \o out
          /\ UNCHANGED <<status, sinks, sinkInputs, inner, subscribed>>
          /\ out # <<>> => inner
    BY <1>4, WorldTells, Zenon
  <2>2. CASE subscribed
    BY <2>1, <2>2, Zenon DEF SessionOK
  <2>3. CASE ~subscribed
    <3>1. ~inner
      BY <2>3, Zenon DEF SessionOK
    <3>2. out = <<>> /\ toServer' = toServer \o <<>>
      BY <2>1, <3>1, Zenon
    <3>3. toServer' = toServer
      BY <3>2 DEF TypeOK
    <3>4. toClient' = toClient
      BY <2>1, <2>3, Zenon DEF Tell
    <3>. QED  BY <2>1, <2>3, <3>3, <3>4, Zenon DEF SessionOK
  <2>. QED  BY <2>2, <2>3, Zenon
<1>. QED  BY <1>1, <1>2, <1>3, <1>4, Zenon DEF Next, Client

LEMMA IInvStep ==
  ASSUME IInv, [Next]_vars
  PROVE  IInv'
<1> USE DEF setup, client, server
<1>0. TypeOK /\ SessionOK /\ StreamsOK /\ DevicesOK /\ NamesOK
  BY Zenon DEF IInv
<1>1. CASE UNCHANGED vars
  <2>1. UNCHANGED <<side, termialType, status, sinks, sinkInputs, defaultSinkName, bHDMI, inner, lapsed,
                    subscribed, present, on, srvDefault, toServer, toClient, env>>
    BY <1>1, Zenon DEF vars
  <2>2. TypeOK' /\ SessionOK'
    BY <1>0, <2>1, ZenonT(30) DEF TypeOK, SessionOK
  <2>3. StreamsOK' /\ DevicesOK'
    BY <1>0, <2>1, Zenon DEF StreamsOK, DevicesOK, StreamHeld, DeviceHeld
  <2>4. NamesOK'
    BY <1>0, <2>1, Zenon DEF NamesOK, Truthful
  <2>. QED  BY <2>2, <2>3, <2>4, Zenon DEF IInv
<1>2. CASE Ready
  <2>1. TypeOK' /\ SessionOK'
    BY <1>0, <1>2, ClientTypes, SessionStep, Zenon DEF Client, Next
  <2>2. /\ toServer' = Hello /\ status = "start"
        /\ UNCHANGED <<sinks, sinkInputs, subscribed, present, on, toClient, env>>
    BY <1>2, Zenon DEF Ready
  <2>3. toClient = <<>> /\ DOMAIN toClient = {} /\ sinkInputs = {} /\ DOMAIN sinks = {}
    BY <1>0, <2>2 DEF SessionOK
  <2>4. (\A s \in Stream : ~StreamHeld(s)') /\ (\A i \in 1..env.last : ~DeviceHeld(i)')
    BY <2>2, <2>3, Zenon DEF StreamHeld, DeviceHeld, Held
  <2>5. StreamsOK' /\ DevicesOK'
    BY <2>2, <2>4, HelloAsks, Zenon DEF StreamsOK, DevicesOK
  <2>6. NamesOK'
    BY <2>2, <2>3, Zenon DEF NamesOK
  <2>. QED  BY <2>1, <2>5, <2>6, Zenon DEF IInv
<1>3. CASE Client /\ ~Ready
  <2>1. TypeOK' /\ SessionOK'
    BY <1>0, <1>3, ClientTypes, SessionStep, Zenon DEF Next
  <2>2. PICK out \in Seq(Request) : Handled(out)
    BY <1>0, <1>3, ClientHandles, Zenon
  <2>3. StreamsOK' /\ DevicesOK' /\ NamesOK'
    BY <1>0, <2>2, StreamsClient, DevicesClient, NamesClient, Zenon
  <2>. QED  BY <2>1, <2>3, Zenon DEF IInv
<1>4. CASE Serve
  BY <1>0, <1>4, ServeTypes, SessionStep, StreamsServe, DevicesServe, NamesServe, Zenon DEF IInv, Next
<1>5. CASE World
  <2>1. TypeOK' /\ SessionOK'
    BY <1>0, <1>5, WorldTypes, SessionStep, Zenon DEF Next
  <2>2. PICK a \in Seq(Notice), out \in Seq(Request) :
          /\ Tell(a) /\ Told(a) /\ toServer' = toServer \o out
          /\ UNCHANGED <<status, sinks, sinkInputs, inner, subscribed>>
    BY <1>0, <1>5, WorldTells, Zenon
  <2>3. UNCHANGED <<status, sinks>> /\ UNCHANGED <<status, sinkInputs>> /\ UNCHANGED sinks
    BY <2>2, Zenon
  <2>4. StreamsOK' /\ DevicesOK'
    BY <1>0, <2>2, <2>3, StreamsWorld, DevicesWorld, Zenon
  <2>5. NamesOK'
    BY <1>0, <2>1, <2>2, <2>3, NamesWorld, Zenon
  <2>. QED  BY <2>1, <2>4, <2>5, Zenon DEF IInv
<1>. QED  BY <1>1, <1>2, <1>3, <1>4, <1>5, Zenon DEF Next, Client

\* With nothing on the way, what will be held is what is held.
LEMMA IInvInSync ==
  IInv => InSync
<1> SUFFICES ASSUME IInv, Quiet PROVE sinks = present /\ sinkInputs = DOMAIN on
  BY Zenon DEF InSync
<1>0. TypeOK /\ SessionOK /\ StreamsOK /\ DevicesOK /\ NamesOK
  BY Zenon DEF IInv
<1>1. status = "ready" /\ toServer = <<>> /\ toClient = <<>>
  BY Zenon DEF Quiet
<1>2. DOMAIN toClient = {} /\ \A m : m \notin Range(<<>>)
  BY <1>1 DEF Range
<1>3. \A s \in Stream : StreamHeld(s) <=> s \in sinkInputs
  BY <1>2, Zenon DEF StreamHeld, Held, NoneAfter
<1>4. \A i \in Nat : DeviceHeld(i) <=> i \in DOMAIN sinks
  BY <1>2, Zenon DEF DeviceHeld, Held, NoneAfter
<1>5. status # "start"
  BY <1>1, Zenon
<1>6. sinkInputs = DOMAIN on
  <2>1. \A s \in Stream : s \in sinkInputs <=> s \in DOMAIN on
    BY <1>0, <1>1, <1>2, <1>3, <1>5, Zenon DEF StreamsOK
  <2>. QED  BY <1>0, <2>1, Zenon DEF TypeOK
<1>7. DOMAIN sinks = DOMAIN present
  <2>1. \A i \in 1..env.last : i \in Nat
    BY <1>0 DEF TypeOK
  <2>2. \A i \in 1..env.last : i \in DOMAIN sinks <=> i \in DOMAIN present
    BY <1>0, <1>1, <1>2, <1>4, <1>5, <2>1, Zenon DEF DevicesOK
  <2>. QED  BY <1>0, <2>2, Zenon DEF TypeOK
<1>8. sinks = present
  BY <1>0, <1>7 DEF TypeOK, NamesOK
<1>. QED  BY <1>6, <1>8, Zenon

\* What AudioCore has heard and what is on its way to it agree with the server in
\* every state: the inductive invariant of the copies.
THEOREM IInvHolds ==
  Spec => []IInv
<1>1. Init => IInv
  BY IInvInit, Zenon
<1>2. IInv /\ [Next]_vars => IInv'
  BY IInvStep, Zenon
<1>. QED  BY <1>1, <1>2, PTL DEF Spec

\* The client's and the server's variables keep their types, and every message on
\* the connection is one of the requests, events and replies of the protocol.
THEOREM TypeCorrect ==
  Spec => []TypeOK
<1>1. IInv => TypeOK
  BY Zenon DEF IInv
<1>. QED  BY <1>1, IInvHolds, PTL

\* However many devices and streams come and go, and in whatever order the server's
\* events and answers interleave with the client's requests: once all is handled
\* the maps filled by AudioCore's callbacks are the server's devices and streams.
THEOREM InSyncCorrect ==
  Spec => []InSync
<1>1. IInv => InSync
  BY IInvInSync, Zenon
<1>. QED  BY <1>1, IInvHolds, PTL

-----------------------------------------------------------------------------
\* Devices that go: what the client knows of them goes with them.

\* Messages sent later change nothing about a removal on the way.
LEMMA GoneKept ==
  ASSUME TypeOK, NEW a \in Seq(Notice), toClient' = toClient \o a, sinks' = sinks,
         NEW q, NEW d, GoneAfter(q, d)
  PROVE  GoneAfter(q, d)'
<1>1. PICK p \in DOMAIN toClient : p > q /\ Gone(p, d)
  BY Zenon DEF GoneAfter
<1>2. toClient \in Seq(Notice)
  BY Zenon DEF TypeOK
<1>3. /\ p \in DOMAIN toClient' /\ p \in Nat
      /\ \A x \in 1..p : toClient'[x] = toClient[x]
      /\ p \in 1..p /\ \A y \in 1..p : \A x \in y..p : x \in 1..p
  BY <1>2, ConcatPlaces
<1> DEFINE Rem(i) == [t |-> "remove", i |-> i]
<1>4. Gone(p, d)'
  <2>1. /\ toClient[p].t = "remove"
        /\ \A i \in DOMAIN sinks : sinks[i] = d => \E r \in 1..p : toClient[r] = Rem(i)
        /\ \A x \in 1..p : toClient[x].t = "info" /\ toClient[x].d = d =>
             \E r \in x..p : toClient[r] = Rem(toClient[x].i)
    BY <1>1, Zenon DEF Gone
  <2> HIDE DEF Rem
  <2>2. \A i \in DOMAIN sinks' : sinks'[i] = d => \E r \in 1..p : toClient'[r] = Rem(i)
    BY <1>3, <2>1, Zenon
  <2>3. \A x \in 1..p : toClient'[x].t = "info" /\ toClient'[x].d = d =>
          \E r \in x..p : toClient'[r] = Rem(toClient'[x].i)
    BY <1>3, <2>1, ZenonT(30)
  <2>. QED  BY <1>3, <2>1, <2>2, <2>3, Zenon DEF Gone, Rem
<1>. QED  BY <1>1, <1>3, <1>4, Zenon DEF GoneAfter

\* Nor does handling a message before it.
LEMMA GoneShift ==
  ASSUME TypeOK, NEW out, Handled(out), NEW d, NEW p \in DOMAIN toClient, p > 1, Gone(p, d)
  PROVE  p - 1 \in DOMAIN toClient' /\ Gone(p - 1, d)'
<1> DEFINE h == Head(toClient)
           Rem(i) == [t |-> "remove", i |-> i]
<1>1. toClient \in Seq(Notice) /\ toClient # <<>> /\ toClient' = Tail(toClient)
  BY Zenon DEF TypeOK, Handled
<1>2. /\ p \in Nat /\ p - 1 \in DOMAIN toClient' /\ toClient[1] = h /\ 1 \in 1..p
      /\ \A x \in 1..(p - 1) : toClient'[x] = toClient[x + 1] /\ x + 1 \in 1..p
      /\ \A x \in 1..p : x = 1 \/ (x - 1 \in 1..(p - 1) /\ toClient'[x - 1] = toClient[x])
  BY <1>1
<1>3. /\ toClient[p].t = "remove"
      /\ \A i \in DOMAIN sinks : sinks[i] = d => \E r \in 1..p : toClient[r] = Rem(i)
      /\ \A q \in 1..p : toClient[q].t = "info" /\ toClient[q].d = d =>
           \E r \in q..p : toClient[r] = Rem(toClient[q].i)
  BY Zenon DEF Gone
<1>4. toClient'[p - 1].t = "remove"
  BY <1>2, <1>3
<1>5. ASSUME NEW i \in DOMAIN sinks', sinks'[i] = d
      PROVE  \E r \in 1..(p - 1) : toClient'[r] = Rem(i)
  <2>1. CASE i \in DOMAIN sinks /\ sinks'[i] = sinks[i]
    <3>1. i \in Nat
      BY <2>1 DEF TypeOK
    <3>2. h # Rem(i)
      <4>1. i \in DOMAIN sinks' <=>
              h \in [t : {"info"}, i : {i}, d : Device] \/ (i \in DOMAIN sinks /\ h # Rem(i))
        BY <3>1, Zenon DEF Handled
      <4>. QED  BY <1>5, <4>1
    <3>3. PICK r \in 1..p : toClient[r] = Rem(i)
      BY <1>3, <1>5, <2>1, Zenon
    <3>4. r # 1
      BY <1>2, <3>2, <3>3, Zenon
    <3>. QED  BY <1>2, <3>3, <3>4, ZenonT(30)
  <2>2. CASE h.t = "info" /\ h.i = i /\ h.d = sinks'[i]
    <3>1. PICK r \in 1..p : toClient[r] = Rem(i)
      <4>1. \E r \in 1..p : toClient[r] = Rem(toClient[1].i)
        BY <1>2, <1>3, <1>5, <2>2, ZenonT(30)
      <4>. QED  BY <1>2, <2>2, <4>1, Zenon
    <3>2. r # 1
      BY <1>2, <2>2, <3>1
    <3>. QED  BY <1>2, <3>1, <3>2, ZenonT(30)
  <2>. QED  BY <2>1, <2>2, Zenon DEF Handled
<1>6. ASSUME NEW q \in 1..(p - 1), toClient'[q].t = "info", toClient'[q].d = d
      PROVE  \E r \in q..(p - 1) : toClient'[r] = Rem(toClient'[q].i)
  <2>1. PICK r \in (q + 1)..p : toClient[r] = Rem(toClient'[q].i)
    BY <1>2, <1>3, <1>6
  <2>2. r - 1 \in q..(p - 1) /\ r \in 1..p /\ r # 1
    BY <1>2
  <2>. QED  BY <1>2, <2>1, <2>2, Zenon
<1>. QED  BY <1>2, <1>4, <1>5, <1>6, Zenon DEF Gone

\* When it is the removal itself that is handled, the client is without the device.
LEMMA GoneNow ==
  ASSUME TypeOK, NEW out, Handled(out), NEW d, Gone(1, d)
  PROVE  Head(toClient).t = "remove" /\ \A i \in DOMAIN sinks' : sinks'[i] # d
<1> DEFINE h == Head(toClient)
<1>1. toClient[1] = h
  BY HeadTail, Zenon DEF Handled, TypeOK
<1>2. h.t = "remove"
  BY <1>1, Zenon DEF Gone
<1>3. ASSUME NEW i \in DOMAIN sinks', sinks'[i] = d
      PROVE  FALSE
  <2>1. i \in DOMAIN sinks /\ sinks'[i] = sinks[i]
    BY <1>2, <1>3, Zenon DEF Handled
  <2>2. i \in Nat
    BY <2>1 DEF TypeOK
  <2>3. h # [t |-> "remove", i |-> i]
    <3>1. i \in DOMAIN sinks' <=> h \in [t : {"info"}, i : {i}, d : Device]
                                    \/ (i \in DOMAIN sinks /\ h # [t |-> "remove", i |-> i])
      BY <2>2, Zenon DEF Handled
    <3>. QED  BY <1>2, <1>3, <3>1, Zenon
  <2>. QED  BY <1>1, <1>3, <2>1, <2>3, SMTT(20) DEF Gone
<1>. QED  BY <1>2, <1>3, Zenon

\* A device that is unplugged is gone for the client once its removal is handled:
\* under another index it can only be known if that one went before.
LEMMA GoneNew ==
  ASSUME TypeOK, DevicesOK, NamesOK, ServerOK, subscribed, NEW a \in Seq(Notice), Tell(a), Told(a),
         sinks' = sinks, NEW k \in DOMAIN present \ DOMAIN present', NEW d, d = present[k],
         NEW q, q \in 0..Len(toClient)
  PROVE  GoneAfter(q, d)'
<1> DEFINE Rem(i) == [t |-> "remove", i |-> i]
           n == Len(toClient)
<1>1. /\ toClient \in Seq(Notice) /\ toClient' = toClient \o a
      /\ DOMAIN sinks \subseteq 1..env.last /\ DOMAIN present \subseteq 1..env.last /\ env.last \in Nat
      /\ d \in Device
  BY Zenon DEF TypeOK, Tell
<1>2. /\ n \in Nat /\ DOMAIN toClient = 1..n /\ DOMAIN a = 1..Len(a) /\ Len(a) \in Nat
      /\ DOMAIN toClient' = 1..(n + Len(a))
      /\ \A x \in 1..n : toClient'[x] = toClient[x]
      /\ \A x \in 1..Len(a) : toClient'[n + x] = a[x]
  BY <1>1, ConcatPlaces
<1>3. PICK x \in 1..Len(a) : a[x] = Rem(k)
  <2>1. Rem(k) \in Range(a)
    BY Zenon DEF Told
  <2>. QED  BY <1>2, <2>1, Zenon DEF Range
<1>4. \A y \in 1..Len(a) : a[y].t # "info"
  BY <1>2, SMTT(20) DEF Told
<1> HIDE DEF n
<1>5. /\ n + x \in DOMAIN toClient' /\ n + x > q /\ toClient'[n + x] = Rem(k)
      /\ \A y \in 1..n : y \in 1..(n + x) /\ n + x \in y..(n + x)
      /\ n + x \in 1..(n + x)
  BY <1>2, <1>3 DEF n
\* Another index of the device is held by no message.
<1>6. ASSUME NEW i \in 1..env.last, i # k, NEW y \in 0..n,
             \/ y = 0 /\ i \in DOMAIN sinks /\ sinks[i] = d
             \/ y \in 1..n /\ toClient[y].t = "info" /\ toClient[y].d = d /\ toClient[y].i = i
      PROVE  \E r \in 1..n : r > y /\ toClient[r] = Rem(i)
  <2>1. i \in DOMAIN present => present[i] = d
    <3>1. CASE i \in DOMAIN sinks /\ sinks[i] = d
      BY <3>1, Zenon DEF NamesOK
    <3>2. CASE y \in 1..n /\ toClient[y].t = "info" /\ toClient[y].d = d /\ toClient[y].i = i
      BY <1>2, <3>2, Zenon DEF NamesOK, Truthful
    <3>. QED  BY <1>6, <3>1, <3>2, Zenon
  <2>2. i \notin DOMAIN present
    BY <1>6, <2>1, Zenon DEF ServerOK, IsInjective
  <2>3. ~DeviceHeld(i)
    BY <2>2, Zenon DEF DevicesOK
  <2>4. ~NoneAfter(toClient, y, {Rem(i)})
    <3>1. CASE y = 0 /\ i \in DOMAIN sinks
      BY <2>3, <3>1, Zenon DEF DeviceHeld, Held
    <3>2. CASE y \in 1..n /\ toClient[y].t = "info" /\ toClient[y].d = d /\ toClient[y].i = i
      <4>1. toClient[y] \in [t : {"info"}, i : {i}, d : Device]
        BY <1>1, <1>2, <3>2, NoticeFields
      <4>. QED  BY <1>2, <2>3, <3>2, <4>1, Zenon DEF DeviceHeld, Held
    <3>. QED  BY <1>6, <3>1, <3>2, Zenon
  <2>. QED  BY <1>2, <2>4, Zenon DEF NoneAfter
<1>7. ASSUME NEW i \in DOMAIN sinks, sinks[i] = d
      PROVE  \E r \in 1..(n + x) : toClient'[r] = Rem(i)
  <2>1. CASE i = k
    BY <1>5, <2>1, Zenon
  <2>2. CASE i # k
    <3>1. i \in 1..env.last /\ 0 \in 0..n
      BY <1>1, <1>2
    <3>2. \E r \in 1..n : toClient[r] = Rem(i)
      BY <1>6, <1>7, <2>2, <3>1, Zenon
    <3>. QED  BY <1>2, <1>5, <3>2, Zenon
  <2>. QED  BY <2>1, <2>2, Zenon
<1>8. ASSUME NEW y \in 1..(n + x), toClient'[y].t = "info", toClient'[y].d = d
      PROVE  \E r \in y..(n + x) : toClient'[r] = Rem(toClient'[y].i)
  <2>1. y \in 1..n /\ y \in 0..n
    <3>1. y \notin 1..n => y - n \in 1..Len(a) /\ y = n + (y - n)
      BY <1>2
    <3>2. \A z \in 1..Len(a) : toClient'[n + z].t # "info"
      BY <1>2, <1>4, Zenon
    <3>3. y \in 1..n
      BY <1>8, <3>1, <3>2, Zenon
    <3>. QED  BY <1>2, <3>3
  <2>2. toClient'[y] = toClient[y]
    BY <1>2, <2>1, Zenon
  <2>3. CASE toClient[y].i = k
    BY <1>5, <2>1, <2>2, <2>3, Zenon
  <2>4. CASE toClient[y].i # k
    <3>1. toClient[y].i \in 1..env.last
      BY <1>2, <1>8, <2>1, <2>2, Zenon DEF NamesOK, Truthful
    <3>2. PICK r \in 1..n : r > y /\ toClient[r] = Rem(toClient[y].i)
      BY <1>6, <1>8, <2>1, <2>2, <2>4, <3>1, Zenon
    <3>3. r \in y..(n + x)
      BY <1>2, <1>3, <3>2
    <3>. QED  BY <1>2, <2>2, <3>2, <3>3, Zenon
  <2>. QED  BY <2>3, <2>4, Zenon
<1>9. PICK p \in Nat : p = n + x
  BY <1>2
<1>10. /\ p \in DOMAIN toClient' /\ p > q /\ toClient'[p].t = "remove"
       /\ \A i \in DOMAIN sinks' : sinks'[i] = d => \E r \in 1..p : toClient'[r] = Rem(i)
       /\ \A y \in 1..p : toClient'[y].t = "info" /\ toClient'[y].d = d =>
            \E r \in y..p : toClient'[r] = Rem(toClient'[y].i)
  <2> HIDE DEF Rem
  <2>1. p \in DOMAIN toClient' /\ p > q /\ toClient'[p].t = "remove"
    BY <1>5, <1>9 DEF Rem
  <2>2. \A i \in DOMAIN sinks' : sinks'[i] = d => \E r \in 1..p : toClient'[r] = Rem(i)
    BY <1>7, <1>9, Zenon
  <2>3. \A y \in 1..p : toClient'[y].t = "info" /\ toClient'[y].d = d =>
          \E r \in y..p : toClient'[r] = Rem(toClient'[y].i)
    BY <1>8, <1>9, Zenon
  <2>. QED  BY <2>1, <2>2, <2>3, Zenon
<1>11. Gone(p, d)'
  BY <1>10, Zenon DEF Gone
<1>. QED  BY <1>10, <1>11, Zenon DEF GoneAfter

LEMMA GoneAfterShift ==
  ASSUME TypeOK, NEW out, Handled(out), NEW d, NEW q \in Nat
  PROVE  /\ GoneAfter(q + 1, d) => GoneAfter(q, d)'
         /\ GoneAfter(0, d) => GoneAfter(0, d)' \/ Gone(1, d)
<1>0. \A p \in DOMAIN toClient : p \in Nat
  BY DEF TypeOK
<1>1. ASSUME NEW p \in DOMAIN toClient, p > 1, Gone(p, d)
      PROVE  p - 1 \in DOMAIN toClient' /\ Gone(p - 1, d)'
  BY <1>1, GoneShift, Zenon
<1>2. ASSUME NEW p \in DOMAIN toClient, p > q + 1, Gone(p, d)
      PROVE  GoneAfter(q, d)'
  <2>1. p > 1 /\ p - 1 > q
    BY <1>0, <1>2
  <2>. QED  BY <1>1, <1>2, <2>1, Zenon DEF GoneAfter
<1>3. ASSUME NEW p \in DOMAIN toClient, p > 0, Gone(p, d)
      PROVE  GoneAfter(0, d)' \/ Gone(1, d)
  <2>1. CASE p = 1
    BY <1>3, <2>1, Zenon
  <2>2. CASE p > 1
    <3>1. p - 1 > 0
      BY <1>0, <2>2
    <3>. QED  BY <1>1, <1>3, <2>2, <3>1, Zenon DEF GoneAfter
  <2>. QED  BY <1>0, <1>3, <2>1, <2>2
<1>. QED  BY <1>2, <1>3, Zenon DEF GoneAfter

-----------------------------------------------------------------------------
\* The entries of the copy are of devices that exist, or go.

LEMMA EntriesWorld ==
  ASSUME TypeOK, SessionOK, DevicesOK, NamesOK, ServerOK, EntriesOK,
         NEW a \in Seq(Notice), Tell(a), Told(a), UNCHANGED sinks
  PROVE  EntriesOK'
<1>1. CASE ~subscribed
  <2>1. DOMAIN sinks' = {} /\ DOMAIN toClient' = {}
    BY <1>1 DEF SessionOK, Tell
  <2>. QED  BY <2>1, Zenon DEF EntriesOK
<1>2. CASE subscribed
  <2> SUFFICES ASSUME NEW d \in Device
               PROVE  /\ \A i \in DOMAIN sinks' : sinks'[i] = d => i \in DOMAIN present' \/ GoneAfter(0, d)'
                      /\ \A q \in DOMAIN toClient' : toClient'[q].t = "info" /\ toClient'[q].d = d =>
                           toClient'[q].i \in DOMAIN present' \/ GoneAfter(q, d)'
    BY Zenon DEF EntriesOK
  <2>1. toClient' = toClient \o a /\ toClient \in Seq(Notice)
    BY <1>2, Zenon DEF Tell, TypeOK
  <2>2. /\ DOMAIN toClient = 1..Len(toClient) /\ Len(toClient) \in Nat
        /\ \A q \in DOMAIN toClient : q \in 0..Len(toClient) /\ toClient'[q] = toClient[q]
        /\ \A q \in DOMAIN toClient' : q \in DOMAIN toClient \/ \E k \in DOMAIN a : toClient'[q] = a[k]
        /\ 0 \in 0..Len(toClient)
    BY <2>1, ConcatCases
  <2>3. \A q : GoneAfter(q, d) => GoneAfter(q, d)'
    BY <2>1, GoneKept, Zenon
  <2>4. ASSUME NEW k \in DOMAIN present, k \notin DOMAIN present', present[k] = d,
               NEW q \in 0..Len(toClient)
        PROVE  GoneAfter(q, d)'
    <3>1. k \in DOMAIN present \ DOMAIN present'
      BY <2>4, Zenon
    <3>. QED  BY <1>2, <2>4, <3>1, GoneNew, Zenon
  <2>5. ASSUME NEW i \in DOMAIN sinks, sinks[i] = d
        PROVE  i \in DOMAIN present' \/ GoneAfter(0, d)'
    <3>1. i \in DOMAIN present \/ GoneAfter(0, d)
      BY <2>5, Zenon DEF EntriesOK
    <3>2. i \in DOMAIN present => present[i] = d
      BY <2>5, Zenon DEF NamesOK
    <3>. QED  BY <2>2, <2>3, <2>4, <3>1, <3>2, Zenon
  <2>6. ASSUME NEW q \in DOMAIN toClient', toClient'[q].t = "info", toClient'[q].d = d
        PROVE  toClient'[q].i \in DOMAIN present' \/ GoneAfter(q, d)'
    <3>1. \A k \in DOMAIN a : a[k].t # "info"
      BY DEF Told
    <3>2. q \in DOMAIN toClient /\ toClient'[q] = toClient[q] /\ q \in 0..Len(toClient)
      BY <2>2, <2>6, <3>1, Zenon
    <3>3. toClient[q].i \in DOMAIN present \/ GoneAfter(q, d)
      BY <2>6, <3>2, Zenon DEF EntriesOK
    <3>4. toClient[q].i \in DOMAIN present => present[toClient[q].i] = d
      BY <2>6, <3>2, Zenon DEF NamesOK, Truthful
    <3>5. CASE GoneAfter(q, d)
      BY <2>3, <3>5, Zenon
    <3>6. CASE toClient[q].i \in DOMAIN present
      BY <2>4, <3>2, <3>4, <3>6, Zenon
    <3>. QED  BY <3>3, <3>5, <3>6, Zenon
  <2>. QED  BY <2>5, <2>6, Zenon
<1>. QED  BY <1>1, <1>2, Zenon

LEMMA EntriesClient ==
  ASSUME TypeOK, EntriesOK, NEW out \in Seq(Request), Handled(out)
  PROVE  EntriesOK'
<1> SUFFICES ASSUME NEW d \in Device
             PROVE  /\ \A i \in DOMAIN sinks' : sinks'[i] = d => i \in DOMAIN present \/ GoneAfter(0, d)'
                    /\ \A q \in DOMAIN toClient' : toClient'[q].t = "info" /\ toClient'[q].d = d =>
                         toClient'[q].i \in DOMAIN present \/ GoneAfter(q, d)'
  BY Zenon DEF EntriesOK, Handled
<1> DEFINE h == Head(toClient)
<1>1. toClient \in Seq(Notice) /\ toClient # <<>> /\ toClient' = Tail(toClient)
  BY Zenon DEF TypeOK, Handled
<1>2. 1 \in DOMAIN toClient /\ toClient[1] = h /\ 0 \in Nat /\ 1 = 0 + 1
  BY <1>1, HeadTail
<1>3. \A q \in DOMAIN toClient' : q + 1 \in DOMAIN toClient /\ toClient'[q] = toClient[q + 1] /\ q \in Nat
  BY <1>1, HeadTail
<1>4. ASSUME NEW i \in DOMAIN sinks', sinks'[i] = d
      PROVE  i \in DOMAIN present \/ GoneAfter(0, d)'
  <2>1. CASE i \in DOMAIN sinks /\ sinks'[i] = sinks[i]
    <3>1. i \in DOMAIN present \/ GoneAfter(0, d)
      BY <1>4, <2>1, Zenon DEF EntriesOK
    <3>2. ~Gone(1, d)
      BY <1>4, GoneNow, Zenon
    <3>. QED  BY <1>2, <3>1, <3>2, GoneAfterShift, Zenon
  <2>2. CASE h.t = "info" /\ h.i = i /\ h.d = sinks'[i]
    <3>1. i \in DOMAIN present \/ GoneAfter(1, d)
      BY <1>2, <1>4, <2>2, Zenon DEF EntriesOK
    <3>2. GoneAfter(0 + 1, d) => GoneAfter(0, d)'
      BY <1>2, GoneAfterShift, Zenon
    <3>. QED  BY <3>1, <3>2
  <2>. QED  BY <2>1, <2>2, Zenon DEF Handled
<1>5. ASSUME NEW q \in DOMAIN toClient', toClient'[q].t = "info", toClient'[q].d = d
      PROVE  toClient'[q].i \in DOMAIN present \/ GoneAfter(q, d)'
  <2>1. toClient'[q].i \in DOMAIN present \/ GoneAfter(q + 1, d)
    BY <1>3, <1>5, Zenon DEF EntriesOK
  <2>. QED  BY <1>3, <2>1, GoneAfterShift, Zenon
<1>. QED  BY <1>4, <1>5, Zenon

LEMMA EntriesServe ==
  ASSUME TypeOK, EntriesOK, Serve
  PROVE  EntriesOK'
<1> DEFINE m == Head(toServer)
<1>1. m \in Request /\ toClient \in Seq(Notice) /\ UNCHANGED <<sinks, present>>
  BY ServeTypes, Zenon DEF Serve, client, TypeOK
<1>2. PICK a \in Answers(m) : toClient' = toClient \o a
  BY ServeTypes, Zenon
<1>3. a \in Seq(Notice)
  BY <1>1, <1>2, AnswersTold, Zenon
<1>4. \A k \in DOMAIN a : \/ \E i \in DOMAIN present : a[k] = Info(i)
                          \/ \E s \in DOMAIN on : a[k] = StreamInfo(s)
                          \/ a[k] = [t |-> "server", d |-> srvDefault]
  BY <1>1, <1>2, AnswersTold, Zenon
<1>5. \A k \in DOMAIN a : a[k].t = "info" => a[k].i \in DOMAIN present
  <2>1. \A i : Info(i).t = "info" /\ Info(i).i = i
    BY Zenon DEF Info
  <2>2. (\A s : StreamInfo(s).t # "info") /\ [t |-> "server", d |-> srvDefault].t # "info"
    BY Zenon DEF StreamInfo
  <2>. QED  BY <1>4, <2>1, <2>2, ZenonT(30)
<1>6. \A q \in DOMAIN toClient' :
        (q \in DOMAIN toClient /\ toClient'[q] = toClient[q]) \/ \E k \in DOMAIN a : toClient'[q] = a[k]
  BY <1>1, <1>2, <1>3, ConcatCases
<1>7. ASSUME NEW d \in Device
      PROVE  \A q : GoneAfter(q, d) => GoneAfter(q, d)'
  BY <1>1, <1>2, <1>3, GoneKept, Zenon
<1>. QED  BY <1>1, <1>5, <1>6, <1>7, Zenon DEF EntriesOK

-----------------------------------------------------------------------------
\* The server's default is a device it has, and neither the default nor the streams
\* leave a device that stays.

LEMMA ServerWorld ==
  ASSUME TypeOK, ServerOK, World
  PROVE  /\ ServerOK'
         /\ \A d \in Device : Plugged(d) /\ Plugged(d)' =>
              /\ srvDefault = d => srvDefault' = d
              /\ \A s \in DOMAIN on \cap DOMAIN on' : on[s] = d => on'[s] = d
<1> USE DEF setup, client, server
<1> DEFINE Stays == \A d \in Device : Plugged(d) /\ Plugged(d)' =>
                      /\ srvDefault = d => srvDefault' = d
                      /\ \A s \in DOMAIN on \cap DOMAIN on' : on[s] = d => on'[s] = d
<1>0. /\ IsInjective(present) /\ (srvDefault # None => Plugged(srvDefault))
      /\ env.last \in Nat /\ DOMAIN present \subseteq 1..env.last
  BY Zenon DEF ServerOK, TypeOK
<1>1. ASSUME UNCHANGED <<present, srvDefault>>,
             \A s \in DOMAIN on \cap DOMAIN on' : on'[s] = on[s]
      PROVE  ServerOK' /\ Stays
  BY <1>0, <1>1, Zenon DEF ServerOK, Plugged
<1>2. ASSUME NEW hdmi \in BOOLEAN, changeProfile(hdmi)
      PROVE  ServerOK' /\ Stays
  <2>1. UNCHANGED <<present, srvDefault, on>>
    BY <1>2, Zenon DEF changeProfile
  <2>. QED  BY <1>1, <2>1, Zenon
<1>3. ASSUME NEW i \in DOMAIN present, Change(i)
      PROVE  ServerOK' /\ Stays
  <2>1. UNCHANGED <<present, srvDefault, on>>
    BY <1>3, Zenon DEF Change
  <2>. QED  BY <1>1, <2>1, Zenon
<1>4. ASSUME NEW s \in Stream, Open(s) \/ Close(s)
      PROVE  ServerOK' /\ Stays
  <2>1. UNCHANGED <<present, srvDefault>>
    BY <1>4, Zenon DEF Open, Close
  <2>2. \A x \in DOMAIN on \cap DOMAIN on' : on'[x] = on[x]
    BY <1>4, Zenon DEF Open, Close, With, Without
  <2>. QED  BY <1>1, <2>1, <2>2, Zenon
<1>5. ASSUME NEW x \in Device, Plug(x)
      PROVE  ServerOK' /\ Stays
  <2> DEFINE k == env.last + 1
  <2>1. /\ present' = With(present, k, x) /\ ~Plugged(x) /\ on' = on
        /\ srvDefault' = IF srvDefault = None THEN x ELSE srvDefault
    BY <1>5, Zenon DEF Plug
  <2>2. k \notin DOMAIN present
    BY <1>0
  <2> HIDE DEF k
  <2>3. /\ DOMAIN present' = DOMAIN present \cup {k} /\ present'[k] = x
        /\ \A j \in DOMAIN present : present'[j] = present[j] /\ present[j] # x
    BY <2>1, <2>2, Zenon DEF With, Plugged
  <2>4. IsInjective(present')
    BY <1>0, <2>3, Zenon DEF IsInjective
  <2>5. \A d \in Device : srvDefault = d => srvDefault' = d
    BY <2>1, AudioCoreAssumption, Zenon
  <2>6. ServerOK'
    BY <2>1, <2>3, <2>4, <1>0, Zenon DEF ServerOK, Plugged
  <2>. QED  BY <2>1, <2>5, <2>6, Zenon
<1>6. ASSUME NEW i \in DOMAIN present, Unplug(i)
      PROVE  ServerOK' /\ Stays
  <2> DEFINE left == Without(present, i)
             rest == {left[j] : j \in DOMAIN left}
             moved == {s \in DOMAIN on : on[s] = present[i]}
  <2>1. present' = left
    BY <1>6, Zenon DEF Unplug
  <2>2. DOMAIN present' = DOMAIN present \ {i} /\ \A j \in DOMAIN present' : present'[j] = present[j]
    BY <2>1, Zenon DEF Without
  <2>3. IsInjective(present') /\ \A d : Plugged(d)' => d # present[i] /\ d \in rest
    BY <1>0, <2>1, <2>2, Zenon DEF IsInjective, Plugged
  <2>4. CASE rest = {}
    <3>1. srvDefault' = None
      BY <1>6, <2>4, Zenon DEF Unplug
    <3>2. ServerOK'
      BY <2>3, <3>1, Zenon DEF ServerOK
    <3>. QED  BY <2>3, <2>4, <3>2, Zenon
  <2>5. CASE rest # {}
    <3>1. PICK r \in rest :
            /\ srvDefault' = IF srvDefault = present[i] THEN r ELSE srvDefault
            /\ on' = [s \in DOMAIN on |-> IF s \in moved THEN r ELSE on[s]]
      BY <1>6, <2>5, Zenon DEF Unplug
    <3>2. ServerOK'
      BY <1>0, <2>1, <2>2, <2>3, <3>1, Zenon DEF ServerOK, Plugged
    <3>3. Stays
      BY <2>3, <3>1, Zenon
    <3>. QED  BY <3>2, <3>3, Zenon
  <2>. QED  BY <2>4, <2>5, Zenon
<1> HIDE DEF Stays
<1>7. ServerOK' /\ Stays
  BY <1>2, <1>3, <1>4, <1>5, <1>6, Zenon DEF World
<1>. QED  BY <1>7, Zenon DEF Stays

LEMMA ServerStep ==
  ASSUME TypeOK, ServerOK, Next
  PROVE  ServerOK'
<1>1. CASE Client
  <2>1. UNCHANGED <<present, srvDefault>>
    BY <1>1, Zenon DEF Client, Ready, DeviceEvent, DeviceRemoved, StreamEvent, StreamRemoved, updateSink,
                updateSinkInput, updateServer, server
  <2>. QED  BY <2>1, Zenon DEF ServerOK, Plugged
<1>2. CASE Serve
  <2>1. present' = present /\ (srvDefault' = srvDefault \/ Plugged(srvDefault'))
    BY <1>2, Zenon DEF Serve
  <2>. QED  BY <2>1, Zenon DEF ServerOK, Plugged
<1>3. CASE World
  BY <1>3, ServerWorld, Zenon
<1>. QED  BY <1>1, <1>2, <1>3, Zenon DEF Next

-----------------------------------------------------------------------------
\* The reply about the server comes before all the client could choose from.

LEMMA AutoDefaultEmpty ==
  ASSUME NEW devices, DOMAIN devices = {}, NEW hdmi, autoDefault(devices, hdmi)
  PROVE  lapsed' = TRUE /\ UNCHANGED <<defaultSinkName, toServer>>
<1>1. Choice(devices, hdmi) = None
  BY ChoiceIn, Zenon
<1>. QED  BY <1>1, Zenon DEF autoDefault

\* Only the application's changeProfile is a step of the world that the client takes
\* part in.
LEMMA WorldKinds ==
  ASSUME World
  PROVE  \/ \E hdmi \in BOOLEAN : changeProfile(hdmi)
         \/ UNCHANGED <<setup, status, client, subscribed, toServer>>
BY Zenon DEF World, Plug, Unplug, Change, Open, Close, server

LEMMA AnswerServer ==
  ASSUME NEW m \in Request, m.t = "server"
  PROVE  Answers(m) = {<<[t |-> "server", d |-> srvDefault]>>}
BY Zenon DEF Answers

\* What a client that knows nothing does about an event: at most it asks.
LEMMA IgnorantClient ==
  ASSUME TypeOK, Client, ~Ready, Ignorant, Head(toClient).t \notin {"info", "stream", "server"}
  PROVE  /\ Ignorant'
         /\ \E out \in Seq(Request) :
              /\ toServer' = toServer \o out
              /\ \A p \in DOMAIN out : out[p].t \notin {"server", "default"}
<1> DEFINE h == Head(toClient)
           Asks(out) == /\ toServer' = toServer \o out
                        /\ \A p \in DOMAIN out : out[p].t \notin {"server", "default"}
<1> USE DEF client
<1>0. toServer \in Seq(Request) /\ <<>> \in Seq(Request) /\ DOMAIN <<>> = {}
  BY DEF TypeOK
<1>a. toServer = toServer \o <<>>
  BY <1>0
<1>b. ASSUME NEW r \in Request, r.t \notin {"server", "default"}, toServer' = Append(toServer, r)
      PROVE  \E out \in Seq(Request) : Asks(out)
  <2>1. toServer' = toServer \o <<r>> /\ <<r>> \in Seq(Request) /\ DOMAIN <<r>> = {1} /\ <<r>>[1] = r
    BY <1>0, <1>b
  <2>2. Asks(<<r>>)
    BY <1>b, <2>1, Zenon
  <2>. QED  BY <2>1, <2>2, Zenon
<1>c. toServer' = toServer => \E out \in Seq(Request) : Asks(out)
  BY <1>0, <1>a, Zenon
<1>1. CASE DeviceEvent
  <2>1. Receive("new") /\ UNCHANGED client /\ toServer' = Append(toServer, [t |-> "sink", i |-> h.i])
    BY <1>1, Zenon DEF DeviceEvent
  <2>2. [t |-> "sink", i |-> h.i] \in Request
    BY <2>1, ReceiveTypes, NoticeFields, Zenon DEF Request
  <2>. QED  BY <1>b, <2>1, <2>2, Zenon DEF Ignorant
<1>2. CASE StreamEvent
  <2>1. Receive("open") /\ UNCHANGED client /\ toServer' = Append(toServer, [t |-> "input", s |-> h.s])
    BY <1>2, Zenon DEF StreamEvent
  <2>2. [t |-> "input", s |-> h.s] \in Request
    BY <2>1, ReceiveTypes, NoticeFields, Zenon DEF Request
  <2>. QED  BY <1>b, <2>1, <2>2, Zenon DEF Ignorant
<1>3. CASE DeviceRemoved
  <2>1. /\ sinks' = Without(sinks, h.i) /\ autoDefault(Without(sinks, h.i), bHDMI)
        /\ UNCHANGED sinkInputs
    BY <1>3, Zenon DEF DeviceRemoved
  <2>2. DOMAIN Without(sinks, h.i) = {}
    BY Zenon DEF Without, Ignorant
  <2>3. UNCHANGED <<defaultSinkName, toServer>>
    BY <2>1, <2>2, AutoDefaultEmpty, Zenon
  <2>. QED  BY <1>c, <2>1, <2>2, <2>3, Zenon DEF Ignorant
<1>4. CASE StreamRemoved
  <2>1. /\ UNCHANGED <<sinks, defaultSinkName, toServer>> /\ sinkInputs' = sinkInputs \ {h.s}
    BY <1>4, Zenon DEF StreamRemoved
  <2>. QED  BY <1>c, <2>1, Zenon DEF Ignorant
<1>5. ~updateSink /\ ~updateSinkInput /\ ~updateServer
  BY Zenon DEF updateSink, updateSinkInput, updateServer, Receive
<1>. QED  BY <1>1, <1>2, <1>3, <1>4, <1>5, Zenon DEF Client

LEMMA FirstClient ==
  ASSUME TypeOK, SessionOK, NamesOK, FirstOK, Client, ~Ready
  PROVE  FirstOK'
<1> DEFINE h == Head(toClient)
           Late == {"info", "stream", "server"}
<1>1. PICK out \in Seq(Request) : Handled(out)
  BY ClientHandles, Zenon
<1>2. /\ toServer \in Seq(Request) /\ toClient \in Seq(Notice) /\ toClient # <<>>
      /\ toClient' = Tail(toClient) /\ toServer' = toServer \o out /\ subscribed' = subscribed
      /\ \A k \in DOMAIN out : out[k].t # "server"
  BY <1>1, Zenon DEF TypeOK, Handled
<1>3. subscribed'
  BY <1>2, Zenon DEF SessionOK
<1>4. /\ 1 \in DOMAIN toClient /\ toClient[1] = h
      /\ \A p \in DOMAIN toClient' : /\ p + 1 \in DOMAIN toClient /\ toClient'[p] = toClient[p + 1]
                                     /\ p \in Nat /\ 1 < p + 1
                                     /\ \A q \in DOMAIN toClient' : q < p => q + 1 < p + 1
  BY <1>2, HeadTail
<1>5. CASE ~Ignorant \/ h.t \in Late
  <2>1. \A p \in DOMAIN toServer : toServer[p].t # "server"
    BY <1>4, <1>5, Zenon DEF FirstOK
  <2>2. \A p \in DOMAIN toServer' : toServer'[p].t # "server"
    BY <1>2, <2>1, ConcatCases
  <2>3. \A p \in DOMAIN toClient' : toClient'[p].t # "server"
    BY <1>4, <1>5, Zenon DEF FirstOK
  <2>. QED  BY <1>3, <2>2, <2>3, Zenon DEF FirstOK
<1>6. CASE Ignorant /\ h.t \notin Late
  <2>1. PICK asks \in Seq(Request) :
          /\ toServer' = toServer \o asks
          /\ \A k \in DOMAIN asks : asks[k].t \notin {"server", "default"}
    BY <1>6, IgnorantClient, Zenon
  <2>2. Ignorant'
    BY <1>6, IgnorantClient, Zenon
  <2>3. \A p \in DOMAIN toServer' :
          \/ p \in DOMAIN toServer /\ toServer'[p] = toServer[p]
          \/ \E k \in DOMAIN asks : toServer'[p] = asks[k]
    BY <1>2, <2>1, ConcatCases
  <2>4. \A p, q \in DOMAIN toServer' : p \in DOMAIN toServer /\ q < p => q \in DOMAIN toServer /\ toServer'[q] = toServer[q]
    BY <1>2, <2>1, ConcatCases
  <2>5. ASSUME NEW p \in DOMAIN toServer', toServer'[p].t = "server"
        PROVE  /\ \A q \in DOMAIN toServer' : toServer'[q].t # "default" /\ (q < p => toServer'[q].t = "subscribe")
               /\ \A q \in DOMAIN toClient' : toClient'[q].t \notin Late
    <3>1. p \in DOMAIN toServer /\ toServer[p].t = "server"
      BY <2>1, <2>3, <2>5, Zenon
    <3>2. /\ \A q \in DOMAIN toServer : toServer[q].t # "default" /\ (q < p => toServer[q].t = "subscribe")
          /\ \A q \in DOMAIN toClient : toClient[q].t \notin Late
      BY <3>1, Zenon DEF FirstOK
    <3>3. \A q \in DOMAIN toServer' : toServer'[q].t # "default"
      BY <2>1, <2>3, <3>2, Zenon
    <3>. QED  BY <1>4, <2>4, <3>1, <3>2, <3>3, Zenon
  <2>6. ASSUME NEW p \in DOMAIN toClient', toClient'[p].t = "server"
        PROVE  \A q \in DOMAIN toClient' : q < p => toClient'[q].t \notin Late
    BY <1>4, <2>6, Zenon DEF FirstOK
  <2>. QED  BY <1>3, <2>2, <2>5, <2>6, Zenon DEF FirstOK
<1>. QED  BY <1>5, <1>6, Zenon

LEMMA FirstServe ==
  ASSUME TypeOK, SessionOK, FirstOK, Serve
  PROVE  FirstOK'
<1> DEFINE m == Head(toServer)
           Late == {"info", "stream", "server"}
<1>1. /\ m \in Request /\ toServer # <<>> /\ toServer' = Tail(toServer)
      /\ toServer \in Seq(Request) /\ toClient \in Seq(Notice)
      /\ Ignorant' <=> Ignorant
      /\ ~subscribed' => ~subscribed
  BY ServeTypes, Zenon DEF Serve, client, TypeOK, Ignorant
<1>2. PICK a \in Answers(m) : toClient' = toClient \o a
  BY ServeTypes, Zenon
<1>3. a \in Seq(Notice)
  BY <1>1, <1>2, AnswersTold, Zenon
<1>4. \A k \in DOMAIN a : /\ m.t # "subscribe"
                          /\ a[k].t = "server" => m.t = "server"
  <2>1. \A k \in DOMAIN a :
          \/ m.t \in {"sink", "sinks"} /\ \E i \in DOMAIN present : a[k] = Info(i)
          \/ m.t \in {"input", "inputs"} /\ \E x \in DOMAIN on : a[k] = StreamInfo(x)
          \/ m.t = "server" /\ a[k] = [t |-> "server", d |-> srvDefault]
    BY <1>1, <1>2, AnswersTold, Zenon
  <2>. QED  BY <2>1, SMTT(20) DEF Info, StreamInfo
<1>5. /\ 1 \in DOMAIN toServer /\ toServer[1] = m
      /\ \A p \in DOMAIN toServer' : /\ p + 1 \in DOMAIN toServer /\ toServer'[p] = toServer[p + 1]
                                     /\ p \in Nat /\ 1 < p + 1
                                     /\ \A q \in DOMAIN toServer' : q < p => q + 1 < p + 1
  BY <1>1, HeadTail
<1>6. /\ \A p \in DOMAIN toClient : p \in DOMAIN toClient' /\ toClient'[p] = toClient[p]
      /\ \A p \in DOMAIN toClient' : p \in DOMAIN toClient \/ \E k \in DOMAIN a : toClient'[p] = a[k]
      /\ \A p \in DOMAIN toClient, x \in DOMAIN toClient' : x < p => x \in DOMAIN toClient
  <2> DEFINE Cases(c) ==
        /\ \A p \in DOMAIN toClient : p \in DOMAIN c /\ c[p] = toClient[p]
        /\ \A p \in DOMAIN c : p \in DOMAIN toClient \/ \E k \in DOMAIN a : c[p] = a[k]
        /\ \A p \in DOMAIN toClient, x \in DOMAIN c : x < p => x \in DOMAIN toClient
  <2>1. Cases(toClient \o a)
    BY <1>1, <1>3, ConcatCases, Zenon
  <2> HIDE DEF Cases
  <2>2. Cases(toClient')
    BY <1>2, <2>1, Zenon
  <2>. QED  BY <2>2, Zenon DEF Cases
<1>7. ASSUME NEW p \in DOMAIN toServer', toServer'[p].t = "server"
      PROVE  /\ Ignorant
             /\ \A q \in DOMAIN toServer' : toServer'[q].t # "default" /\ (q < p => toServer'[q].t = "subscribe")
             /\ \A q \in DOMAIN toClient' : toClient'[q].t \notin Late
  <2>1. /\ Ignorant
        /\ \A q \in DOMAIN toServer : toServer[q].t # "default" /\ (q < p + 1 => toServer[q].t = "subscribe")
        /\ \A q \in DOMAIN toClient : toClient[q].t \notin Late
    BY <1>5, <1>7, Zenon DEF FirstOK
  <2>2. m.t = "subscribe"
    BY <1>5, <2>1, Zenon
  <2>3. \A q \in DOMAIN toClient' : q \in DOMAIN toClient
    BY <1>4, <1>6, <2>2, Zenon
  <2>. QED  BY <1>5, <1>6, <2>1, <2>3, Zenon
<1>8. ASSUME NEW p \in DOMAIN toClient', toClient'[p].t = "server"
      PROVE  Ignorant /\ \A q \in DOMAIN toClient' : q < p => toClient'[q].t \notin Late
  <2>1. CASE p \in DOMAIN toClient
    BY <1>6, <1>8, <2>1, Zenon DEF FirstOK
  <2>2. CASE p \notin DOMAIN toClient
    <3>1. m.t = "server"
      BY <1>4, <1>6, <1>8, <2>2, Zenon
    <3>2. Ignorant /\ \A q \in DOMAIN toClient : toClient[q].t \notin Late
      BY <1>5, <3>1, Zenon DEF FirstOK
    <3>3. Len(a) = 1
      <4> HIDE DEF m
      <4>1. a = <<[t |-> "server", d |-> srvDefault]>>
        BY <1>1, <1>2, <3>1, AnswerServer, Zenon
      <4>. QED  BY <4>1, Zenon
    <3>4. \A q \in DOMAIN toClient' : q < p => q \in DOMAIN toClient
      BY <1>1, <1>2, <1>3, <3>3, ConcatOne, Zenon
    <3>. QED  BY <1>6, <3>2, <3>4, Zenon
  <2>. QED  BY <2>1, <2>2, Zenon
<1>9. ~subscribed' => Ignorant
  BY <1>1, Zenon DEF FirstOK
<1>. QED  BY <1>1, <1>7, <1>8, <1>9, Zenon DEF FirstOK

LEMMA FirstWorld ==
  ASSUME TypeOK, FirstOK, World
  PROVE  FirstOK'
<1> DEFINE Late == {"info", "stream", "server"}
<1>1. PICK a \in Seq(Notice) : Tell(a) /\ Told(a) /\ UNCHANGED <<subscribed, sinks, sinkInputs>>
  BY WorldTells, Zenon
<1>2. toClient \in Seq(Notice) /\ toServer \in Seq(Request) /\ (toClient' = toClient \o a \/ toClient' = toClient)
  BY <1>1, Zenon DEF Tell, TypeOK
<1>3. \A k \in DOMAIN a : a[k].t \notin Late
  BY <1>1 DEF Told
<1>4. /\ \A p \in DOMAIN toClient' :
           toClient'[p].t \in Late => p \in DOMAIN toClient /\ toClient'[p] = toClient[p]
  <2>1. CASE toClient' = toClient
    BY <2>1, Zenon
  <2>2. CASE toClient' = toClient \o a
    BY <1>2, <1>3, <2>2, ConcatCases
  <2>. QED  BY <1>2, <2>1, <2>2, Zenon
<1>5. ASSUME toServer' = toServer, defaultSinkName' = defaultSinkName
      PROVE  FirstOK'
  <2>1. Ignorant' <=> Ignorant
    BY <1>1, <1>5, Zenon DEF Ignorant
  <2>2. "server" \in Late
    BY Zenon
  <2> HIDE DEF Late
  <2>. QED  BY <1>1, <1>4, <1>5, <2>1, <2>2, Zenon DEF FirstOK, Late
<1>6. ASSUME NEW hdmi \in BOOLEAN, changeProfile(hdmi)
      PROVE  FirstOK'
  <2>1. CASE UNCHANGED <<lapsed, defaultSinkName, toServer>>
    BY <1>5, <2>1, Zenon
  <2>2. CASE autoDefault(sinks, hdmi)
    <3>1. CASE Ignorant
      <4>1. DOMAIN sinks = {}
        BY <3>1, Zenon DEF Ignorant
      <4>2. UNCHANGED <<defaultSinkName, toServer>>
        BY <2>2, <4>1, AutoDefaultEmpty, Zenon
      <4>. QED  BY <1>5, <4>2, Zenon
    <3>2. CASE ~Ignorant
      <4>1. DOMAIN sinks \subseteq 1..env.last /\ sinks \in [DOMAIN sinks -> Device] /\ env.last \in Nat
        BY Zenon DEF TypeOK
      <4>2. PICK out \in Seq(Request) :
              /\ toServer' = toServer \o out
              /\ \A p \in DOMAIN out : out[p].t \in {"default", "move"}
        BY <2>2, <4>1, AutoDefaultSends, Zenon
      <4>3. /\ subscribed
            /\ \A p \in DOMAIN toServer : toServer[p].t # "server"
            /\ \A p \in DOMAIN toClient : toClient[p].t # "server"
        BY <3>2, Zenon DEF FirstOK
      <4>4. \A p \in DOMAIN toServer' : toServer'[p].t # "server"
        <5>1. \A p \in DOMAIN out : out[p].t # "server"
          BY <4>2, Zenon
        <5>. QED  BY <1>2, <4>2, <4>3, <5>1, ConcatCases
      <4>5. \A p \in DOMAIN toClient' : toClient'[p].t # "server"
        BY <1>4, <4>3, Zenon
      <4>. QED  BY <1>1, <4>3, <4>4, <4>5, Zenon DEF FirstOK
    <3>. QED  BY <3>1, <3>2, Zenon
  <2>. QED  BY <1>6, <2>1, <2>2, Zenon DEF changeProfile
<1>7. CASE UNCHANGED <<setup, status, client, subscribed, toServer>>
  BY <1>5, <1>7, Zenon DEF client
<1>. QED  BY <1>6, <1>7, WorldKinds, Zenon

LEMMA FirstStep ==
  ASSUME TypeOK, SessionOK, NamesOK, FirstOK, Next
  PROVE  FirstOK'
<1>1. CASE Ready
  <2>1. toServer' = Hello /\ status = "start" /\ UNCHANGED <<client, subscribed, toClient>>
    BY <1>1, Zenon DEF Ready, server
  <2>2. ~subscribed /\ DOMAIN toClient' = {}
    BY <2>1 DEF SessionOK
  <2>3. Ignorant'
    BY <2>1, <2>2, Zenon DEF FirstOK, Ignorant, client
  <2>4. \A p, q \in DOMAIN Hello : /\ Hello[q].t # "default"
                                   /\ Hello[p].t = "server" /\ q < p => Hello[q].t = "subscribe"
    BY DEF Hello
  <2>. QED  BY <2>1, <2>2, <2>3, <2>4, Zenon DEF FirstOK
<1>2. CASE Client /\ ~Ready
  BY <1>2, FirstClient, Zenon
<1>. QED  BY <1>1, <1>2, FirstServe, FirstWorld, Zenon DEF Next, Client

-----------------------------------------------------------------------------
\* The client's default is what it would choose.

LEMMA ChoiceSame ==
  ASSUME UNCHANGED <<side, termialType>>, NEW devices, sinks' = devices, NEW hdmi, bHDMI' = hdmi
  PROVE  Choice(sinks, bHDMI)' = Choice(devices, hdmi)
BY DEF Choice, prio_type

LEMMA ChoiceIDV ==
  ASSUME side = "sink", termialType = "IDV", NEW devices, NEW g, NEW h
  PROVE  Choice(devices, g) = Choice(devices, h)
<1> DEFINE Rank(i, x) == CASE prio_type(devices[i]) = "USB" -> 3
                           [] prio_type(devices[i]) = "HDMI" -> IF side = "sink" /\ x THEN 2 ELSE 0
                           [] OTHER -> 1
           First(x) == {i \in DOMAIN devices :
                          /\ Rank(i, x) > 0
                          /\ \A j \in DOMAIN devices :
                               Rank(j, x) < Rank(i, x) \/ (Rank(j, x) = Rank(i, x) /\ j <= i)}
<1>1. \A i : prio_type(devices[i]) = "inner analog"
  BY Zenon DEF prio_type
<1>2. \A i : Rank(i, g) = Rank(i, h)
  BY <1>1, Zenon
<1>3. \A x : Choice(devices, x) = IF First(x) = {} THEN None ELSE devices[CHOOSE i \in First(x) : TRUE]
  BY Zenon DEF Choice
<1> HIDE DEF Rank
<1>4. First(g) = First(h)
  BY <1>2, Zenon
<1> HIDE DEF First
<1>. QED  BY <1>3, <1>4, Zenon

LEMMA AutoDefaultChooses ==
  ASSUME NEW devices, NEW hdmi, autoDefault(devices, hdmi)
  PROVE  ~lapsed' => defaultSinkName' = Choice(devices, hdmi) /\ defaultSinkName' # None
BY Zenon DEF autoDefault

LEMMA ChosenStep ==
  ASSUME TypeOK, FirstOK, ChosenOK, Next
  PROVE  ChosenOK'
<1> DEFINE Whose == inner => side = "sink" /\ termialType \in {"IDV", "VDI"}
           What == ~lapsed /\ DOMAIN sinks # {} =>
                     defaultSinkName = Choice(sinks, bHDMI) /\ defaultSinkName # None
<1> USE DEF setup, client
<1>0. Whose /\ What /\ UNCHANGED <<side, termialType>>
  <2>1. UNCHANGED <<side, termialType>>
    BY Zenon DEF Next, Client, Ready, DeviceEvent, DeviceRemoved, StreamEvent, StreamRemoved,
         updateSink, updateSinkInput, updateServer, Serve, World, changeProfile, Plug, Unplug,
         Change, Open, Close
  <2>. QED  BY <2>1, Zenon DEF ChosenOK
<1>1. ASSUME NEW devices, sinks' = devices, NEW hdmi, bHDMI' = hdmi, autoDefault(devices, hdmi)
      PROVE  What'
  <2>1. Choice(sinks, bHDMI)' = Choice(devices, hdmi)
    BY <1>0, <1>1, ChoiceSame, Zenon
  <2>. QED  BY <1>1, <2>1, AutoDefaultChooses, Zenon
<1>2. ASSUME UNCHANGED <<lapsed, sinks, defaultSinkName, bHDMI>>
      PROVE  What'
  <2>1. PICK devices, hdmi : devices = sinks /\ hdmi = bHDMI
    BY Zenon
  <2>2. Choice(sinks, bHDMI)' = Choice(devices, hdmi)
    BY <1>0, <1>2, <2>1, ChoiceSame, Zenon
  <2>. QED  BY <1>0, <1>2, <2>1, <2>2, Zenon
<1>3. CASE DeviceRemoved
  <2>1. PICK devices, hdmi : devices = Without(sinks, Head(toClient).i) /\ hdmi = bHDMI
    BY Zenon
  <2>2. sinks' = devices /\ bHDMI' = hdmi /\ autoDefault(devices, hdmi) /\ inner' = inner
    BY <1>3, <2>1, Zenon DEF DeviceRemoved
  <2>. QED  BY <1>0, <1>1, <2>2, Zenon DEF ChosenOK
<1>4. CASE updateSink
  <2>1. PICK devices, hdmi : devices = With(sinks, Head(toClient).i, Head(toClient).d) /\ hdmi = bHDMI
    BY Zenon
  <2>2. sinks' = devices /\ bHDMI' = hdmi /\ autoDefault(devices, hdmi)
    BY <1>4, <2>1, Zenon DEF updateSink
  <2>3. What'
    BY <1>1, <2>2, Zenon
  <2>4. Whose'
    BY <1>0, <1>4, Zenon DEF updateSink
  <2>. QED  BY <2>3, <2>4, Zenon DEF ChosenOK
<1>5. CASE updateServer
  <2>1. Receive("server") /\ UNCHANGED <<sinks, inner>>
    BY <1>5, Zenon DEF updateServer
  <2>2. DOMAIN sinks = {}
    BY <2>1, ReceiveTypes, Zenon DEF FirstOK, Ignorant
  <2>. QED  BY <1>0, <2>1, <2>2, Zenon DEF ChosenOK
<1>6. ASSUME NEW hdmi \in BOOLEAN, changeProfile(hdmi)
      PROVE  ChosenOK'
  <2>1. inner /\ UNCHANGED <<inner, sinks>> /\ bHDMI' = hdmi
    BY <1>6, Zenon DEF changeProfile
  <2>2. CASE termialType = "VDI"
    <3>1. PICK devices : devices = sinks
      BY Zenon
    <3>2. sinks' = devices /\ autoDefault(devices, hdmi)
      BY <1>6, <2>2, <3>1, Zenon DEF changeProfile
    <3>. QED  BY <1>0, <1>1, <2>1, <3>2, Zenon DEF ChosenOK
  <2>3. CASE termialType # "VDI"
    <3>1. side = "sink" /\ termialType = "IDV"
      BY <1>0, <2>1, <2>3, Zenon
    <3>2. UNCHANGED <<lapsed, defaultSinkName>>
      BY <1>6, <2>3, Zenon DEF changeProfile
    <3>3. PICK devices : devices = sinks
      BY Zenon
    <3>4. Choice(sinks, bHDMI)' = Choice(devices, hdmi)
      BY <1>0, <2>1, <3>3, ChoiceSame, Zenon
    <3>5. Choice(devices, hdmi) = Choice(devices, bHDMI)
      BY <3>1, ChoiceIDV, Zenon
    <3>. QED  BY <1>0, <2>1, <3>2, <3>3, <3>4, <3>5, Zenon DEF ChosenOK
  <2>. QED  BY <2>2, <2>3, Zenon
<1>7. CASE UNCHANGED <<lapsed, sinks, defaultSinkName, bHDMI, inner>>
  BY <1>0, <1>2, <1>7, Zenon DEF ChosenOK
<1>8. CASE Ready \/ DeviceEvent \/ StreamEvent \/ StreamRemoved \/ updateSinkInput
  BY <1>7, <1>8, Zenon DEF Ready, DeviceEvent, StreamEvent, StreamRemoved, updateSinkInput
<1>9. CASE Serve
  BY <1>7, <1>9, Zenon DEF Serve
<1>10. CASE World
  BY <1>6, <1>7, <1>10, WorldKinds, Zenon
<1>. QED  BY <1>3, <1>4, <1>5, <1>8, <1>9, <1>10, Zenon DEF Next, Client

-----------------------------------------------------------------------------
\* The client's choice stands at the server.

LEMMA HeldMore ==
  ASSUME NEW q, NEW now, NEW next, NEW adds, NEW drops, now => next, Held(q, now, adds, drops)
  PROVE  Held(q, next, adds, drops)
BY Zenon DEF Held

\* Messages about other things change nothing.
LEMMA HeldOther ==
  ASSUME NEW Msg, NEW q \in Seq(Msg), NEW a \in Seq(Msg), NEW now, NEW adds, NEW drops,
         \A p \in DOMAIN a : a[p] \notin drops, Held(q, now, adds, drops)
  PROVE  Held(q \o a, now, adds, drops)
<1>1. Held(q \o a, now, adds, drops) <=> Held(a, Held(q, now, adds, drops), adds, drops)
  BY HeldConcat, Zenon
<1>. QED  BY <1>1, Zenon DEF Held, NoneAfter

LEMMA HeldSent ==
  ASSUME NEW Msg, NEW q \in Seq(Msg), NEW a \in Seq(Msg), NEW now, NEW adds, NEW drops,
         \A p \in DOMAIN a : a[p] \notin drops, \E p \in DOMAIN a : a[p] \in adds
  PROVE  Held(q \o a, now, adds, drops)
<1>1. Held(q \o a, now, adds, drops) <=> Held(a, Held(q, now, adds, drops), adds, drops)
  BY HeldConcat, Zenon
<1>. QED  BY <1>1, Zenon DEF Held, NoneAfter

\* A step of the world that is not the application's.
LEMMA RoutesWorld ==
  ASSUME TypeOK, SessionOK, DevicesOK, NamesOK, ServerOK, FirstOK, RoutesOK, World,
         UNCHANGED <<lapsed, defaultSinkName, toServer>>
  PROVE  RoutesOK'
<1>1. PICK a \in Seq(Notice) : Tell(a) /\ Told(a) /\ UNCHANGED <<subscribed, sinks>>
  BY WorldTells, Zenon
<1>2. CASE ~subscribed
  <2>1. DOMAIN toClient' = {} /\ defaultSinkName = None
    BY <1>1, <1>2, Zenon DEF SessionOK, Tell, FirstOK, Ignorant
  <2>. QED  BY <2>1, AudioCoreAssumption, Zenon DEF RoutesOK
<1>3. CASE subscribed
  <2> SUFFICES ASSUME NEW d \in Device
               PROVE  /\ ~lapsed /\ defaultSinkName = d => GoneAfter(0, d)' \/ Settled(d)'
                      /\ \A p \in DOMAIN toClient' : toClient'[p] = [t |-> "server", d |-> d] =>
                           GoneAfter(p, d)' \/ Stands(d)'
    BY Zenon DEF RoutesOK
  <2>1. toClient' = toClient \o a /\ toClient \in Seq(Notice)
    BY <1>1, <1>3, Zenon DEF Tell, TypeOK
  <2>2. /\ 0 \in 0..Len(toClient)
        /\ \A p \in DOMAIN toClient : p \in 0..Len(toClient) /\ toClient'[p] = toClient[p]
        /\ \A p \in DOMAIN toClient' : p \in DOMAIN toClient \/ \E k \in DOMAIN a : toClient'[p] = a[k]
    BY <2>1, ConcatCases
  <2>3. \A q : GoneAfter(q, d) => GoneAfter(q, d)'
    BY <1>1, <2>1, GoneKept, Zenon
  <2>4. ASSUME Plugged(d), ~Plugged(d)', NEW q \in 0..Len(toClient)
        PROVE  GoneAfter(q, d)'
    <3>1. PICK k \in DOMAIN present : d = present[k]
      BY <2>4, Zenon DEF Plugged
    <3>2. k \in DOMAIN present \ DOMAIN present'
      BY <1>1, <2>4, <3>1, Zenon DEF Plugged, Told
    <3>. QED  BY <1>1, <1>3, <2>4, <3>1, <3>2, GoneNew, Zenon
  <2>5. Plugged(d) /\ Plugged(d)' =>
          /\ srvDefault = d => srvDefault' = d
          /\ \A s \in DOMAIN on \cap DOMAIN on' : on[s] = d => on'[s] = d
    BY ServerWorld, Zenon
  <2>6. Stands(d) /\ Plugged(d)' => Stands(d)'
    BY <2>5, HeldMore, Zenon DEF Stands, DefaultHeld
  <2>7. ASSUME Settled(d), Plugged(d)'
        PROVE  Settled(d)'
    <3>1. Stands(d)' /\ Plugged(d)
      BY <2>6, <2>7, Zenon DEF Settled, Stands
    <3>2. ASSUME NEW s \in DOMAIN on'
          PROVE  Pending(s)' \/ StreamOn(s, d)'
      <4>0. \A m : m \in Range(toClient) \/ m \in Range(a) => m \in Range(toClient')
        BY <2>1, RangeConcat, Zenon
      <4>1. CASE s \notin DOMAIN on
        <5>1. [t |-> "open", s |-> s] \in Range(a)
          BY <1>1, <4>1, Zenon DEF Told
        <5>. QED  BY <4>0, <5>1, Zenon DEF Pending
      <4>2. CASE s \in DOMAIN on /\ Pending(s)
        BY <4>0, <4>2, Zenon DEF Pending
      <4>3. CASE s \in DOMAIN on /\ StreamOn(s, d)
        <5>1. on[s] = d => on'[s] = d
          BY <2>5, <2>7, <3>1, <4>3, Zenon
        <5>. QED  BY <4>3, <5>1, HeldMore, Zenon DEF StreamOn
      <4>. QED  BY <2>7, <4>1, <4>2, <4>3, Zenon DEF Settled
    <3>. QED  BY <3>1, <3>2, Zenon DEF Settled
  <2>8. ~lapsed /\ defaultSinkName = d => GoneAfter(0, d)' \/ Settled(d)'
    <3>1. Settled(d) => Plugged(d)
      BY Zenon DEF Settled, Stands
    <3>. QED  BY <2>2, <2>3, <2>4, <2>7, <3>1, Zenon DEF RoutesOK
  <2>9. ASSUME NEW p \in DOMAIN toClient', toClient'[p] = [t |-> "server", d |-> d]
        PROVE  GoneAfter(p, d)' \/ Stands(d)'
    <3>1. \A k \in DOMAIN a : a[k] # [t |-> "server", d |-> d]
      BY <1>1 DEF Told
    <3>2. p \in DOMAIN toClient /\ p \in 0..Len(toClient) /\ toClient[p] = [t |-> "server", d |-> d]
      BY <2>2, <2>9, <3>1, Zenon
    <3>3. GoneAfter(p, d) \/ Stands(d)
      BY <3>2, Zenon DEF RoutesOK
    <3>4. Stands(d) => Plugged(d)
      BY Zenon DEF Stands
    <3>. QED  BY <2>3, <2>4, <2>6, <3>2, <3>3, <3>4, Zenon
  <2>. QED  BY <2>8, <2>9, Zenon
<1>. QED  BY <1>2, <1>3, Zenon

\* A request is served: what will hold in the end, holds of a device that exists.
LEMMA RoutesServe ==
  ASSUME TypeOK, ServerOK, FirstOK, RoutesOK, Serve
  PROVE  RoutesOK'
<1> DEFINE m == Head(toServer)
<1>1. /\ m \in Request /\ toServer # <<>> /\ toServer' = Tail(toServer)
      /\ toServer \in Seq(Request) /\ toClient \in Seq(Notice)
      /\ UNCHANGED <<lapsed, defaultSinkName, sinks, present>> /\ DOMAIN on' = DOMAIN on
  BY ServeTypes, Zenon DEF Serve, client, TypeOK
<1>2. PICK a \in Answers(m) : toClient' = toClient \o a
  BY ServeTypes, Zenon
<1>3. a \in Seq(Notice)
  BY <1>1, <1>2, AnswersTold, Zenon
<1> SUFFICES ASSUME NEW d \in Device
             PROVE  /\ ~lapsed /\ defaultSinkName = d => GoneAfter(0, d)' \/ Settled(d)'
                    /\ \A p \in DOMAIN toClient' : toClient'[p] = [t |-> "server", d |-> d] =>
                         GoneAfter(p, d)' \/ Stands(d)'
  BY <1>1, Zenon DEF RoutesOK
<1>4. \A q : GoneAfter(q, d) => GoneAfter(q, d)'
  BY <1>1, <1>2, <1>3, GoneKept, Zenon
<1>5. Plugged(d)' <=> Plugged(d)
  BY <1>1, Zenon DEF Plugged
<1>6. Stands(d) => Stands(d)'
  <2> DEFINE adds == {[t |-> "default", d |-> d]}
             drops == [t : {"default"}, d : Device \ {d}]
             next == m \in adds \/ (srvDefault = d /\ m \notin drops)
  <2>1. Plugged(d) /\ next => srvDefault' = d
    <3>1. m.t = "default" => m.d \in Device /\ m = [t |-> "default", d |-> m.d]
      BY <1>1, RequestFields, Zenon
    <3>2. srvDefault' = IF m.t = "default" /\ Plugged(m.d) THEN m.d ELSE srvDefault
      BY Zenon DEF Serve
    <3>3. m \in adds => m.t = "default" /\ m.d = d
      OBVIOUS
    <3>4. m.t = "default" /\ m \notin drops => m.d = d
      BY <3>1
    <3> HIDE DEF m, adds, drops
    <3>. QED  BY <3>2, <3>3, <3>4, Zenon
  <2>2. /\ DefaultHeld(d) <=> Held(toServer, srvDefault = d, adds, drops)
        /\ DefaultHeld(d)' <=> Held(Tail(toServer), srvDefault' = d, adds, drops)
    BY <1>1, Zenon DEF DefaultHeld
  <2>3. next <=> Head(toServer) \in adds \/ (srvDefault = d /\ Head(toServer) \notin drops)
    BY Zenon
  <2> HIDE DEF adds, drops, next, m
  <2>4. Held(Tail(toServer), next, adds, drops) <=> Held(toServer, srvDefault = d, adds, drops)
    BY <1>1, <2>3, HeldTail, Zenon
  <2>5. Plugged(d) /\ Held(Tail(toServer), next, adds, drops) =>
          Held(Tail(toServer), srvDefault' = d, adds, drops)
    BY <2>1, Zenon DEF Held
  <2>. QED  BY <1>5, <2>2, <2>4, <2>5, ZenonT(30) DEF Stands
<1>7. ASSUME Settled(d)
      PROVE  Settled(d)'
  <2>0. Stands(d)' /\ Plugged(d)
    BY <1>6, <1>7, Zenon DEF Settled, Stands
  <2>1. ASSUME NEW s \in DOMAIN on
        PROVE  Pending(s)' \/ StreamOn(s, d)'
    <3>0. s \in Stream
      BY Zenon DEF TypeOK
    <3>1. CASE Pending(s)
      <4>1. \A x : x \in Range(toClient) \/ x \in Range(a) => x \in Range(toClient')
        BY <1>1, <1>2, <1>3, RangeConcat, Zenon
      <4>2. \A x : x \in Range(toServer) <=> m = x \/ x \in Range(toServer')
        BY <1>1, RangeTail, Zenon
      <4>3. m = [t |-> "inputs"] \/ m = [t |-> "input", s |-> s] => StreamInfo(s) \in Range(a)
        <5>1. m = [t |-> "inputs"] => m.t = "inputs"
          OBVIOUS
        <5> HIDE DEF m
        <5>2. m.t = "inputs" \/ m = [t |-> "input", s |-> s] => \E p \in DOMAIN a : a[p] = StreamInfo(s)
          BY <1>1, <1>2, AnswersAll, Zenon
        <5>. QED  BY <1>3, <5>1, <5>2, RangePlace, Zenon
      <4> HIDE DEF m
      <4>. QED  BY <3>1, <4>1, <4>2, <4>3, Zenon DEF Pending
    <3>2. CASE StreamOn(s, d)
      <4> DEFINE adds == {Move(s, d)}
                 drops == [t : {"move"}, s : {s}, d : (Device \cup {None}) \ {d}]
                 next == m \in adds \/ (on[s] = d /\ m \notin drops)
      <4>1. next => on'[s] = d
        <5>1. m.t = "move" => /\ m.s \in Stream /\ m.d \in Device \cup {None}
                              /\ m = [t |-> "move", s |-> m.s, d |-> m.d]
          BY <1>1, RequestFields, Zenon
        <5>2. on' = IF m.t = "move" /\ m.s \in DOMAIN on /\ Plugged(m.d)
                    THEN [on EXCEPT ![m.s] = m.d] ELSE on
          BY Zenon DEF Serve
        <5>3. m \in adds => m.t = "move" /\ m.s = s /\ m.d = d
          BY DEF Move
        <5>4. on \in [DOMAIN on -> Device]
          BY Zenon DEF TypeOK
        <5>5. CASE m \in adds
          BY <2>0, <5>2, <5>3, <5>4, <5>5, Zenon
        <5>6. CASE on[s] = d /\ m \notin drops
          <6>1. m.t = "move" /\ m.s = s => m.d = d
            BY <5>1, <5>6, Zenon
          <6>. QED  BY <5>2, <5>4, <5>6, <6>1, Zenon
        <5>. QED  BY <5>5, <5>6, Zenon
      <4>2. /\ StreamOn(s, d) <=> Held(toServer, on[s] = d, adds, drops)
            /\ StreamOn(s, d)' <=> Held(Tail(toServer), on'[s] = d, adds, drops)
        BY <1>1, Zenon DEF StreamOn, Move
      <4>3. next <=> Head(toServer) \in adds \/ (on[s] = d /\ Head(toServer) \notin drops)
        BY Zenon
      <4> HIDE DEF adds, drops, next, m
      <4>4. Held(Tail(toServer), next, adds, drops) <=> Held(toServer, on[s] = d, adds, drops)
        BY <1>1, <4>3, HeldTail, Zenon
      <4>5. Held(Tail(toServer), next, adds, drops) => Held(Tail(toServer), on'[s] = d, adds, drops)
        BY <4>1, Zenon DEF Held
      <4>. QED  BY <3>2, <4>2, <4>4, <4>5, Zenon
    <3>. QED  BY <1>7, <3>1, <3>2, Zenon DEF Settled
  <2>. QED  BY <1>1, <2>0, <2>1, Zenon DEF Settled
<1>8. ASSUME NEW p \in DOMAIN toClient', toClient'[p] = [t |-> "server", d |-> d]
      PROVE  GoneAfter(p, d)' \/ Stands(d)'
  <2>1. (p \in DOMAIN toClient /\ toClient'[p] = toClient[p]) \/ \E k \in DOMAIN a : toClient'[p] = a[k]
    BY <1>1, <1>2, <1>3, ConcatCases
  <2>2. CASE p \in DOMAIN toClient /\ toClient'[p] = toClient[p]
    BY <1>4, <1>6, <1>8, <2>2, Zenon DEF RoutesOK
  <2>3. CASE \E k \in DOMAIN a : toClient'[p] = a[k]
    <3>1. m.t = "server" /\ srvDefault = d
      <4>1. \A k \in DOMAIN a : \/ \E i \in DOMAIN present : a[k] = Info(i)
                                \/ \E s \in DOMAIN on : a[k] = StreamInfo(s)
                                \/ m.t = "server" /\ a[k] = [t |-> "server", d |-> srvDefault]
        BY <1>1, <1>2, AnswersTold, Zenon
      <4>. QED  BY <1>8, <2>3, <4>1 DEF Info, StreamInfo
    <3>2. Plugged(d)' /\ srvDefault' = d
      BY <1>5, <3>1, AudioCoreAssumption, Zenon DEF ServerOK, Serve
    <3>3. \A q \in DOMAIN toServer' : toServer'[q].t # "default"
      <4>1. \A q \in DOMAIN toServer : toServer[q].t # "default"
        BY <1>1, <3>1, HeadTail, Zenon DEF FirstOK
      <4>. QED  BY <1>1, <4>1, HeadTail, SMTT(20)
    <3>4. NoneAfter(toServer', 0, [t : {"default"}, d : Device \ {d}])
      BY <3>3, Zenon DEF NoneAfter
    <3>. QED  BY <3>2, <3>4, Zenon DEF Stands, DefaultHeld, Held
  <2>. QED  BY <2>1, <2>2, <2>3, Zenon
<1>. QED  BY <1>4, <1>7, <1>8, Zenon DEF RoutesOK

\* A stream the client does not have in its copy it will hear of.
LEMMA UnheardPending ==
  ASSUME StreamsOK', status' # "start", NEW s \in Stream, s \in DOMAIN on', s \notin sinkInputs'
  PROVE  Pending(s)'
<1>1. StreamHeld(s)' => StreamInfo(s) \in Range(toClient')
  BY Zenon DEF StreamHeld, Held, Range
<1>. QED  BY <1>1, Zenon DEF StreamsOK, Pending

LEMMA OrdersHeld ==
  ASSUME NEW q \in Seq(Request), NEW out \in Seq(Request), NEW d \in Device, Orders(out, d), NEW now
  PROVE  /\ Held(q \o out, now, {[t |-> "default", d |-> d]}, [t : {"default"}, d : Device \ {d}])
         /\ \A s \in sinkInputs : Held(q \o out, now, {Move(s, d)},
                                       [t : {"move"}, s : {s}, d : (Device \cup {None}) \ {d}])
<1>0. \A p \in DOMAIN out : out[p] = [t |-> "default", d |-> d] \/ \E s \in Stream : out[p] = Move(s, d)
  BY Zenon DEF Orders
<1>1. Held(q \o out, now, {[t |-> "default", d |-> d]}, [t : {"default"}, d : Device \ {d}])
  <2>1. \A p \in DOMAIN out : out[p] \notin [t : {"default"}, d : Device \ {d}]
    BY <1>0 DEF Move
  <2>2. \E p \in DOMAIN out : out[p] \in {[t |-> "default", d |-> d]}
    BY Zenon DEF Orders, Range
  <2>. QED  BY <2>1, <2>2, HeldSent, Zenon
<1>2. ASSUME NEW s \in sinkInputs
      PROVE  Held(q \o out, now, {Move(s, d)}, [t : {"move"}, s : {s}, d : (Device \cup {None}) \ {d}])
  <2>1. \A p \in DOMAIN out : out[p] \notin [t : {"move"}, s : {s}, d : (Device \cup {None}) \ {d}]
    BY <1>0 DEF Move
  <2>2. \E p \in DOMAIN out : out[p] \in {Move(s, d)}
    BY Zenon DEF Orders, Range
  <2>. QED  BY <2>1, <2>2, HeldSent, Zenon
<1>. QED  BY <1>1, <1>2, Zenon

\* autoDefault sets a default: it is settled, or the device goes again.
LEMMA RoutesChoose ==
  ASSUME TypeOK, TypeOK', StreamsOK', NamesOK', EntriesOK', NEW d \in Device,
         NEW i \in DOMAIN sinks', sinks'[i] = d, UNCHANGED sinkInputs, status' # "start",
         NEW out \in Seq(Request), toServer' = toServer \o out, Orders(out, d)
  PROVE  GoneAfter(0, d)' \/ Settled(d)'
<1>1. i \in DOMAIN present' \/ GoneAfter(0, d)'
  BY Zenon DEF EntriesOK
<1>2. CASE GoneAfter(0, d)'
  BY <1>2, Zenon
<1>3. CASE i \in DOMAIN present'
  <2>1. Plugged(d)'
    BY <1>3, Zenon DEF NamesOK, Plugged
  <2>2. toServer \in Seq(Request)
    BY Zenon DEF TypeOK
  <2>3. DefaultHeld(d)'
    BY <2>2, OrdersHeld, Zenon DEF DefaultHeld
  <2>4. ASSUME NEW s \in DOMAIN on'
        PROVE  Pending(s)' \/ StreamOn(s, d)'
    <3>1. CASE s \in sinkInputs
      <4>1. StreamOn(s, d)' <=> Held(toServer \o out, on'[s] = d, {Move(s, d)},
                                     [t : {"move"}, s : {s}, d : (Device \cup {None}) \ {d}])
        BY Zenon DEF StreamOn, Move
      <4>. QED  BY <2>2, <3>1, <4>1, OrdersHeld, Zenon
    <3>2. CASE s \notin sinkInputs'
      <4>1. s \in Stream
        BY Zenon DEF TypeOK
      <4>. QED  BY <3>2, <4>1, UnheardPending, Zenon
    <3>. QED  BY <3>1, <3>2, Zenon
  <2>. QED  BY <2>1, <2>3, <2>4, Zenon DEF Settled, Stands
<1>. QED  BY <1>1, <1>2, <1>3, Zenon

\* The client handles a message, and asks for nothing that would undo the choice.
LEMMA SettledClient ==
  ASSUME TypeOK, NEW out \in Seq(Request), Handled(out), UNCHANGED srvDefault,
         NEW asks \in Seq(Request), toServer' = toServer \o asks, NEW d \in Device,
         \A p \in DOMAIN asks : asks[p].t # "default" /\ (asks[p].t = "move" => asks[p].d = d),
         \A s \in Stream : Head(toClient) = StreamInfo(s) => Move(s, d) \in Range(asks),
         Settled(d)
  PROVE  Settled(d)'
<1>1. /\ toServer \in Seq(Request) /\ toClient \in Seq(Notice) /\ toClient # <<>>
      /\ toClient' = Tail(toClient) /\ UNCHANGED <<present, on>>
  BY Zenon DEF TypeOK, Handled
<1>2. Plugged(d)'
  BY <1>1, Zenon DEF Settled, Stands, Plugged
<1>3. DefaultHeld(d)'
  <2>1. \A p \in DOMAIN asks : asks[p] \notin [t : {"default"}, d : Device \ {d}]
    BY Zenon
  <2>2. DefaultHeld(d)
    BY Zenon DEF Settled, Stands
  <2>. QED  BY <1>1, <2>1, <2>2, HeldOther, Zenon DEF DefaultHeld
<1>4. ASSUME NEW s \in DOMAIN on
      PROVE  Pending(s)' \/ StreamOn(s, d)'
  <2> DEFINE adds == {Move(s, d)}
             drops == [t : {"move"}, s : {s}, d : (Device \cup {None}) \ {d}]
  <2>0. s \in Stream
    BY Zenon DEF TypeOK
  <2>1. /\ StreamOn(s, d) <=> Held(toServer, on[s] = d, adds, drops)
        /\ StreamOn(s, d)' <=> Held(toServer \o asks, on[s] = d, adds, drops)
    BY <1>1, Zenon DEF StreamOn, Move
  <2>2. \A p \in DOMAIN asks : asks[p] \notin drops
    BY Zenon
  <2>3. CASE StreamOn(s, d)
    <3> HIDE DEF adds, drops
    <3>. QED  BY <1>1, <2>1, <2>2, <2>3, HeldOther, Zenon
  <2>4. CASE Head(toClient) = StreamInfo(s)
    <3>1. \E p \in DOMAIN asks : asks[p] \in adds
      BY <2>0, <2>4, Zenon DEF Range
    <3> HIDE DEF adds, drops
    <3>. QED  BY <1>1, <2>1, <2>2, <3>1, HeldSent, Zenon
  <2>5. CASE Pending(s) /\ Head(toClient) # StreamInfo(s)
    <3>1. \A x : x \in Range(toServer) \/ x \in Range(out) => x \in Range(toServer')
      <4>1. toServer' = toServer \o out
        BY Zenon DEF Handled
      <4>. QED  BY <1>1, <4>1, RangeConcat, Zenon
    <3>2. \A x : x \in Range(toClient) => Head(toClient) = x \/ x \in Range(toClient')
      BY <1>1, RangeTail, Zenon
    <3>3. Head(toClient) = [t |-> "open", s |-> s] => [t |-> "input", s |-> s] \in Range(out)
      BY <2>0, Zenon DEF Handled
    <3>. QED  BY <2>5, <3>1, <3>2, <3>3, Zenon DEF Pending
  <2>. QED  BY <2>3, <2>4, <2>5, Zenon DEF Settled
<1>. QED  BY <1>1, <1>2, <1>3, <1>4, Zenon DEF Settled, Stands

\* A client that keeps its default.
LEMMA RoutesKeep ==
  ASSUME TypeOK, RoutesOK, NEW out \in Seq(Request), Handled(out),
         UNCHANGED <<srvDefault, lapsed, defaultSinkName>>,
         NEW asks \in Seq(Request), toServer' = toServer \o asks, NEW d \in Device,
         ~lapsed, defaultSinkName = d,
         \A p \in DOMAIN asks : asks[p].t # "default" /\ (asks[p].t = "move" => asks[p].d = d),
         \A s \in Stream : Head(toClient) = StreamInfo(s) => Move(s, d) \in Range(asks),
         Head(toClient).t # "remove" \/ \E i \in DOMAIN sinks' : sinks'[i] = d
  PROVE  GoneAfter(0, d)' \/ Settled(d)'
<1>1. GoneAfter(0, d) \/ Settled(d)
  BY Zenon DEF RoutesOK
<1>2. CASE GoneAfter(0, d)
  <2>1. ~Gone(1, d)
    BY GoneNow, Zenon
  <2>2. 0 \in Nat
    BY Zenon
  <2>. QED  BY <1>2, <2>1, <2>2, GoneAfterShift, Zenon
<1>3. CASE Settled(d)
  BY <1>3, SettledClient, Zenon
<1>. QED  BY <1>1, <1>2, <1>3, Zenon

\* The reply about the server is still true when it is handled, or its device goes.
LEMMA RoutesReply ==
  ASSUME TypeOK, NamesOK, FirstOK, RoutesOK, Client, ~Ready, NEW d \in Device,
         NEW p \in DOMAIN toClient', toClient'[p] = [t |-> "server", d |-> d]
  PROVE  GoneAfter(p, d)' \/ Stands(d)'
<1>1. PICK out \in Seq(Request) : Handled(out)
  BY ClientHandles, Zenon
<1>2. /\ toServer \in Seq(Request) /\ toClient \in Seq(Notice) /\ toClient # <<>>
      /\ toClient' = Tail(toClient) /\ present' = present
  BY <1>1, Zenon DEF TypeOK, Handled
<1>3. /\ p \in Nat /\ p + 1 \in DOMAIN toClient /\ toClient[p + 1] = [t |-> "server", d |-> d]
      /\ 1 \in DOMAIN toClient /\ toClient[1] = Head(toClient) /\ 1 < p + 1
  BY <1>2, HeadTail
<1>4. toClient[p + 1].t = "server"
  BY <1>3
<1>5. Ignorant /\ Head(toClient).t \notin {"info", "stream", "server"}
  BY <1>3, <1>4, Zenon DEF FirstOK
<1>6. PICK asks \in Seq(Request) : /\ toServer' = toServer \o asks
                                   /\ \A k \in DOMAIN asks : asks[k].t \notin {"server", "default"}
  BY <1>5, IgnorantClient, Zenon
<1>7. GoneAfter(p + 1, d) \/ Stands(d)
  BY <1>3, Zenon DEF RoutesOK
<1>8. CASE GoneAfter(p + 1, d)
  BY <1>1, <1>3, <1>8, GoneAfterShift, Zenon
<1>9. CASE Stands(d)
  <2>1. Plugged(d)' /\ DefaultHeld(d)
    BY <1>2, <1>9, Zenon DEF Stands, Plugged
  <2>2. \A k \in DOMAIN asks : asks[k] \notin [t : {"default"}, d : Device \ {d}]
    BY <1>6, Zenon
  <2>3. srvDefault' = srvDefault
    BY Zenon DEF Client, DeviceEvent, DeviceRemoved, StreamEvent, StreamRemoved, updateSink,
           updateSinkInput, updateServer, server
  <2>4. DefaultHeld(d)'
    BY <1>2, <1>6, <2>1, <2>2, <2>3, HeldOther, Zenon DEF DefaultHeld
  <2>. QED  BY <2>1, <2>4, Zenon DEF Stands
<1>. QED  BY <1>7, <1>8, <1>9, Zenon

\* A change of the client's table, and autoDefault on what it is then.
LEMMA RoutesTable ==
  ASSUME TypeOK, TypeOK', StreamsOK', NamesOK', EntriesOK', RoutesOK, NEW out \in Seq(Request), Handled(out),
         UNCHANGED <<srvDefault, sinkInputs, status>>, Head(toClient).t \in {"remove", "info"},
         NEW devices, sinks' = devices, NEW hdmi, autoDefault(devices, hdmi),
         NEW d \in Device, ~lapsed', defaultSinkName' = d
  PROVE  GoneAfter(0, d)' \/ Settled(d)'
<1>2. Choice(devices, hdmi) = d /\ d # None
  BY AutoDefaultChooses, Zenon
<1>3. PICK i \in DOMAIN sinks' : sinks'[i] = d
  BY <1>2, ChoiceIn, Zenon
<1>4. CASE d = defaultSinkName
  <2>1. UNCHANGED <<lapsed, defaultSinkName, toServer>>
    BY <1>2, <1>4, Zenon DEF autoDefault
  <2>2. <<>> \in Seq(Request) /\ toServer' = toServer \o <<>> /\ DOMAIN <<>> = {}
    <3>1. toServer \in Seq(Request)
      BY Zenon DEF TypeOK
    <3>. QED  BY <2>1, <3>1, ConcatNothing, Zenon
  <2>3. \A s \in Stream : Head(toClient) # StreamInfo(s)
    BY DEF StreamInfo
  <2>4. UNCHANGED <<srvDefault, lapsed, defaultSinkName>> /\ ~lapsed /\ defaultSinkName = d
    BY <1>4, <2>1, Zenon
  <2>. QED  BY <1>3, <2>2, <2>3, <2>4, RoutesKeep, Zenon
<1>5. CASE d # defaultSinkName
  <2>1. PICK orders \in Seq(Request) : toServer' = toServer \o orders /\ Orders(orders, d)
    BY <1>2, <1>5, AutoDefaultOrders, Zenon
  <2>2. status' # "start"
    BY Zenon DEF Handled
  <2>. QED  BY <1>3, <2>1, <2>2, RoutesChoose, Zenon
<1>. QED  BY <1>4, <1>5, Zenon

LEMMA RoutesClient ==
  ASSUME TypeOK, NamesOK, FirstOK, RoutesOK, TypeOK', StreamsOK', NamesOK', EntriesOK', Client, ~Ready
  PROVE  RoutesOK'
<1> DEFINE h == Head(toClient)
<1> USE DEF client, server
<1>0. PICK out \in Seq(Request) : Handled(out)
  BY ClientHandles, Zenon
<1> SUFFICES ASSUME NEW d \in Device, ~lapsed', defaultSinkName' = d
             PROVE  GoneAfter(0, d)' \/ Settled(d)'
  BY RoutesReply, Zenon DEF RoutesOK
<1>a. toServer \in Seq(Request) /\ toClient \in Seq(Notice) /\ <<>> \in Seq(Request) /\ DOMAIN <<>> = {}
  BY DEF TypeOK
<1>b. ASSUME NEW r \in Request, toServer' = Append(toServer, r)
      PROVE  toServer' = toServer \o <<r>> /\ <<r>> \in Seq(Request) /\ DOMAIN <<r>> = {1} /\ <<r>>[1] = r
  BY <1>a, <1>b
<1>1. CASE DeviceEvent
  <2>1. /\ Receive("new") /\ UNCHANGED <<srvDefault, lapsed, defaultSinkName>>
        /\ toServer' = Append(toServer, [t |-> "sink", i |-> h.i])
    BY <1>1, Zenon DEF DeviceEvent
  <2>2. PICK r \in Request : r.t = "sink" /\ toServer' = Append(toServer, r)
    BY <2>1, ReceiveTypes, NoticeFields, Zenon DEF Request
  <2>3. h.t # "remove" /\ \A s \in Stream : h # StreamInfo(s)
    BY <2>1, ReceiveTypes DEF StreamInfo
  <2>4. \A p \in DOMAIN <<r>> : <<r>>[p].t # "default" /\ (<<r>>[p].t = "move" => <<r>>[p].d = d)
    BY <2>2
  <2>5. toServer' = toServer \o <<r>> /\ <<r>> \in Seq(Request)
    BY <1>b, <2>2, Zenon
  <2>6. ~lapsed /\ defaultSinkName = d
    BY <2>1, Zenon
  <2>. QED  BY <1>0, <2>1, <2>3, <2>4, <2>5, <2>6, RoutesKeep, Zenon
<1>2. CASE StreamEvent
  <2>1. /\ Receive("open") /\ UNCHANGED <<srvDefault, lapsed, defaultSinkName>>
        /\ toServer' = Append(toServer, [t |-> "input", s |-> h.s])
    BY <1>2, Zenon DEF StreamEvent
  <2>2. PICK r \in Request : r.t = "input" /\ toServer' = Append(toServer, r)
    BY <2>1, ReceiveTypes, NoticeFields, Zenon DEF Request
  <2>3. h.t # "remove" /\ \A s \in Stream : h # StreamInfo(s)
    BY <2>1, ReceiveTypes DEF StreamInfo
  <2>4. \A p \in DOMAIN <<r>> : <<r>>[p].t # "default" /\ (<<r>>[p].t = "move" => <<r>>[p].d = d)
    BY <2>2
  <2>5. toServer' = toServer \o <<r>> /\ <<r>> \in Seq(Request)
    BY <1>b, <2>2, Zenon
  <2>6. ~lapsed /\ defaultSinkName = d
    BY <2>1, Zenon
  <2>. QED  BY <1>0, <2>1, <2>3, <2>4, <2>5, <2>6, RoutesKeep, Zenon
<1>3. CASE StreamRemoved
  <2>1. Receive("close") /\ UNCHANGED <<srvDefault, lapsed, defaultSinkName, toServer>>
    BY <1>3, Zenon DEF StreamRemoved
  <2>2. h.t # "remove" /\ \A s \in Stream : h # StreamInfo(s)
    BY <2>1, ReceiveTypes DEF StreamInfo
  <2>3. toServer' = toServer \o <<>> /\ UNCHANGED <<srvDefault, lapsed, defaultSinkName>>
    BY <1>a, <2>1
  <2>4. ~lapsed /\ defaultSinkName = d
    BY <2>1, Zenon
  <2>. QED  BY <1>0, <1>a, <2>2, <2>3, <2>4, RoutesKeep, Zenon
<1>4. CASE updateSinkInput
  <2>1. /\ Receive("stream") /\ UNCHANGED <<srvDefault, lapsed, defaultSinkName>>
        /\ toServer' = Append(toServer, Move(h.s, defaultSinkName))
    BY <1>4, Zenon DEF updateSinkInput
  <2>2. ~lapsed /\ defaultSinkName = d
    BY <2>1, Zenon
  <2>3. h \in Notice /\ h.t = "stream" /\ h.s \in Stream
    BY <2>1, ReceiveTypes, NoticeFields, Zenon
  <2>4. PICK r \in Request : r = Move(h.s, d) /\ toServer' = Append(toServer, r)
    BY <2>1, <2>2, <2>3, Zenon DEF Request, Move
  <2>5. \A p \in DOMAIN <<r>> : <<r>>[p].t # "default" /\ (<<r>>[p].t = "move" => <<r>>[p].d = d)
    BY <2>4 DEF Move
  <2>6. toServer' = toServer \o <<r>> /\ <<r>> \in Seq(Request)
    BY <1>b, <2>4, Zenon
  <2>7. \A s \in Stream : h = StreamInfo(s) => Move(s, d) \in Range(<<r>>)
    <3>1. \A s \in Stream : h = StreamInfo(s) => Move(s, d) = r
      BY <2>4 DEF StreamInfo
    <3>. QED  BY <3>1, RangeOne, Zenon
  <2>8. h.t # "remove"
    BY <2>3, Zenon
  <2>. QED  BY <1>0, <2>1, <2>2, <2>5, <2>6, <2>7, <2>8, RoutesKeep, Zenon
<1>5. CASE DeviceRemoved
  <2>1. PICK devices, hdmi : devices = Without(sinks, h.i) /\ hdmi = bHDMI
    BY Zenon
  <2>2. /\ Receive("remove") /\ UNCHANGED <<srvDefault, sinkInputs, status>>
        /\ sinks' = devices /\ autoDefault(devices, hdmi)
    BY <1>5, <2>1, Zenon DEF DeviceRemoved
  <2>3. Head(toClient).t \in {"remove", "info"}
    BY <2>2, Zenon DEF Receive
  <2>. QED  BY <1>0, <2>2, <2>3, RoutesTable, Zenon
<1>6. CASE updateSink
  <2>1. PICK devices, hdmi : devices = With(sinks, h.i, h.d) /\ hdmi = bHDMI
    BY Zenon
  <2>2. /\ Receive("info") /\ UNCHANGED <<srvDefault, sinkInputs, status>>
        /\ sinks' = devices /\ autoDefault(devices, hdmi)
    BY <1>6, <2>1, Zenon DEF updateSink
  <2>3. Head(toClient).t \in {"remove", "info"}
    BY <2>2, Zenon DEF Receive
  <2>. QED  BY <1>0, <2>2, <2>3, RoutesTable, Zenon
<1>7. CASE updateServer
  <2>1. /\ Receive("server") /\ UNCHANGED <<sinkInputs, srvDefault, toServer, present, on>>
        /\ (h.d = None /\ defaultSinkName' = defaultSinkName) \/ (defaultSinkName' = h.d /\ h.d # None)
        /\ status' # "start"
    BY <1>7, Zenon DEF updateServer, Receive
  <2>2. h \in Notice /\ h.t = "server" /\ 1 \in DOMAIN toClient /\ toClient[1] = h
    BY <2>1, ReceiveTypes, Zenon
  <2>3. Ignorant
    BY <2>2, Zenon DEF FirstOK
  <2>4. h = [t |-> "server", d |-> d]
    <3>1. h.d = d
      BY <2>1, <2>3, AudioCoreAssumption, Zenon DEF Ignorant
    <3>. QED  BY <2>2, <3>1, Zenon DEF Notice
  <2>5. GoneAfter(1, d) \/ Stands(d)
    BY <2>2, <2>4, Zenon DEF RoutesOK
  <2>6. CASE GoneAfter(1, d)
    <3>1. 0 \in Nat /\ GoneAfter(0 + 1, d)
      BY <2>6
    <3>. QED  BY <1>0, <3>1, GoneAfterShift, Zenon
  <2>7. CASE Stands(d)
    <3>1. Stands(d)'
      BY <2>1, <2>7, Zenon DEF Stands, Plugged, DefaultHeld
    <3>2. ASSUME NEW s \in DOMAIN on'
          PROVE  Pending(s)'
      <4>1. s \in Stream /\ s \notin sinkInputs'
        BY <2>1, <2>3, Zenon DEF TypeOK, Ignorant
      <4>. QED  BY <2>1, <4>1, UnheardPending, Zenon
    <3>. QED  BY <3>1, <3>2, Zenon DEF Settled
  <2>. QED  BY <2>5, <2>6, <2>7, Zenon
<1>. QED  BY <1>1, <1>2, <1>3, <1>4, <1>5, <1>6, <1>7, Zenon DEF Client

\* What is on the way stays, as long as nothing it is about changes.
LEMMA GoneSame ==
  ASSUME UNCHANGED <<toClient, sinks>>, NEW q, NEW d
  PROVE  GoneAfter(q, d)' <=> GoneAfter(q, d)
<1>1. ASSUME NEW p
      PROVE  Gone(p, d)' <=> Gone(p, d)
  BY Zenon DEF Gone
<1>2. toClient' = toClient
  BY Zenon
<1>. QED  BY <1>1, <1>2, Zenon DEF GoneAfter

LEMMA StandsSame ==
  ASSUME UNCHANGED <<toServer, present, srvDefault>>, NEW d
  PROVE  Stands(d)' <=> Stands(d)
<1>1. toServer' = toServer /\ present' = present /\ srvDefault' = srvDefault
  BY Zenon
<1>2. Plugged(d)' <=> Plugged(d)
  BY <1>1, Zenon DEF Plugged
<1>3. DefaultHeld(d)' <=> DefaultHeld(d)
  BY <1>1, Zenon DEF DefaultHeld
<1>. QED  BY <1>2, <1>3, Zenon DEF Stands

\* The application's call: a new choice from the same devices.
LEMMA RoutesProfile ==
  ASSUME TypeOK, FirstOK, RoutesOK, TypeOK', StreamsOK', NamesOK', EntriesOK',
         NEW hdmi, changeProfile(hdmi), ~UNCHANGED <<lapsed, defaultSinkName, toServer>>
  PROVE  RoutesOK'
<1> SUFFICES ASSUME NEW d \in Device
             PROVE  /\ ~lapsed' /\ defaultSinkName' = d => GoneAfter(0, d)' \/ Settled(d)'
                    /\ \A p \in DOMAIN toClient' : toClient'[p] = [t |-> "server", d |-> d] =>
                         GoneAfter(p, d)' \/ Stands(d)'
  BY Zenon DEF RoutesOK
<1>1. PICK devices : devices = sinks
  BY Zenon
<1>2. /\ autoDefault(devices, hdmi) /\ sinks' = devices /\ status' # "start"
      /\ UNCHANGED <<sinks, sinkInputs, present, srvDefault, toClient>>
  BY <1>1, Zenon DEF changeProfile, server
<1>3. ASSUME ~lapsed', defaultSinkName' = d
      PROVE  GoneAfter(0, d)' \/ Settled(d)'
  <2>2. Choice(devices, hdmi) = d /\ d # None
    BY <1>2, <1>3, AutoDefaultChooses, Zenon
  <2>3. PICK i \in DOMAIN sinks' : sinks'[i] = d
    BY <1>2, <2>2, ChoiceIn, Zenon
  <2>4. d # defaultSinkName
    BY <1>2, <2>2, Zenon DEF autoDefault
  <2>5. PICK orders \in Seq(Request) : toServer' = toServer \o orders /\ Orders(orders, d)
    BY <1>2, <2>2, <2>4, AutoDefaultOrders, Zenon
  <2>. QED  BY <1>2, <2>3, <2>5, RoutesChoose, Zenon
<1>4. ASSUME NEW p \in DOMAIN toClient', toClient'[p] = [t |-> "server", d |-> d]
      PROVE  GoneAfter(p, d)' \/ Stands(d)'
  <2>1. p \in DOMAIN toClient /\ toClient[p] = [t |-> "server", d |-> d] /\ toClient[p].t = "server"
    BY <1>2, <1>4
  <2>2. DOMAIN devices = {}
    BY <1>1, <2>1, Zenon DEF FirstOK, Ignorant
  <2>3. UNCHANGED toServer
    BY <1>2, <2>2, AutoDefaultEmpty, Zenon
  <2>4. GoneAfter(p, d) \/ Stands(d)
    BY <2>1, Zenon DEF RoutesOK
  <2>. QED  BY <1>2, <2>3, <2>4, GoneSame, StandsSame, Zenon
<1>. QED  BY <1>3, <1>4, Zenon

LEMMA RInvStep ==
  ASSUME IInv, IInv', RInv, [Next]_vars
  PROVE  RInv'
<1> USE DEF setup, client, server
<1>0. /\ TypeOK /\ SessionOK /\ StreamsOK /\ DevicesOK /\ NamesOK
      /\ TypeOK' /\ StreamsOK' /\ NamesOK'
      /\ EntriesOK /\ ServerOK /\ FirstOK /\ ChosenOK /\ RoutesOK
  BY Zenon DEF IInv, RInv
<1>1. CASE UNCHANGED vars
  <2>1. UNCHANGED <<setup, status, sinks, sinkInputs, defaultSinkName, bHDMI, inner, lapsed,
                    subscribed, present, on, srvDefault, toServer, toClient>>
    BY <1>1, Zenon DEF vars
  <2>2. EntriesOK'
    <3>1. \A q : \A d \in Device : GoneAfter(q, d)' <=> GoneAfter(q, d)
      BY <2>1, GoneSame, Zenon
    <3>2. sinks' = sinks /\ toClient' = toClient /\ present' = present
      BY <2>1, Zenon
    <3>. QED  BY <1>0, <3>1, <3>2, Zenon DEF EntriesOK
  <2>3. FirstOK' /\ ServerOK'
    BY <1>0, <2>1, Zenon DEF ServerOK, Plugged, IsInjective, FirstOK, Ignorant
  <2>4. ChosenOK'
    <3>1. PICK devices, hdmi : devices = sinks /\ hdmi = bHDMI
      BY Zenon
    <3>2. Choice(sinks, bHDMI)' = Choice(devices, hdmi)
      BY <2>1, <3>1, ChoiceSame, Zenon
    <3>. QED  BY <1>0, <2>1, <3>1, <3>2, Zenon DEF ChosenOK
  <2>5. RoutesOK'
    <3>1. \A q : \A d \in Device : GoneAfter(q, d)' <=> GoneAfter(q, d)
      BY <2>1, GoneSame, Zenon
    <3>2. /\ lapsed' = lapsed /\ defaultSinkName' = defaultSinkName /\ on' = on
          /\ toClient' = toClient /\ toServer' = toServer
      BY <2>1, Zenon
    <3>3. \A d \in Device : Stands(d)' <=> Stands(d)
      BY <2>1, StandsSame, Zenon
    <3>4. \A d \in Device : Settled(d)' <=> Settled(d)
      BY <3>2, <3>3, Zenon DEF Settled, Pending, StreamOn, StreamInfo
    <3>. QED  BY <1>0, <3>1, <3>2, <3>3, <3>4, Zenon DEF RoutesOK
  <2>. QED  BY <2>2, <2>3, <2>4, <2>5, Zenon DEF RInv
<1>2. CASE Next
  <2>1. ServerOK' /\ FirstOK' /\ ChosenOK'
    BY <1>0, <1>2, ServerStep, FirstStep, ChosenStep, Zenon
  <2>2. CASE Ready
    <3>1. status = "start" /\ UNCHANGED <<sinks, defaultSinkName, toClient>>
      BY <2>2, Zenon DEF Ready
    <3>2. ~subscribed /\ toClient' = <<>>
      BY <1>0, <3>1, Zenon DEF SessionOK
    <3>3. DOMAIN sinks' = {} /\ defaultSinkName' = None /\ DOMAIN toClient' = {}
      BY <1>0, <3>1, <3>2 DEF FirstOK, Ignorant
    <3>4. EntriesOK' /\ RoutesOK'
      BY <3>3, AudioCoreAssumption, Zenon DEF EntriesOK, RoutesOK
    <3>. QED  BY <2>1, <3>4, Zenon DEF RInv
  <2>3. CASE Client /\ ~Ready
    <3>1. EntriesOK'
      BY <1>0, <2>3, ClientHandles, EntriesClient, Zenon
    <3>. QED  BY <1>0, <2>1, <2>3, <3>1, RoutesClient, Zenon DEF RInv
  <2>4. CASE Serve
    BY <1>0, <2>1, <2>4, EntriesServe, RoutesServe, Zenon DEF RInv
  <2>5. CASE World
    <3>1. PICK a \in Seq(Notice) : Tell(a) /\ Told(a) /\ UNCHANGED sinks
      <4>1. PICK a \in Seq(Notice) : Tell(a) /\ Told(a) /\ UNCHANGED <<subscribed, sinks>>
        BY <1>0, <2>5, WorldTells, Zenon
      <4>. QED  BY <4>1, Zenon
    <3>2. EntriesOK'
      BY <1>0, <3>1, EntriesWorld, Zenon
    <3>3. CASE UNCHANGED <<lapsed, defaultSinkName, toServer>>
      BY <1>0, <2>1, <2>5, <3>2, <3>3, RoutesWorld, Zenon DEF RInv
    <3>4. CASE ~UNCHANGED <<lapsed, defaultSinkName, toServer>>
      <4>1. \E hdmi \in BOOLEAN : changeProfile(hdmi)
        BY <2>5, <3>4, WorldKinds, Zenon
      <4>. QED  BY <1>0, <2>1, <3>2, <3>4, <4>1, RoutesProfile, Zenon DEF RInv
    <3>. QED  BY <3>3, <3>4, Zenon
  <2>. QED  BY <1>2, <2>2, <2>3, <2>4, <2>5, Zenon DEF Next, Client
<1>. QED  BY <1>1, <1>2, Zenon

LEMMA RInvInit ==
  ASSUME Init
  PROVE  RInv
<1>1. /\ DOMAIN sinks = {} /\ DOMAIN toClient = {} /\ DOMAIN toServer = {}
      /\ defaultSinkName = None /\ sinkInputs = {} /\ inner = FALSE
  BY DEF Init
<1>2. EntriesOK /\ FirstOK /\ ChosenOK /\ RoutesOK
  BY <1>1, AudioCoreAssumption, Zenon DEF EntriesOK, FirstOK, Ignorant, ChosenOK, RoutesOK
<1>3. PICK n \in 1..MaxInit : present \in Injection(1..n, Device)
  BY Zenon DEF Init
<1>4. IsInjective(present)
  BY <1>3, Zenon DEF Injection
<1>5. \E i \in DOMAIN present : present[i] = srvDefault
  BY Zenon DEF Init, Range
<1>. QED  BY <1>2, <1>4, <1>5, Zenon DEF RInv, ServerOK, Plugged

LEMMA RInvRouted ==
  ASSUME IInv, RInv
  PROVE  Routed
<1> SUFFICES ASSUME Quiet, ~lapsed, sinks # <<>>
             PROVE  /\ srvDefault = Choice(sinks, bHDMI)
                    /\ \A s \in DOMAIN on : on[s] = Choice(sinks, bHDMI)
  BY Zenon DEF Routed
<1>1. DOMAIN toClient = {} /\ DOMAIN toServer = {} /\ Range(toClient) = {} /\ Range(toServer) = {}
  BY DEF Quiet, Range
<1>2. DOMAIN sinks # {}
  <2>1. ASSUME DOMAIN sinks = {}
        PROVE  sinks \in [1..0 -> Device]
    BY <2>1 DEF IInv, TypeOK
  <2>2. sinks \in [1..0 -> Device] => sinks \in Seq(Device) /\ Len(sinks) = 0
    OBVIOUS
  <2>3. sinks \in Seq(Device) /\ Len(sinks) = 0 => sinks = <<>>
    OBVIOUS
  <2>. QED  BY <2>1, <2>2, <2>3, Zenon
<1>3. defaultSinkName = Choice(sinks, bHDMI) /\ defaultSinkName # None
  BY <1>2, Zenon DEF RInv, ChosenOK
<1>4. defaultSinkName \in Device
  BY <1>3, Zenon DEF IInv, TypeOK
<1>5. PICK d \in Device : d = defaultSinkName
  BY <1>4, Zenon
<1>6. Settled(d)
  BY <1>1, <1>5, Zenon DEF RInv, RoutesOK, GoneAfter
<1>7. srvDefault = d
  BY <1>1, <1>6, Zenon DEF Settled, Stands, DefaultHeld, Held
<1>8. \A s \in DOMAIN on : on[s] = d
  BY <1>1, <1>6, Zenon DEF Settled, Pending, StreamOn, Held
<1>. QED  BY <1>3, <1>5, <1>7, <1>8, Zenon

\* Every default the client sets, and every one the server reports, stands at the
\* server once the requests on the way are served, or the device is about to go from
\* the client's map; and every stream is, will be, or will be asked to be on it
\* (autoDefault and updateSinkInput, against the server's own moves when a device is
\* unplugged).
THEOREM RInvHolds ==
  Spec => []RInv
<1>1. Init => RInv
  BY RInvInit, Zenon
<1>2. IInv /\ IInv' /\ RInv /\ [Next]_vars => RInv'
  BY RInvStep, Zenon
<1>. QED  BY <1>1, <1>2, IInvHolds, PTL DEF Spec

\* However many devices and streams there are, and however they come and go while
\* autoDefault's and updateSinkInput's requests are on the way: once all is handled
\* the server's default is the device autoDefault chooses, and every stream plays on
\* it, unless autoDefault found nothing to choose since it last set a default.
THEOREM RoutedCorrect ==
  Spec => []Routed
<1>1. IInv /\ RInv => Routed
  BY RInvRouted, Zenon
<1>. QED  BY <1>1, IInvHolds, RInvHolds, PTL
=============================================================================
