---------------------------- MODULE FramingProofs ----------------------------
(***************************************************************************)
(* Messages arrive whole, whatever the sizes of messages, bytes and kernel *)
(* buffers: Framing implements Exchange, and a connection is quiet between *)
(* two calls.  The argument follows one message through the connection:    *)
(* what the receiver has read, what is on its way and what is left to send *)
(* are consecutive parts of its frame (SendsOf, Flying, ReadsOf).          *)
(***************************************************************************)
EXTENDS Framing, TLAPS

-----------------------------------------------------------------------------
(* The length of a message as four bytes. *)

LEMMA LesserOfTwo ==
  ASSUME NEW x \in Int, NEW y \in Int
  PROVE  Min({x, y}) = IF x <= y THEN x ELSE y
BY SMTT(30) DEF Min

LEMMA DivMod ==
  ASSUME NEW n \in Nat
  PROVE  /\ n \div Base \in Nat /\ n % Base \in Byte
         /\ n = (n \div Base) * Base + (n % Base)
BY SMTT(30), FramingAssumption DEF Byte

LEMMA Times ==
  ASSUME NEW x \in Nat, NEW y \in Nat, NEW b \in Nat, x <= y
  PROVE  x * b <= y * b /\ x * b \in Nat
BY SMT

LEMMA Remainder ==
  ASSUME NEW n \in Nat
  PROVE  n % Base <= n
<1> DEFINE q == n \div Base
           r == n % Base
<1>1. q \in Nat /\ r \in Byte /\ n = q * Base + r
  BY DivMod
<1>2. Base \in Nat /\ Byte \subseteq Nat
  BY FramingAssumption DEF Byte
<1> HIDE DEF q, r
<1>3. q * Base \in Nat
  BY <1>1, <1>2, Times
<1>4. r <= n
  BY <1>1, <1>2, <1>3
<1> QED BY <1>4 DEF r

LEMMA PrefixOf ==
  ASSUME NEW n \in Nat
  PROVE  /\ Prefix(n) \in Seq(Byte) /\ Len(Prefix(n)) = 4 /\ Prefix(n) # << >>
         /\ Number(Prefix(n)) \in 0..n
<1> DEFINE n1 == n \div Base
           n2 == n1 \div Base
           n3 == n2 \div Base
           d == n3 % Base
<1>1. n1 \in Nat /\ n % Base \in Byte /\ n = n1 * Base + (n % Base)
  BY DivMod
<1>2. n2 \in Nat /\ n1 % Base \in Byte /\ n1 = n2 * Base + (n1 % Base)
  BY <1>1, DivMod
<1>3. n3 \in Nat /\ n2 % Base \in Byte /\ n2 = n3 * Base + (n2 % Base)
  BY <1>2, DivMod
<1>4. d \in Byte /\ n3 = (n3 \div Base) * Base + d /\ n3 \div Base \in Nat
  BY <1>3, DivMod
<1>. /\ Base \in Nat /\ Byte \subseteq Nat
  BY FramingAssumption DEF Byte
<1>5. d <= n3
  BY <1>3, Remainder
<1>6. Prefix(n) = <<d, n2 % Base, n1 % Base, n % Base>>
  BY DEF Prefix
<1> HIDE DEF n1, n2, n3, d
<1>7. d * Base + (n2 % Base) \in 0..n2
  <2>1. d * Base <= n3 * Base /\ d * Base \in Nat BY <1>3, <1>4, <1>5, Times
  <2>2. d * Base + (n2 % Base) \in 0..n2 BY <2>1, <1>2, <1>3, Times
  <2> QED BY <2>2
<1>8. (d * Base + (n2 % Base)) * Base + (n1 % Base) \in 0..n1
  <2> DEFINE x == d * Base + (n2 % Base)
  <2>1. x \in Nat /\ x <= n2 BY <1>2, <1>7
  <2> HIDE DEF x
  <2>2. x * Base <= n2 * Base /\ x * Base \in Nat BY <2>1, <1>2, Times
  <2>3. x * Base + (n1 % Base) \in 0..n1 BY <2>2, <1>1, <1>2, Times
  <2> QED BY <2>3 DEF x
<1>9. ((d * Base + (n2 % Base)) * Base + (n1 % Base)) * Base + (n % Base) \in 0..n
  <2> DEFINE x == (d * Base + (n2 % Base)) * Base + (n1 % Base)
  <2>1. x \in Nat /\ x <= n1 BY <1>1, <1>8
  <2> HIDE DEF x
  <2>2. x * Base <= n1 * Base /\ x * Base \in Nat BY <2>1, <1>1, Times
  <2>3. x * Base + (n % Base) \in 0..n BY <2>2, <1>1, Times
  <2> QED BY <2>3 DEF x
<1> QED BY <1>1, <1>2, <1>3, <1>4, <1>6, <1>9 DEF Number

-----------------------------------------------------------------------------
(* The frame of message m: its length and its bytes. *)

FrameSize(m) == 4 + Len(m)

FrameAt(m, i) == IF i <= 4 THEN Prefix(Len(m))[i] ELSE m[i - 4]

\* How much of the frame end s has sent, and that the rest is left.
SentCount(s, m) == IF s.at = "sendLength" THEN 4 - Len(s.left) ELSE FrameSize(m) - Len(s.left)

SendsOf(s, m) ==
  /\ s.at \in Sends /\ s.left # << >>
  /\ s.at = "sendLength" => s.next = m /\ Len(s.left) <= 4
  /\ s.at = "sendBody" => s.next = << >> /\ Len(s.left) <= Len(m)
  /\ \A i \in 1..Len(s.left) : s.left[i] = FrameAt(m, SentCount(s, m) + i)

\* How much of the frame end r has read, and that it is reading it.
Before(r) == IF r.at = "recvBody" THEN 4 ELSE 0

ReadCount(r) == Before(r) + Len(r.got)

ReadsOf(r, m) ==
  /\ r.at \in Recvs /\ Len(r.got) < r.size
  /\ r.at = "recvLength" => r.size = 4
  /\ r.at = "recvBody" => r.size \in 1..MaxMessageSize /\ r.size <= Len(m)
  /\ \A i \in 1..Len(r.got) : r.got[i] = FrameAt(m, Before(r) + i)

\* The bytes of wire w follow the first n of the frame.
Flying(w, m, n) ==
  /\ n + Len(w) <= FrameSize(m)
  /\ \A i \in 1..Len(w) : w[i] = FrameAt(m, n + i)

\* What is sent, and what is sent of it at a time.
Message(m) ==
  /\ m \in Seq(Byte) /\ m # << >>
  /\ \A n \in 1..Len(m) - 1 : SubSeq(m, 1, n) \notin Texts

LEMMA EmptyIs ==
  ASSUME NEW b \in Seq(Byte)
  PROVE  Len(b) \in Nat /\ (b # << >> <=> Len(b) >= 1) /\ (b = << >> <=> Len(b) = 0)
OBVIOUS

LEMMA EndsAre ==
  /\ \A at \in {"idle", "run", "closed"} : Resting(at) \in End
  /\ \A at \in Sends, l, n \in Seq(Byte) : Sender(at, l, n) \in End
  /\ \A at \in Recvs, g \in Seq(Byte), k \in Nat : Receiver(at, g, k) \in End
BY DEF Resting, Sender, Receiver, End, Sends, Recvs

LEMMA SendingBegins ==
  ASSUME NEW m, Message(m)
  PROVE  /\ Sending(m) \in End /\ SendsOf(Sending(m), m)
         /\ SentCount(Sending(m), m) = 0 /\ Sending(m).at = "sendLength"
<1> DEFINE p == Prefix(Len(m))
           s == Sending(m)
<1>1. m \in Seq(Byte) /\ p \in Seq(Byte) /\ Len(p) = 4
  BY PrefixOf DEF Message
<1>2. s.at = "sendLength" /\ s.left = p /\ s.next = m
  BY DEF Sending, Sender
<1>3. s \in End
  BY <1>1, EndsAre DEF Sending, Sends
<1>4. \A i \in 1..4 : p[i] = FrameAt(m, i)
  BY DEF FrameAt
<1>5. p # << >>
  BY <1>1, PrefixOf DEF Message
<1> HIDE DEF s, p
<1>6. SentCount(s, m) = 0
  BY <1>1, <1>2 DEF SentCount
<1>7. Len(s.left) = 4 /\ \A i \in 1..4 : s.left[i] = FrameAt(m, 0 + i)
  <2>1. \A i \in 1..4 : 0 + i = i
    OBVIOUS
  <2> QED BY <1>1, <1>2, <1>4, <2>1
<1>8. SendsOf(s, m)
  BY <1>2, <1>6, <1>7, <1>5 DEF SendsOf, Sends
<1> QED BY <1>2, <1>3, <1>6, <1>8 DEF s

LEMMA ReceivingBegins ==
  ASSUME NEW m
  PROVE  /\ Receiving \in End /\ ReadsOf(Receiving, m) /\ ReadCount(Receiving) = 0
         /\ Receiving.got = << >> /\ Receiving.at = "recvLength"
<1>1. Receiving = [at |-> "recvLength", left |-> << >>, next |-> << >>,
                   got |-> << >>, size |-> 4]
  BY DEF Receiving, Receiver
<1>2. Receiving \in End
  BY <1>1 DEF End, Recvs
<1> QED BY <1>1, <1>2 DEF ReadsOf, ReadCount, Before, Recvs

\* One send: the bytes that go are the next ones of the frame.
LEMMA SendMoves ==
  ASSUME NEW m, Message(m), NEW s \in End, SendsOf(s, m), NEW k \in 1..Len(s.left), NEW done
  PROVE  /\ \/ /\ AfterSend(s, k, done) \in End
               /\ SendsOf(AfterSend(s, k, done), m)
               /\ SentCount(AfterSend(s, k, done), m) = SentCount(s, m) + k
            \/ AfterSend(s, k, done) = done /\ SentCount(s, m) + k = FrameSize(m)
         /\ SentCount(s, m) \in Nat /\ SentCount(s, m) + k <= FrameSize(m)
         /\ SubSeq(s.left, 1, k) \in Seq(Byte) /\ Len(SubSeq(s.left, 1, k)) = k
         /\ \A i \in 1..k : SubSeq(s.left, 1, k)[i] = FrameAt(m, SentCount(s, m) + i)
<1> DEFINE rest == SubSeq(s.left, k + 1, Len(s.left))
           t == AfterSend(s, k, done)
           n == SentCount(s, m)
           l == Len(s.left)
           size == Len(m)
<1>1. /\ s.left \in Seq(Byte) /\ s.next \in Seq(Byte) /\ m \in Seq(Byte)
      /\ s.at = "sendLength" \/ s.at = "sendBody"
  BY DEF End, Message, SendsOf, Sends
<1>2. l \in Nat /\ size \in Nat /\ size >= 1 /\ k \in Nat /\ k <= l
  BY <1>1, EmptyIs DEF Message
<1>3. /\ rest \in Seq(Byte) /\ Len(rest) = l - k
      /\ \A i \in 1..Len(rest) : rest[i] = s.left[k + i]
  BY <1>1
<1>4. n \in Nat /\ n + k <= FrameSize(m)
  <2>1. s.at = "sendLength" => l <= 4 /\ n = 4 - l
    BY DEF SendsOf, SentCount
  <2>2. s.at = "sendBody" => l <= size /\ n = FrameSize(m) - l
    BY DEF SendsOf, SentCount
  <2>3. FrameSize(m) = 4 + size
    BY DEF FrameSize
  <2> HIDE DEF n, l, size
  <2> QED BY <1>2, <1>1, <2>1, <2>2, <2>3
<1>5. /\ SubSeq(s.left, 1, k) \in Seq(Byte) /\ Len(SubSeq(s.left, 1, k)) = k
      /\ \A i \in 1..k : SubSeq(s.left, 1, k)[i] = s.left[i]
  BY <1>1
<1>6. \A i \in 1..k : SubSeq(s.left, 1, k)[i] = FrameAt(m, n + i)
  BY <1>1, <1>5 DEF SendsOf
<1>7. CASE rest # << >>
  <2>1. t = Sender(s.at, rest, s.next)
    BY <1>7 DEF AfterSend
  <2>2. t \in End /\ t.at = s.at /\ t.left = rest /\ t.next = s.next
    <3>1. s.at \in Sends
      BY <1>1 DEF Sends
    <3>2. t \in End
      BY <1>1, <1>3, <2>1, <3>1, EndsAre
    <3> QED BY <2>1, <3>2 DEF Sender
  <2>3. SentCount(t, m) = n + k
    <3>1. s.at = "sendLength" => n = 4 - l /\ SentCount(t, m) = 4 - Len(rest)
      BY <2>2 DEF SentCount
    <3>2. s.at = "sendBody" => n = 4 + size - l /\ SentCount(t, m) = 4 + size - Len(rest)
      BY <2>2 DEF SentCount, FrameSize
    <3>3. Len(rest) = l - k
      BY <1>3
    <3> HIDE DEF n, t, rest, l, size
    <3> QED BY <1>2, <1>1, <3>1, <3>2, <3>3
  <2>4. \A i \in 1..Len(rest) : rest[i] = FrameAt(m, n + k + i)
    <3>1. \A i \in 1..Len(rest) : k + i \in 1..Len(s.left) /\ n + (k + i) = n + k + i
      <4>1. Len(rest) \in Nat /\ k + Len(rest) = Len(s.left)
        BY <1>2, <1>3, <1>4
      <4>2. k \in Nat /\ n \in Int /\ Len(s.left) \in Nat
        BY <1>2, <1>1, <1>4
      <4> HIDE DEF rest, n
      <4> QED BY <4>1, <4>2
    <3> QED BY <1>3, <3>1 DEF SendsOf
  <2>5. SendsOf(t, m)
    BY <1>1, <1>3, <1>7, <2>2, <2>3, <2>4 DEF SendsOf
  <2> QED BY <1>4, <1>5, <1>6, <2>2, <2>3, <2>5
<1>8. CASE rest = << >> /\ s.at = "sendLength"
  <2>1. t = Sender("sendBody", s.next, << >>)
    BY <1>8 DEF AfterSend
  <2>2. t \in End /\ t.at = "sendBody" /\ t.left = s.next /\ t.next = << >>
    <3>1. "sendBody" \in Sends /\ << >> \in Seq(Byte)
      BY DEF Sends
    <3>2. t \in End
      BY <1>1, <2>1, <3>1, EndsAre
    <3> QED BY <2>1, <3>2 DEF Sender
  <2>3. s.next = m /\ n + k = 4
    <3>1. s.next = m /\ n = 4 - l
      BY <1>8 DEF SendsOf, SentCount
    <3>2. l - k = 0
      BY <1>3, EmptyIs, <1>8
    <3> HIDE DEF n, l, size
    <3> QED BY <1>2, <3>1, <3>2
  <2>4. SentCount(t, m) = 4
    BY <1>1, <2>2, <2>3 DEF SentCount, FrameSize
  <2>5. \A i \in 1..Len(m) : m[i] = FrameAt(m, 4 + i)
    BY <1>1 DEF FrameAt
  <2>6. SendsOf(t, m)
    BY <1>1, <2>2, <2>3, <2>4, <2>5 DEF SendsOf, Sends, Message
  <2> QED BY <1>4, <1>5, <1>6, <2>2, <2>3, <2>4, <2>6
<1>9. CASE rest = << >> /\ s.at # "sendLength"
  <2>1. t = done
    BY <1>9 DEF AfterSend
  <2>2. n + k = FrameSize(m)
    <3>1. n = 4 + size - l /\ FrameSize(m) = 4 + size
      BY <1>9 DEF SentCount, FrameSize
    <3>2. l - k = 0
      BY <1>3, EmptyIs, <1>9
    <3> HIDE DEF n, l, size
    <3> QED BY <1>2, <3>1, <3>2
  <2> QED BY <1>4, <1>5, <1>6, <2>1, <2>2
<1> QED BY <1>7, <1>8, <1>9

LEMMA UnreadIs ==
  ASSUME NEW w \in Seq(Byte), NEW k \in 1..Len(w)
  PROVE  /\ Unread(w, k) \in Seq(Byte) /\ Len(Unread(w, k)) = Len(w) - k
         /\ \A i \in 1..Len(w) - k : Unread(w, k)[i] = w[k + i]
BY DEF Unread

LEMMA FlyingMoves ==
  ASSUME NEW m, NEW w \in Seq(Byte), NEW n \in Nat, Flying(w, m, n)
  PROVE  /\ \A k \in 1..Len(w) : Flying(Unread(w, k), m, n + k)
         /\ \A b \in Seq(Byte) :
              /\ n + Len(w) + Len(b) <= FrameSize(m)
              /\ \A i \in 1..Len(b) : b[i] = FrameAt(m, n + Len(w) + i)
              => Flying(w \o b, m, n)
<1>1. ASSUME NEW k \in 1..Len(w)
      PROVE  Flying(Unread(w, k), m, n + k)
  <2>1. n + k + Len(Unread(w, k)) = n + Len(w)
    <3>1. Len(Unread(w, k)) = Len(w) - k
      BY UnreadIs
    <3> QED BY <3>1
  <2>2. \A i \in 1..Len(w) - k : k + i \in 1..Len(w) /\ n + (k + i) = n + k + i
    OBVIOUS
  <2>3. \A i \in 1..Len(w) - k : Unread(w, k)[i] = FrameAt(m, n + k + i)
    BY <2>2, UnreadIs DEF Flying
  <2> QED BY <2>1, <2>3, UnreadIs DEF Flying
<1>2. ASSUME NEW b \in Seq(Byte), n + Len(w) + Len(b) <= FrameSize(m),
             \A i \in 1..Len(b) : b[i] = FrameAt(m, n + Len(w) + i)
      PROVE  Flying(w \o b, m, n)
  <2>1. Len(w \o b) = Len(w) + Len(b) /\ Len(w) \in Nat /\ Len(b) \in Nat
    OBVIOUS
  <2>2. ASSUME NEW i \in 1..Len(w) + Len(b)
        PROVE  (w \o b)[i] = FrameAt(m, n + i)
    <3>1. CASE i <= Len(w)
      BY <2>1, <3>1 DEF Flying
    <3>2. CASE i > Len(w)
      <4>1. i - Len(w) \in 1..Len(b) /\ n + Len(w) + (i - Len(w)) = n + i
        BY <2>1, <3>2
      <4>2. (w \o b)[i] = b[i - Len(w)]
        BY <2>1, <3>2
      <4> QED BY <1>2, <4>1, <4>2
    <3> QED BY <2>1, <3>1, <3>2
  <2>3. n + Len(w \o b) <= FrameSize(m)
    BY <1>2, <2>1 DEF FrameSize
  <2> QED BY <2>1, <2>2, <2>3 DEF Flying
<1> QED BY <1>1, <1>2

\* A sequence of a message's length that has its bytes is the message.
LEMMA SameBytes ==
  ASSUME NEW m \in Seq(Byte), NEW g \in Seq(Byte), Len(g) <= Len(m),
         \A i \in 1..Len(g) : g[i] = m[i]
  PROVE  g = SubSeq(m, 1, Len(g)) /\ (Len(g) = Len(m) => g = m)
BY SMTT(30)

\* Receiver r takes the first k bytes, b, of wire w, and becomes t.
Receives(m, r, w, k, done, b, t) ==
  /\ Message(m) /\ r \in End /\ ReadsOf(r, m)
  /\ w \in Seq(Byte) /\ Flying(w, m, ReadCount(r))
  /\ k \in Available(r, w) /\ b = SubSeq(w, 1, k)
  /\ t = AfterRecv(r, b, done)

\* One recv: what has been read is the beginning of the frame, and a message
\* that is complete is the one that was sent.
LEMMA RecvMoves ==
  ASSUME NEW m, NEW r, NEW w, NEW k, NEW done, NEW b, NEW t,
         Receives(m, r, w, k, done, b, t)
  PROVE  /\ \/ t = Resting("closed")
            \/ t \in End /\ ReadsOf(t, m) /\ ReadCount(t) = ReadCount(r) + k
            \/ /\ t = done /\ r.got \o b = m /\ Len(m) \in 1..MaxMessageSize
               /\ ReadCount(r) + k = FrameSize(m)
         /\ k \in 1..Len(w) /\ ReadCount(r) \in Nat
<1> DEFINE got == r.got \o b
<1> USE DEF Receives
<1>1. /\ r.got \in Seq(Byte) /\ r.size \in Nat /\ m \in Seq(Byte) /\ r.at \in Recvs
      /\ Len(r.got) \in Nat /\ Len(w) \in Nat /\ Len(m) \in Nat
  BY DEF End, Message, ReadsOf
<1>2. k \in 1..Len(w) /\ Len(r.got) + k <= r.size
  <2> DEFINE p == r.size - Len(r.got)
  <2>1. p \in Nat /\ Available(r, w) = 1..Min({p, Len(w)})
    BY <1>1 DEF Available, ReadsOf
  <2>2. Min({p, Len(w)}) = IF p <= Len(w) THEN p ELSE Len(w)
    BY <1>1, <2>1, LesserOfTwo
  <2> QED BY <1>1, <2>1, <2>2
<1>3. b \in Seq(Byte) /\ Len(b) = k /\ \A i \in 1..k : b[i] = w[i]
  BY <1>2
<1>4. got \in Seq(Byte) /\ Len(got) = Len(r.got) + k
  BY <1>1, <1>3
<1>5. ReadCount(r) = Before(r) + Len(r.got) /\ Before(r) \in {0, 4}
  BY DEF ReadCount, Before
<1>6. ASSUME NEW i \in 1..Len(got)
      PROVE  got[i] = FrameAt(m, Before(r) + i)
  <2>1. CASE i <= Len(r.got)
    BY <1>1, <1>3, <1>4, <2>1 DEF ReadsOf
  <2>2. CASE i > Len(r.got)
    <3>1. i - Len(r.got) \in 1..k /\ ReadCount(r) + (i - Len(r.got)) = Before(r) + i
      BY <1>1, <1>4, <1>5, <2>2
    <3>2. got[i] = b[i - Len(r.got)]
      BY <1>1, <1>3, <1>4, <2>2
    <3> QED BY <1>2, <1>3, <3>1, <3>2 DEF Flying
  <2> QED BY <1>1, <1>4, <2>1, <2>2
<1>7. CASE Len(got) < r.size
  <2>1. t = Receiver(r.at, got, r.size)
    <3>1. t = CASE Len(got) < r.size -> Receiver(r.at, got, r.size)
               [] Len(got) >= r.size /\ r.at = "recvLength" ->
                    IF ValidLength(got)
                    THEN Receiver("recvBody", << >>, Number(got))
                    ELSE Resting("closed")
               [] OTHER -> IF got \in Texts THEN done ELSE Resting("closed")
      BY Zenon DEF AfterRecv
    <3>2. ~ (Len(got) >= r.size)
      BY <1>4, <1>7, <1>1
    <3> HIDE DEF got
    <3> QED BY <1>7, <3>1, <3>2, Zenon
  <2>2. t \in End /\ t.at = r.at /\ t.got = got /\ t.size = r.size
    <3>1. t \in End
      BY <1>1, <1>4, <2>1, EndsAre
    <3> HIDE DEF got
    <3> QED BY <2>1, <3>1 DEF Receiver
  <2>3. Before(t) = Before(r)
    BY <2>2 DEF Before
  <2>4. ReadCount(t) = ReadCount(r) + k
    <3>1. ReadCount(t) = Before(r) + Len(got)
      BY <2>2, <2>3 DEF ReadCount
    <3>2. Before(r) \in Nat
      BY <1>5
    <3> QED BY <1>1, <1>2, <1>4, <1>5, <3>1, <3>2
  <2>5. ReadsOf(t, m)
    BY <1>6, <1>7, <2>2, <2>3 DEF ReadsOf
  <2> QED BY <1>2, <1>5, <1>1, <2>2, <2>4, <2>5
<1>8. CASE Len(got) >= r.size /\ r.at = "recvLength"
  <2>1. r.size = 4 /\ Len(got) = 4 /\ Before(r) = 0
    BY <1>2, <1>1, <1>4, <1>8 DEF ReadsOf, Before
  <2>2. \A i \in 1..4 : got[i] = Prefix(Len(m))[i]
    <3>1. \A i \in 1..4 : FrameAt(m, 0 + i) = Prefix(Len(m))[i]
      BY DEF FrameAt
    <3> HIDE DEF got
    <3> QED BY <1>6, <2>1, <3>1
  <2>3. Number(got) = Number(Prefix(Len(m)))
    <3> DEFINE p == Prefix(Len(m))
    <3>1. got[1] = p[1] /\ got[2] = p[2] /\ got[3] = p[3] /\ got[4] = p[4]
      <4> HIDE DEF got, p
      <4> QED BY <2>2 DEF p
    <3> HIDE DEF got, p
    <3>2. Number(got) = Number(p)
      BY <3>1, Zenon DEF Number
    <3> QED BY <3>2 DEF p
  <2>4. Number(got) \in 0..Len(m)
    BY <1>1, <2>3, PrefixOf
  <2>5. CASE ValidLength(got)
    <3>1. t = Receiver("recvBody", << >>, Number(got))
      BY <1>4, <1>8, <2>1, <2>5 DEF AfterRecv
    <3>2. Number(got) \in 1..MaxMessageSize /\ Number(got) \in Nat
      BY <2>4, <2>5 DEF ValidLength
    <3>3. /\ t \in End /\ t.at = "recvBody" /\ t.got = << >> /\ t.size = Number(got)
      <4>1. "recvBody" \in Recvs /\ << >> \in Seq(Byte)
        BY DEF Recvs
      <4>2. t \in End
        BY <3>1, <3>2, <4>1, EndsAre
      <4> QED BY <3>1, <4>2 DEF Receiver
    <3>4. ReadsOf(t, m)
      BY <1>1, <2>4, <3>2, <3>3 DEF ReadsOf, Recvs
    <3>5. ReadCount(t) = 4
      BY <3>3 DEF ReadCount, Before
    <3>6. ReadCount(r) + k = 4
      BY <1>1, <1>2, <1>4, <1>5, <2>1
    <3> QED BY <1>1, <1>2, <1>5, <3>3, <3>4, <3>5, <3>6
  <2>6. CASE ~ ValidLength(got)
    <3>1. t = Resting("closed")
      BY <1>4, <1>8, <2>1, <2>6 DEF AfterRecv
    <3> QED BY <1>1, <1>2, <1>5, <3>1
  <2> QED BY <2>5, <2>6
<1>9. CASE Len(got) >= r.size /\ r.at = "recvBody"
  <2>1. /\ Len(got) = r.size /\ r.size <= Len(m) /\ r.size \in 1..MaxMessageSize
        /\ Before(r) = 4
    <3>1. r.size <= Len(m) /\ r.size \in 1..MaxMessageSize /\ Before(r) = 4
      BY <1>9 DEF ReadsOf, Before
    <3> HIDE DEF got
    <3> QED BY <1>1, <1>2, <1>4, <1>9, <3>1
  <2>2. \A i \in 1..Len(got) : got[i] = m[i]
    <3>1. \A i \in Nat \ {0} : FrameAt(m, 4 + i) = m[i]
      <4> TAKE i \in Nat \ {0}
      <4>1. ~ (4 + i <= 4) /\ (4 + i) - 4 = i
        OBVIOUS
      <4> QED BY <4>1 DEF FrameAt
    <3>2. Len(got) \in Nat
      BY <1>1, <1>2, <1>4
    <3> HIDE DEF got
    <3>3. \A i \in 1..Len(got) : i \in Nat \ {0}
      BY <3>2
    <3>4. \A i \in 1..Len(got) : got[i] = FrameAt(m, 4 + i)
      BY <1>6, <2>1
    <3> QED BY <3>1, <3>3, <3>4, Zenon
  <2>3. t = IF got \in Texts THEN done ELSE Resting("closed")
    BY <1>4, <1>9, <2>1 DEF AfterRecv
  <2>4. CASE got \in Texts
    <3>1. got = SubSeq(m, 1, Len(got)) /\ (Len(got) = Len(m) => got = m)
      BY <1>1, <1>4, <2>1, <2>2, SameBytes
    <3>2. Len(got) \in 1..Len(m)
      BY <1>1, <2>1, <1>4, FramingAssumption
    <3>3. Len(got) = Len(m)
      <4>1. SUFFICES ASSUME Len(got) # Len(m) PROVE FALSE
        OBVIOUS
      <4>2. Len(got) \in 1..Len(m) - 1
        <5> HIDE DEF got
        <5> QED BY <1>1, <3>2, <4>1
      <4> QED BY <2>4, <3>1, <4>2 DEF Message
    <3>4. ReadCount(r) + k = FrameSize(m)
      <4> HIDE DEF got
      <4> QED BY <1>1, <1>2, <1>4, <1>5, <2>1, <3>3 DEF FrameSize
    <3>5. Len(m) \in 1..MaxMessageSize
      BY <2>1, <3>3
    <3> QED BY <1>1, <1>2, <1>5, <2>3, <2>4, <3>1, <3>3, <3>4, <3>5
  <2>5. CASE got \notin Texts
    BY <1>1, <1>2, <1>5, <2>3, <2>5
  <2> QED BY <2>4, <2>5
<1> HIDE DEF got, Receives
<1>10. \/ Len(got) < r.size
       \/ Len(got) >= r.size /\ r.at = "recvLength"
       \/ Len(got) >= r.size /\ r.at = "recvBody"
  BY <1>1, <1>4 DEF Recvs
<1> QED BY <1>7, <1>8, <1>9, <1>10, Zenon

-----------------------------------------------------------------------------
(* How far a connection is with its last request. *)

\* How many requests of a connection are not heard, answered and returned.
Missing(c, h, s, t) ==
  /\ Len(heard[c]) = Len(asked[c]) - h
  /\ Len(said[c]) = Len(asked[c]) - s
  /\ Len(told[c]) = Len(asked[c]) - t

\* Every call has returned; the server may be looking at the end of the stream.
Quiet(c) ==
  /\ Missing(c, 0, 0, 0) /\ up[c] = << >> /\ down[c] = << >>
  /\ \/ server[c] \in {Resting("idle"), Resting("closed")}
     \/ HungUp(c) /\ server[c] = Receiving
  /\ socket = c => client.at = "idle"

\* The request is being sent.
Asking(c) ==
  LET m == Last(asked[c])
      r == server[c]
  IN  /\ Missing(c, 1, 1, 1) /\ down[c] = << >>
      /\ \/ r = Resting("closed") /\ up[c] = << >>
         \/ r = Resting("idle") /\ Flying(up[c], m, 0)
         \/ ReadsOf(r, m) /\ Flying(up[c], m, ReadCount(r))
      /\ socket = c =>
           \/ /\ SendsOf(client, m)
              /\ r.at # "closed" => ReadCount(r) + Len(up[c]) = SentCount(client, m)
           \/ /\ client = Receiving
              /\ r.at # "closed" => ReadCount(r) + Len(up[c]) = FrameSize(m)

\* The handler runs.
Running(c) ==
  /\ Missing(c, 0, 1, 1) /\ up[c] = << >> /\ down[c] = << >>
  /\ server[c] \in {Resting("run"), Resting("closed")}
  /\ socket = c => client = Receiving

\* The response is being sent.
Answering(c) ==
  LET m == Last(said[c])
      s == server[c]
  IN  /\ Missing(c, 0, 0, 1) /\ up[c] = << >>
      /\ \/ SendsOf(s, m)
         \/ s \in {Resting("idle"), Resting("closed")}
         \/ HungUp(c) /\ s = Receiving
      /\ socket # c => down[c] = << >>
      /\ socket = c =>
           /\ ReadsOf(client, m) /\ Flying(down[c], m, ReadCount(client))
           /\ SendsOf(s, m) => ReadCount(client) + Len(down[c]) = SentCount(s, m)
           /\ s.at = "idle" => ReadCount(client) + Len(down[c]) = FrameSize(m)

Link(c) == Quiet(c) \/ Asking(c) \/ Running(c) \/ Answering(c)

\* The inductive invariant.
FlowInv ==
  /\ FramingTypeOK
  /\ \A c \in Connections : Link(c)
  /\ socket = None => client.at = "idle"
  /\ \A c \in Connections : socket = c => asked[c] # << >>

LEMMA Places ==
  /\ \A at : Resting(at).at = at /\ Resting(at).got = << >> /\ Resting(at).left = << >>
  /\ ReadCount(Resting("idle")) = 0
  /\ \A m, s : SendsOf(s, m) => s.at \in Sends
  /\ \A m, r : ReadsOf(r, m) => r.at \in Recvs
  /\ Receiving.at \in Recvs
<1>1. \A at : Resting(at).at = at /\ Resting(at).got = << >> /\ Resting(at).left = << >>
  BY DEF Resting, Sender
<1>2. ReadCount(Resting("idle")) = 0
  <2>1. Before(Resting("idle")) = 0 /\ Resting("idle").got = << >>
    BY <1>1 DEF Before
  <2>2. 0 + Len(<< >>) = 0
    OBVIOUS
  <2> QED BY <2>1, <2>2, Zenon DEF ReadCount
<1>3. Receiving.at \in Recvs
  BY DEF Receiving, Receiver, Recvs
<1> QED BY <1>1, <1>2, <1>3 DEF SendsOf, ReadsOf

LEMMA MessagesAre ==
  \A m \in Requests \cup Replies : Message(m)
BY FramingAssumption DEF Message

LEMMA AppendIs ==
  ASSUME NEW S, NEW s \in Seq(S), NEW e \in S
  PROVE  /\ Append(s, e) \in Seq(S) /\ Len(Append(s, e)) = Len(s) + 1 /\ Len(s) \in Nat
         /\ Last(Append(s, e)) = e /\ Append(s, e) # << >>
BY DEF Last

LEMMA LastIs ==
  ASSUME NEW S, NEW s \in Seq(S), Len(s) # 0
  PROVE  Last(s) \in S /\ Len(s) \in Nat \ {0} /\ Last(s) = s[Len(s)]
BY DEF Last

LEMMA Typed ==
  ASSUME FramingTypeOK, NEW c \in Connections
  PROVE  /\ client \in End /\ server[c] \in End
         /\ up[c] \in Seq(Byte) /\ down[c] \in Seq(Byte)
         /\ asked[c] \in Seq(Requests) /\ heard[c] \in Seq(Requests)
         /\ said[c] \in Seq(Replies) /\ told[c] \in Seq(Replies)
         /\ Len(asked[c]) \in Nat /\ Len(heard[c]) \in Nat
         /\ Len(said[c]) \in Nat /\ Len(told[c]) \in Nat
BY DEF FramingTypeOK

\* A sender that has not finished has not sent the whole frame.
LEMMA SendsLess ==
  ASSUME NEW m, Message(m), NEW s \in End, SendsOf(s, m)
  PROVE  SentCount(s, m) \in Nat /\ SentCount(s, m) < FrameSize(m) /\ FrameSize(m) \in Nat
<1>1. s.left \in Seq(Byte) /\ Len(m) \in Nat
  BY EmptyIs DEF End, Message
<1>2. 1 \in 1..Len(s.left)
  BY <1>1, EmptyIs DEF SendsOf
<1>3. SentCount(s, m) \in Nat /\ SentCount(s, m) + 1 <= FrameSize(m)
  BY <1>2, SendMoves
<1>4. FrameSize(m) \in Nat
  BY <1>1 DEF FrameSize
<1> QED BY <1>3, <1>4

LEMMA ReadCounted ==
  ASSUME NEW r \in End
  PROVE  ReadCount(r) \in Nat
<1>1. r.got \in Seq(Byte) /\ Before(r) \in Nat
  BY DEF End, Before
<1> QED BY <1>1, EmptyIs DEF ReadCount

\* Which part of the invariant a state of the ends belongs to.
LEMMA QuietIfIdle ==
  ASSUME NEW c \in Connections, Link(c), socket = c, client.at = "idle"
  PROVE  Quiet(c)
<1>1. ~ Asking(c)
  BY Places DEF Asking, Sends, Recvs
<1>2. ~ Running(c)
  BY Places DEF Running, Recvs
<1>3. ~ Answering(c)
  BY Places DEF Answering, Recvs
<1> QED BY <1>1, <1>2, <1>3 DEF Link

LEMMA QuietIfNew ==
  ASSUME FramingTypeOK, NEW c \in Connections, Link(c), asked[c] = << >>
  PROVE  Quiet(c)
<1>1. Len(asked[c]) = 0 /\ Len(heard[c]) \in Nat /\ Len(told[c]) \in Nat
  BY Typed
<1>2. ~ Missing(c, 1, 1, 1) /\ ~ Missing(c, 0, 1, 1) /\ ~ Missing(c, 0, 0, 1)
  BY <1>1 DEF Missing
<1> QED BY <1>2 DEF Link, Asking, Running, Answering

LEMMA AskingIfSends ==
  ASSUME NEW c \in Connections, Link(c), socket = c, client.at \in Sends
  PROVE  Asking(c) /\ SendsOf(client, Last(asked[c]))
<1>1. ~ Quiet(c)
  BY DEF Quiet, Sends
<1>2. ~ Running(c)
  BY Places DEF Running, Sends, Recvs
<1>3. ~ Answering(c)
  BY Places DEF Answering, Sends, Recvs
<1>4. client # Receiving
  BY Places DEF Sends, Recvs
<1> QED BY <1>1, <1>2, <1>3, <1>4 DEF Link, Asking

LEMMA AnsweringIfDown ==
  ASSUME NEW c \in Connections, Link(c), down[c] # << >>
  PROVE  Answering(c) /\ socket = c
BY DEF Link, Quiet, Asking, Running, Answering

LEMMA AskingIfUp ==
  ASSUME NEW c \in Connections, Link(c), up[c] # << >>
  PROVE  Asking(c)
BY DEF Link, Quiet, Running, Answering

LEMMA RunningIfRun ==
  ASSUME NEW c \in Connections, Link(c), server[c].at = "run"
  PROVE  Running(c)
<1>1. ~ Quiet(c)
  BY Places DEF Quiet, Recvs
<1>2. ~ Asking(c)
  BY Places DEF Asking, Recvs
<1>3. ~ Answering(c)
  BY Places DEF Answering, Recvs, Sends
<1> QED BY <1>1, <1>2, <1>3 DEF Link

LEMMA AnsweringIfSends ==
  ASSUME NEW c \in Connections, Link(c), server[c].at \in Sends
  PROVE  Answering(c) /\ SendsOf(server[c], Last(said[c]))
<1>1. ~ Quiet(c)
  BY Places DEF Quiet, Recvs, Sends
<1>2. ~ Asking(c)
  BY Places DEF Asking, Recvs, Sends
<1>3. ~ Running(c)
  BY Places DEF Running, Sends
<1>4. server[c] \notin {Resting("idle"), Resting("closed")} /\ server[c] # Receiving
  BY Places DEF Sends, Recvs
<1> QED BY <1>1, <1>2, <1>3, <1>4 DEF Link, Answering

\* What does not concern a connection leaves it as it is.
LEMMA LinkStays ==
  ASSUME NEW c \in Connections, Link(c),
         server'[c] = server[c], up'[c] = up[c], down'[c] = down[c],
         asked'[c] = asked[c], heard'[c] = heard[c], said'[c] = said[c], told'[c] = told[c],
         (socket' = socket /\ client' = client) \/ (socket # c /\ socket' # c)
  PROVE  Link(c)'
<1>1. HungUp(c)' <=> HungUp(c)
  BY DEF HungUp
<1>2. \A h, s, t : Missing(c, h, s, t)' <=> Missing(c, h, s, t)
  BY DEF Missing
<1>3. CASE Quiet(c)
  BY <1>1, <1>2, <1>3 DEF Quiet, Link
<1>4. CASE Asking(c)
  BY <1>1, <1>2, <1>4 DEF Asking, Link
<1>5. CASE Running(c)
  BY <1>1, <1>2, <1>5 DEF Running, Link
<1>6. CASE Answering(c)
  BY <1>1, <1>2, <1>6 DEF Answering, Link
<1> QED BY <1>3, <1>4, <1>5, <1>6 DEF Link

-----------------------------------------------------------------------------
(* Each action keeps the invariant. *)

\* What is left to show of a step that concerns connection c.
LEMMA OthersStay ==
  ASSUME FlowInv, NEW c \in Connections,
         \A d \in Connections \ {c} :
           /\ server'[d] = server[d] /\ up'[d] = up[d] /\ down'[d] = down[d]
           /\ asked'[d] = asked[d] /\ heard'[d] = heard[d]
           /\ said'[d] = said[d] /\ told'[d] = told[d],
         (socket' = socket /\ client' = client) \/ (socket \in {c, None} /\ socket' \in {c, None}),
         FramingTypeOK', Link(c)',
         socket' = None => client'.at = "idle",
         asked'[c] = asked[c] \/ asked'[c] # << >>,
         socket' = c => asked'[c] # << >>
  PROVE  FlowInv'
<1>1. ASSUME NEW d \in Connections \ {c}
      PROVE  Link(d)' /\ (socket' = d => asked'[d] # << >>)
  <2>1. (socket' = socket /\ client' = client) \/ (socket # d /\ socket' # d)
    BY FramingAssumption
  <2>2. Link(d)'
    BY <2>1, LinkStays DEF FlowInv
  <2>3. socket' = d => asked'[d] # << >>
    BY <2>1 DEF FlowInv
  <2> QED BY <2>2, <2>3
<1> QED BY <1>1 DEF FlowInv

LEMMA CallFlows ==
  ASSUME FlowInv, NEW c \in Connections, NEW r \in Requests, Call(c, r)
  PROVE  FlowInv'
<1>1. Link(c) /\ FramingTypeOK
  BY DEF FlowInv
<1>2. Quiet(c) /\ ~ HungUp(c)
  BY <1>1, QuietIfIdle, QuietIfNew DEF Call, HungUp
<1>3. Message(r) /\ Sending(r) \in End
  BY MessagesAre, SendingBegins
<1>4. /\ asked'[c] = Append(asked[c], r) /\ Last(asked'[c]) = r
      /\ Len(asked'[c]) = Len(asked[c]) + 1 /\ asked'[c] # << >>
      /\ asked' \in [Connections -> Seq(Requests)]
      /\ \A d \in Connections \ {c} : asked'[d] = asked[d]
  <2>1. /\ asked' = [asked EXCEPT ![c] = Append(@, r)]
        /\ asked \in [Connections -> Seq(Requests)]
    BY <1>1 DEF Call, FramingTypeOK
  <2>2. /\ Append(asked[c], r) \in Seq(Requests) /\ Last(Append(asked[c], r)) = r
        /\ Len(Append(asked[c], r)) = Len(asked[c]) + 1
        /\ Append(asked[c], r) # << >>
    BY <2>1, AppendIs
  <2>3. asked'[c] = Append(asked[c], r) /\ asked' \in [Connections -> Seq(Requests)]
    BY <2>1, <2>2
  <2> QED BY <2>1, <2>2, <2>3
<1>5. FramingTypeOK'
  BY <1>1, <1>3, <1>4 DEF FramingTypeOK, Call, wires
<1>6. Missing(c, 1, 1, 1)'
  BY <1>1, <1>2, <1>4, Typed DEF Missing, Quiet, Call
<1>7. Flying(<< >>, r, 0)
  BY <1>3, EmptyIs DEF Flying, FrameSize, Message
<1>8. Asking(c)'
  <2>1. /\ up'[c] = << >> /\ down'[c] = << >> /\ server'[c] = server[c]
        /\ server[c] \in {Resting("idle"), Resting("closed")}
    BY <1>2 DEF Quiet, Call, wires
  <2>2. SendsOf(client', r) /\ SentCount(client', r) = 0
    BY <1>3, SendingBegins DEF Call
  <2>3. server'[c].at # "closed" => ReadCount(server'[c]) + Len(up'[c]) = 0
    BY <2>1, Places
  <2> QED BY <1>4, <1>6, <1>7, <2>1, <2>2, <2>3 DEF Asking
<1>9. Link(c)'
  BY <1>8 DEF Link
<1>10. socket' = c /\ c # None /\ socket \in {c, None}
  BY FramingAssumption DEF Call
<1>11. \A d \in Connections \ {c} :
         /\ server'[d] = server[d] /\ up'[d] = up[d] /\ down'[d] = down[d]
         /\ heard'[d] = heard[d] /\ said'[d] = said[d] /\ told'[d] = told[d]
  BY DEF Call, wires
<1> QED BY <1>4, <1>5, <1>9, <1>10, <1>11, OthersStay

LEMMA ClientFailsFlows ==
  ASSUME FlowInv, NEW c \in Connections, ClientFails(c)
  PROVE  FlowInv'
<1>1. Link(c) /\ FramingTypeOK /\ asked[c] # << >> /\ c # None
  BY FramingAssumption DEF FlowInv, ClientFails
<1>2. /\ socket = c /\ socket' = None /\ client' = Resting("idle") /\ client.at # "idle"
      /\ down' = [down EXCEPT ![c] = << >>] /\ UNCHANGED <<server, up, history>>
  BY DEF ClientFails, Thrown
<1>3. /\ down'[c] = << >> /\ \A d \in Connections \ {c} : down'[d] = down[d]
      /\ down' \in [Connections -> Seq(Byte)]
  BY <1>1, <1>2 DEF FramingTypeOK
<1>4. FramingTypeOK'
  BY <1>1, <1>2, <1>3, EndsAre DEF FramingTypeOK, history
<1>5. HungUp(c)'
  BY <1>1, <1>2 DEF HungUp, history
<1>6. \A h, s, t : Missing(c, h, s, t)' <=> Missing(c, h, s, t)
  BY <1>2 DEF Missing, history
<1>7. ~ Quiet(c)
  BY <1>2 DEF Quiet
<1>8. Link(c)'
  <2>1. CASE Asking(c)
    BY <1>1, <1>2, <1>3, <1>6, <2>1 DEF Asking, Link, history
  <2>2. CASE Running(c)
    BY <1>1, <1>2, <1>3, <1>6, <2>2 DEF Running, Link, history
  <2>3. CASE Answering(c)
    BY <1>1, <1>2, <1>3, <1>5, <1>6, <2>3 DEF Answering, Link, history
  <2> QED BY <1>1, <1>7, <2>1, <2>2, <2>3 DEF Link
<1> QED BY <1>1, <1>2, <1>3, <1>4, <1>8, Places, OthersStay DEF history

LEMMA ServerFailsFlows ==
  ASSUME FlowInv, NEW c \in Connections, ServerFails(c)
  PROVE  FlowInv'
<1>1. Link(c) /\ FramingTypeOK
  BY DEF FlowInv
<1>2. /\ server[c].at \notin {"idle", "closed"}
      /\ server' = [server EXCEPT ![c] = Resting("closed")]
      /\ up' = [up EXCEPT ![c] = << >>] /\ UNCHANGED <<socket, client, down, history>>
  BY DEF ServerFails
<1>3. /\ server'[c] = Resting("closed") /\ up'[c] = << >>
      /\ \A d \in Connections \ {c} : server'[d] = server[d] /\ up'[d] = up[d]
      /\ server' \in [Connections -> End] /\ up' \in [Connections -> Seq(Byte)]
  BY <1>1, <1>2, EndsAre DEF FramingTypeOK
<1>4. FramingTypeOK'
  BY <1>1, <1>2, <1>3 DEF FramingTypeOK, history
<1>5. \A h, s, t : Missing(c, h, s, t)' <=> Missing(c, h, s, t)
  BY <1>2 DEF Missing, history
<1>6. server'[c].at = "closed"
  BY <1>3, Places
<1>7. Link(c)'
  <2>1. CASE Quiet(c)
    BY <1>2, <1>3, <1>5, <2>1 DEF Quiet, Link, history
  <2>2. CASE Asking(c)
    BY <1>2, <1>3, <1>5, <1>6, <2>2 DEF Asking, Link, history
  <2>3. CASE Running(c)
    BY <1>2, <1>3, <1>5, <2>3 DEF Running, Link, history
  <2>4. CASE Answering(c)
    <3>1. \A m : ~ SendsOf(server'[c], m)
      BY <1>6, Places DEF Sends
    <3> QED BY <1>2, <1>3, <1>5, <1>6, <2>4, <3>1 DEF Answering, Link, history
  <2> QED BY <1>1, <2>1, <2>2, <2>3, <2>4 DEF Link
<1> QED BY <1>1, <1>2, <1>3, <1>4, <1>7, OthersStay DEF history, FlowInv

LEMMA WakesFlows ==
  ASSUME FlowInv, NEW c \in Connections, Wakes(c)
  PROVE  FlowInv'
<1>1. Link(c) /\ FramingTypeOK
  BY DEF FlowInv
<1>2. /\ server[c].at = "idle" /\ (up[c] # << >> \/ HungUp(c))
      /\ server' = [server EXCEPT ![c] = Receiving]
      /\ UNCHANGED <<socket, client, wires, history>>
  BY DEF Wakes
<1>3. /\ server'[c] = Receiving /\ server' \in [Connections -> End]
      /\ \A d \in Connections \ {c} : server'[d] = server[d]
  BY <1>1, <1>2, ReceivingBegins DEF FramingTypeOK
<1>4. FramingTypeOK'
  BY <1>1, <1>2, <1>3 DEF FramingTypeOK, wires, history
<1>5. \A h, s, t : Missing(c, h, s, t)' <=> Missing(c, h, s, t)
  BY <1>2 DEF Missing, history
<1>6. HungUp(c)' <=> HungUp(c)
  BY <1>2 DEF HungUp, history
<1>7. ASSUME Asking(c)
      PROVE  Link(c)'
  <2> DEFINE m == Last(asked[c])
  <2>1. server[c] = Resting("idle") /\ Flying(up[c], m, 0)
    <3>1. server[c] # Resting("closed") /\ \A n : ~ ReadsOf(server[c], n)
      BY <1>2, Places DEF Recvs
    <3> QED BY <1>7, <3>1 DEF Asking
  <2>2. ReadsOf(server'[c], m) /\ ReadCount(server'[c]) = 0 /\ server'[c].at # "closed"
    BY <1>3, ReceivingBegins
  <2>3. ReadCount(server[c]) = 0 /\ server[c].at # "closed"
    BY <2>1, Places
  <2>4. Asking(c)'
    BY <1>2, <1>3, <1>5, <1>7, <2>1, <2>2, <2>3 DEF Asking, wires, history
  <2> QED BY <2>4 DEF Link
<1>8. ASSUME ~ Asking(c)
      PROVE  Link(c)'
  <2>1. HungUp(c) /\ up[c] = << >> /\ socket # c
    BY <1>1, <1>2, <1>8, AskingIfUp DEF HungUp
  <2>2. ~ Running(c)
    <3>1. server[c] # Resting("run") /\ server[c] # Resting("closed")
      BY <1>2, Places
    <3> QED BY <3>1 DEF Running
  <2>3. CASE Quiet(c)
    BY <1>2, <1>3, <1>5, <1>6, <2>1, <2>3 DEF Quiet, Link, wires, history
  <2>4. CASE Answering(c)
    BY <1>2, <1>3, <1>5, <1>6, <2>1, <2>4 DEF Answering, Link, wires, history
  <2> QED BY <1>1, <1>8, <2>2, <2>3, <2>4 DEF Link
<1> QED BY <1>1, <1>2, <1>3, <1>4, <1>7, <1>8, OthersStay DEF wires, history, FlowInv

LEMMA RespondsFlows ==
  ASSUME FlowInv, NEW c \in Connections, NEW a \in Replies, Responds(c, a)
  PROVE  FlowInv'
<1>1. Link(c) /\ FramingTypeOK
  BY DEF FlowInv
<1>2. /\ server[c].at = "run" /\ server' = [server EXCEPT ![c] = Sending(a)]
      /\ said' = [said EXCEPT ![c] = Append(@, a)]
      /\ UNCHANGED <<socket, client, wires, asked, heard, told>>
  BY DEF Responds
<1>3. Running(c)
  BY <1>1, <1>2, RunningIfRun
<1>4. Message(a) /\ Sending(a) \in End
  BY MessagesAre, SendingBegins
<1>5. /\ said'[c] = Append(said[c], a) /\ Last(said'[c]) = a
      /\ Len(said'[c]) = Len(said[c]) + 1 /\ said' \in [Connections -> Seq(Replies)]
      /\ \A d \in Connections \ {c} : said'[d] = said[d]
  BY <1>1, <1>2, Typed, AppendIs DEF FramingTypeOK
<1>6. /\ server'[c] = Sending(a) /\ server' \in [Connections -> End]
      /\ \A d \in Connections \ {c} : server'[d] = server[d]
  BY <1>1, <1>2, <1>4 DEF FramingTypeOK
<1>7. FramingTypeOK'
  BY <1>1, <1>2, <1>5, <1>6 DEF FramingTypeOK, wires
<1>8. Missing(c, 0, 0, 1)'
  BY <1>1, <1>2, <1>3, <1>5, Typed DEF Missing, Running
<1>9. /\ SendsOf(server'[c], a) /\ SentCount(server'[c], a) = 0
      /\ server'[c].at = "sendLength"
  BY <1>4, <1>6, SendingBegins
<1>10. up'[c] = << >> /\ down'[c] = << >>
  BY <1>2, <1>3 DEF Running, wires
<1>11. socket' = c => /\ ReadsOf(client', a) /\ ReadCount(client') = 0
                      /\ Flying(down'[c], a, 0) /\ Len(down'[c]) = 0
  <2>1. Flying(<< >>, a, 0)
    BY <1>4, EmptyIs DEF Flying, FrameSize, Message
  <2> QED BY <1>2, <1>3, <1>10, <2>1, ReceivingBegins DEF Running
<1>12. Answering(c)'
  BY <1>5, <1>8, <1>9, <1>10, <1>11 DEF Answering
<1>13. Link(c)'
  BY <1>12 DEF Link
<1> QED BY <1>1, <1>2, <1>5, <1>6, <1>7, <1>13, OthersStay DEF wires, FlowInv

LEMMA RoomIs ==
  ASSUME NEW s \in End, NEW w \in Seq(Byte), NEW k \in Room(s, w)
  PROVE  k \in 1..Len(s.left)
<1>1. s.left \in Seq(Byte) /\ Len(s.left) \in Nat /\ Len(w) \in Nat
  BY EmptyIs DEF End
<1>2. Capacity \in Nat
  BY FramingAssumption
<1> DEFINE l == Len(s.left)
           p == Capacity - Len(w)
<1>3. k \in 1..Min({l, p}) /\ l \in Nat /\ p \in Int
  BY <1>1, <1>2 DEF Room
<1> HIDE DEF l, p
<1>4. Min({l, p}) = IF l <= p THEN l ELSE p
  BY <1>3, LesserOfTwo
<1> QED BY <1>3, <1>4 DEF l

\* b is what a send of k bytes takes of s, and w what is on its way behind the
\* first n bytes of the frame, which the receiver has.
Joins(m, s, k, w, n, b) ==
  /\ Message(m)
  /\ s \in End
  /\ SendsOf(s, m)
  /\ k \in 1..Len(s.left)
  /\ w \in Seq(Byte)
  /\ n \in Nat
  /\ Flying(w, m, n)
  /\ n + Len(w) = SentCount(s, m)
  /\ b = SubSeq(s.left, 1, k)

\* The sender's bytes join those that follow what has been read.
LEMMA SentJoins ==
  ASSUME NEW m, NEW s, NEW k, NEW w, NEW n, NEW b, Joins(m, s, k, w, n, b)
  PROVE  /\ w \o b \in Seq(Byte) /\ Flying(w \o b, m, n)
         /\ n + Len(w \o b) = SentCount(s, m) + k
<1> USE DEF Joins
<1>1. /\ b \in Seq(Byte) /\ Len(b) = k /\ SentCount(s, m) + k <= FrameSize(m)
      /\ \A i \in 1..k : b[i] = FrameAt(m, SentCount(s, m) + i)
  BY SendMoves
<1>2. /\ n + Len(w) + Len(b) <= FrameSize(m)
      /\ \A i \in 1..Len(b) : b[i] = FrameAt(m, n + Len(w) + i)
  BY <1>1
<1>3. Flying(w \o b, m, n)
  BY <1>1, <1>2, FlyingMoves
<1>4. w \o b \in Seq(Byte) /\ Len(w \o b) = Len(w) + k /\ Len(w) \in Nat /\ k \in Nat
  BY <1>1
<1>5. n + Len(w \o b) = SentCount(s, m) + k
  BY <1>4
<1> QED BY <1>3, <1>4, <1>5

LEMMA ClientSendsFlows ==
  ASSUME FlowInv, NEW c \in Connections, ClientSends(c)
  PROVE  FlowInv'
<1> DEFINE m == Last(asked[c])
           r == server[c]
<1>1. Link(c) /\ FramingTypeOK
  BY DEF FlowInv
<1>2. socket = c /\ client.at \in Sends /\ UNCHANGED <<socket, server, down, history>>
  BY DEF ClientSends
<1>3. PICK k \in Room(client, up[c]) :
        /\ up' = IF server[c].at = "closed" THEN up
                 ELSE [up EXCEPT ![c] = @ \o SubSeq(client.left, 1, k)]
        /\ client' = AfterSend(client, k, Receiving)
  BY DEF ClientSends
<1>4. Asking(c) /\ SendsOf(client, m)
  BY <1>1, <1>2, AskingIfSends
<1>5. client \in End /\ r \in End /\ up[c] \in Seq(Byte) /\ asked[c] \in Seq(Requests)
  BY <1>1, Typed
<1>6. Message(m)
  <2>1. Len(asked[c]) # 0
    BY <1>1, <1>4, Typed DEF Asking, Missing
  <2> QED BY <1>5, <2>1, LastIs, MessagesAre
<1>7. k \in 1..Len(client.left)
  BY <1>5, RoomIs
<1>8. /\ \/ /\ client' \in End /\ SendsOf(client', m)
            /\ SentCount(client', m) = SentCount(client, m) + k
         \/ client' = Receiving /\ SentCount(client, m) + k = FrameSize(m)
      /\ SubSeq(client.left, 1, k) \in Seq(Byte)
  BY <1>3, <1>4, <1>5, <1>6, <1>7, SendMoves
<1>9. client' \in End
  BY <1>8, ReceivingBegins
<1>10. CASE r.at = "closed"
  <2>1. r = Resting("closed") /\ up[c] = << >>
    BY <1>4, <1>10, Places DEF Asking, Recvs
  <2>2. up' = up
    BY <1>3, <1>10
  <2>3. FramingTypeOK'
    BY <1>1, <1>2, <1>9, <2>2 DEF FramingTypeOK, history
  <2>4. Asking(c)'
    <3>1. Missing(c, 1, 1, 1)' /\ Last(asked'[c]) = m
      BY <1>2, <1>4 DEF Asking, Missing, history
    <3>2. SendsOf(client', m) \/ client' = Receiving
      BY <1>8
    <3> QED BY <1>2, <1>4, <1>10, <2>1, <2>2, <3>1, <3>2 DEF Asking
  <2> QED BY <1>1, <1>2, <2>2, <2>3, <2>4, OthersStay, FramingAssumption DEF FlowInv, Link, history
<1>11. CASE r.at # "closed"
  <2> DEFINE b == SubSeq(client.left, 1, k)
             n == ReadCount(r)
  <2>1. /\ Flying(up[c], m, n) /\ n \in Nat /\ n + Len(up[c]) = SentCount(client, m)
        /\ r = Resting("idle") \/ ReadsOf(r, m)
    <3>1. client # Receiving
      BY <1>2, Places DEF Sends, Recvs
    <3>2. n \in Nat
      BY <1>5, ReadCounted
    <3> QED BY <1>2, <1>4, <1>11, <3>1, <3>2, Places DEF Asking
  <2>2. up' = [up EXCEPT ![c] = @ \o b]
    BY <1>3, <1>11
  <2>3. /\ up[c] \o b \in Seq(Byte) /\ Flying(up[c] \o b, m, n)
        /\ n + Len(up[c] \o b) = SentCount(client, m) + k
    <3>1. Joins(m, client, k, up[c], n, b)
      BY <1>4, <1>5, <1>6, <1>7, <2>1 DEF Joins
    <3> HIDE DEF n, m, b, r
    <3> QED BY <3>1, SentJoins
  <2>4. /\ up'[c] = up[c] \o b /\ up' \in [Connections -> Seq(Byte)]
        /\ \A d \in Connections \ {c} : up'[d] = up[d]
    BY <1>1, <2>2, <2>3 DEF FramingTypeOK
  <2> HIDE DEF b, n
  <2>5. FramingTypeOK'
    BY <1>1, <1>2, <1>9, <2>4 DEF FramingTypeOK, history
  <2>6. Asking(c)'
    <3>1. Missing(c, 1, 1, 1)' /\ Last(asked'[c]) = m /\ server'[c] = r
      BY <1>2, <1>4 DEF Asking, Missing, history
    <3>2. /\ Flying(up'[c], m, n) /\ n + Len(up'[c]) = SentCount(client, m) + k
      BY <2>3, <2>4
    <3>3. \/ SendsOf(client', m) /\ n + Len(up'[c]) = SentCount(client', m)
          \/ client' = Receiving /\ n + Len(up'[c]) = FrameSize(m)
      BY <1>8, <3>2
    <3>4. r = Resting("idle") => n = 0
      BY Places DEF n
    <3> HIDE DEF m, r
    <3> QED BY <1>2, <1>4, <1>11, <2>1, <3>1, <3>2, <3>3, <3>4 DEF Asking, n
  <2> QED BY <1>1, <1>2, <2>4, <2>5, <2>6, OthersStay, FramingAssumption DEF FlowInv, Link, history
<1> QED BY <1>10, <1>11

LEMMA ServerSendsFlows ==
  ASSUME FlowInv, NEW c \in Connections, ServerSends(c)
  PROVE  FlowInv'
<1> DEFINE m == Last(said[c])
           s == server[c]
<1>1. Link(c) /\ FramingTypeOK
  BY DEF FlowInv
<1>2. s.at \in Sends /\ UNCHANGED <<socket, client, up, history>>
  BY DEF ServerSends
<1>3. PICK k \in Room(s, down[c]) :
        /\ down' = IF HungUp(c) THEN down
                   ELSE [down EXCEPT ![c] = @ \o SubSeq(s.left, 1, k)]
        /\ server' = [server EXCEPT ![c] = AfterSend(s, k, Resting("idle"))]
  BY DEF ServerSends
<1>4. Answering(c) /\ SendsOf(s, m)
  BY <1>1, <1>2, AnsweringIfSends
<1>5. s \in End /\ client \in End /\ down[c] \in Seq(Byte) /\ said[c] \in Seq(Replies)
  BY <1>1, Typed
<1>6. Message(m) /\ Len(asked[c]) # 0
  <2>1. Len(asked[c]) # 0 /\ Len(said[c]) # 0
    BY <1>1, <1>4, Typed DEF Answering, Missing
  <2> QED BY <1>5, <2>1, LastIs, MessagesAre
<1>7. k \in 1..Len(s.left)
  BY <1>5, RoomIs
<1>8. /\ server'[c] = AfterSend(s, k, Resting("idle"))
      /\ \A d \in Connections \ {c} : server'[d] = server[d]
  BY <1>1, <1>3 DEF FramingTypeOK
<1>9. /\ \/ /\ server'[c] \in End /\ SendsOf(server'[c], m)
            /\ SentCount(server'[c], m) = SentCount(s, m) + k
         \/ server'[c] = Resting("idle") /\ SentCount(s, m) + k = FrameSize(m)
      /\ SubSeq(s.left, 1, k) \in Seq(Byte)
  BY <1>4, <1>5, <1>6, <1>7, <1>8, SendMoves
<1>10. server' \in [Connections -> End]
  <2>1. AfterSend(s, k, Resting("idle")) \in End
    BY <1>8, <1>9, EndsAre
  <2> QED BY <1>1, <1>3, <2>1 DEF FramingTypeOK
<1>11. Missing(c, 0, 0, 1)' /\ Last(said'[c]) = m /\ up'[c] = << >>
  BY <1>2, <1>4 DEF Answering, Missing, history
<1>12. CASE socket # c
  <2>1. HungUp(c)
    BY <1>1, <1>6, <1>12, Typed DEF HungUp
  <2>2. down' = down /\ down[c] = << >>
    BY <1>3, <1>4, <1>12, <2>1 DEF Answering
  <2>3. FramingTypeOK'
    BY <1>1, <1>2, <1>10, <2>2 DEF FramingTypeOK, history
  <2>4. Answering(c)'
    BY <1>2, <1>9, <1>11, <1>12, <2>2 DEF Answering
  <2> QED BY <1>1, <1>2, <1>8, <2>2, <2>3, <2>4, OthersStay DEF FlowInv, Link, history
<1>13. CASE socket = c
  <2> DEFINE b == SubSeq(s.left, 1, k)
             n == ReadCount(client)
  <2>1. /\ ReadsOf(client, m) /\ Flying(down[c], m, n) /\ n \in Nat
        /\ n + Len(down[c]) = SentCount(s, m)
    BY <1>4, <1>5, <1>13, ReadCounted DEF Answering
  <2>2. down' = [down EXCEPT ![c] = @ \o b]
    BY <1>3, <1>13 DEF HungUp
  <2>3. /\ down[c] \o b \in Seq(Byte) /\ Flying(down[c] \o b, m, n)
        /\ n + Len(down[c] \o b) = SentCount(s, m) + k
    <3>1. Joins(m, s, k, down[c], n, b)
      BY <1>4, <1>5, <1>6, <1>7, <2>1 DEF Joins
    <3> HIDE DEF n, m, b, s
    <3> QED BY <3>1, SentJoins
  <2>4. /\ down'[c] = down[c] \o b /\ down' \in [Connections -> Seq(Byte)]
        /\ \A d \in Connections \ {c} : down'[d] = down[d]
    BY <1>1, <2>2, <2>3 DEF FramingTypeOK
  <2> HIDE DEF b, n
  <2>5. FramingTypeOK'
    BY <1>1, <1>2, <1>10, <2>4 DEF FramingTypeOK, history
  <2>6. Answering(c)'
    <3>1. Flying(down'[c], m, n) /\ n + Len(down'[c]) = SentCount(s, m) + k
      BY <2>3, <2>4
    <3>2. CASE SendsOf(server'[c], m) /\ SentCount(server'[c], m) = SentCount(s, m) + k
      <4>1. server'[c].at # "idle"
        BY <3>2, Places DEF Sends
      <4> QED BY <1>2, <1>11, <1>13, <2>1, <3>1, <3>2, <4>1 DEF Answering, n
    <3>3. CASE server'[c] = Resting("idle") /\ SentCount(s, m) + k = FrameSize(m)
      <4>1. ~ SendsOf(server'[c], m)
        BY <3>3, Places DEF Sends
      <4> QED BY <1>2, <1>11, <1>13, <2>1, <3>1, <3>3, <4>1 DEF Answering, n
    <3> QED BY <1>9, <3>2, <3>3
  <2> QED BY <1>1, <1>2, <1>8, <2>4, <2>5, <2>6, OthersStay DEF FlowInv, Link, history
<1> QED BY <1>12, <1>13

\* What has been read of a wire that held no more than the rest of the frame.
LEMMA AllRead ==
  ASSUME NEW m, NEW w \in Seq(Byte), NEW n \in Nat, Flying(w, m, n),
         NEW k \in 1..Len(w), n + k = FrameSize(m)
  PROVE  Unread(w, k) = << >> /\ n + Len(w) = FrameSize(m)
<1>1. Len(w) \in Nat
  BY EmptyIs
<1>2. n + Len(w) <= n + k
  BY DEF Flying
<1>3. Len(w) = k
  BY <1>1, <1>2
<1>4. Unread(w, k) \in Seq(Byte) /\ Len(Unread(w, k)) = Len(w) - k
  BY UnreadIs
<1>5. Len(Unread(w, k)) = 0
  BY <1>1, <1>3, <1>4
<1> QED BY <1>3, <1>4, <1>5, EmptyIs

\* One recv, with what is left on the wire.
LEMMA ReceiveMoves ==
  ASSUME NEW m, NEW r, NEW w, NEW k, NEW done, NEW b, NEW t,
         Receives(m, r, w, k, done, b, t)
  PROVE  /\ \/ t = Resting("closed")
            \/ /\ t \in End /\ ReadsOf(t, m) /\ Unread(w, k) \in Seq(Byte)
               /\ Flying(Unread(w, k), m, ReadCount(t))
               /\ ReadCount(t) + Len(Unread(w, k)) = ReadCount(r) + Len(w)
            \/ /\ t = done /\ r.got \o b = m /\ Len(m) \in 1..MaxMessageSize
               /\ Unread(w, k) = << >> /\ ReadCount(r) + Len(w) = FrameSize(m)
         /\ ReadCount(r) \in Nat
<1>1. /\ \/ t = Resting("closed")
         \/ t \in End /\ ReadsOf(t, m) /\ ReadCount(t) = ReadCount(r) + k
         \/ /\ t = done /\ r.got \o b = m /\ Len(m) \in 1..MaxMessageSize
            /\ ReadCount(r) + k = FrameSize(m)
      /\ k \in 1..Len(w) /\ ReadCount(r) \in Nat
  BY RecvMoves
<1>2. w \in Seq(Byte) /\ Flying(w, m, ReadCount(r))
  BY DEF Receives
<1>3. /\ Unread(w, k) \in Seq(Byte) /\ Len(Unread(w, k)) = Len(w) - k
      /\ Flying(Unread(w, k), m, ReadCount(r) + k)
  BY <1>2, <1>1, UnreadIs, FlyingMoves
<1>4. Len(w) \in Nat /\ k \in Nat
  BY <1>2, <1>1, EmptyIs
<1>5. ReadCount(r) + k + Len(Unread(w, k)) = ReadCount(r) + Len(w)
  BY <1>1, <1>3, <1>4
<1>6. ReadCount(r) + k = FrameSize(m) =>
        Unread(w, k) = << >> /\ ReadCount(r) + Len(w) = FrameSize(m)
  BY <1>2, <1>1, AllRead
<1> QED BY <1>1, <1>3, <1>5, <1>6

LEMMA AvailableIs ==
  ASSUME NEW r \in End, NEW w \in Seq(Byte), NEW k \in Available(r, w)
  PROVE  w # << >>
<1>1. r.got \in Seq(Byte) /\ r.size \in Nat /\ Len(r.got) \in Nat
  BY EmptyIs DEF End
<1> DEFINE l == Len(w)
           p == r.size - Len(r.got)
<1>2. l \in Nat /\ p \in Int /\ (w = << >> => l = 0) /\ k \in 1..Min({p, l})
  BY <1>1, EmptyIs DEF Available
<1> HIDE DEF l, p
<1>3. Min({p, l}) = IF p <= l THEN p ELSE l
  BY <1>2, LesserOfTwo
<1> QED BY <1>2, <1>3

LEMMA ClientReceivesFlows ==
  ASSUME FlowInv, NEW c \in Connections, ClientReceives(c)
  PROVE  FlowInv' /\ [Whole!ExchangeNext]_(Whole!exchangeVars)
<1> DEFINE m == Last(said[c])
           w == down[c]
           s == server[c]
<1>1. Link(c) /\ FramingTypeOK /\ c # None /\ asked[c] # << >> /\ socket = c
  BY FramingAssumption DEF FlowInv, ClientReceives
<1>2. socket = c /\ client.at \in Recvs /\ UNCHANGED <<server, up, asked, heard, said>>
  BY DEF ClientReceives
<1>3. PICK k \in Available(client, w) :
        LET after == AfterRecv(client, SubSeq(w, 1, k), Resting("idle"))
        IN  /\ client' = IF after.at = "closed" THEN Resting("idle") ELSE after
            /\ socket' = Thrown(c, after.at)
            /\ told' = IF after.at = "idle"
                       THEN [told EXCEPT ![c] = Append(@, client.got \o SubSeq(w, 1, k))]
                       ELSE told
            /\ down' = [down EXCEPT ![c] = IF after.at = "closed" THEN << >> ELSE Unread(@, k)]
  BY DEF ClientReceives
<1> DEFINE b == SubSeq(w, 1, k)
           t == AfterRecv(client, b, Resting("idle"))
<1>4. /\ client' = IF t.at = "closed" THEN Resting("idle") ELSE t
      /\ socket' = IF t.at = "closed" THEN None ELSE c
      /\ told' = IF t.at = "idle"
                 THEN [told EXCEPT ![c] = Append(@, client.got \o b)] ELSE told
      /\ down' = [down EXCEPT ![c] = IF t.at = "closed" THEN << >> ELSE Unread(@, k)]
  BY <1>3 DEF Thrown
<1>5. /\ client \in End /\ w \in Seq(Byte) /\ s \in End /\ said[c] \in Seq(Replies)
      /\ told[c] \in Seq(Replies) /\ Len(told[c]) \in Nat /\ Len(said[c]) \in Nat
  BY <1>1, Typed
<1>6. w # << >>
  BY <1>5, AvailableIs
<1>7. Answering(c) /\ ReadsOf(client, m) /\ Flying(w, m, ReadCount(client))
  BY <1>1, <1>6, AnsweringIfDown DEF Answering
<1>8. Message(m) /\ m \in Replies /\ Len(said[c]) # 0 /\ Len(told[c]) = Len(said[c]) - 1
  <2>1. Len(said[c]) # 0 /\ Len(told[c]) = Len(said[c]) - 1
    BY <1>1, <1>7, Typed DEF Answering, Missing
  <2> QED BY <1>5, <2>1, LastIs, MessagesAre
<1> HIDE DEF m
<1>9. \/ t = Resting("closed")
      \/ /\ t \in End /\ ReadsOf(t, m) /\ Unread(w, k) \in Seq(Byte)
         /\ Flying(Unread(w, k), m, ReadCount(t))
         /\ ReadCount(t) + Len(Unread(w, k)) = ReadCount(client) + Len(w)
      \/ /\ t = Resting("idle") /\ client.got \o b = m /\ Len(m) \in 1..MaxMessageSize
         /\ Unread(w, k) = << >> /\ ReadCount(client) + Len(w) = FrameSize(m)
  <2>1. Receives(m, client, w, k, Resting("idle"), b, t)
    BY <1>5, <1>7, <1>8 DEF Receives
  <2> HIDE DEF b, t, w
  <2> QED BY <2>1, ReceiveMoves
<1> HIDE DEF t, b
<1>10. /\ server'[c] = s /\ up'[c] = << >> /\ Last(said'[c]) = m
       /\ s \in {Resting("idle"), Resting("closed")} \/ SendsOf(s, m)
  BY <1>1, <1>2, <1>7 DEF Answering, HungUp, m
<1>11. \A d \in Connections \ {c} : down'[d] = down[d] /\ told'[d] = told[d]
  BY <1>1, <1>4 DEF FramingTypeOK
<1>12. ASSUME FramingTypeOK', Link(c)', socket' = None => client'.at = "idle"
       PROVE  FlowInv'
  <2>1. socket' \in {c, None}
    BY <1>4
  <2> QED BY <1>1, <1>2, <1>11, <1>12, <2>1, OthersStay
<1>13. CASE t = Resting("closed")
  <2>1. /\ client' = Resting("idle") /\ socket' = None /\ told' = told
        /\ down' = [down EXCEPT ![c] = << >>]
    BY <1>4, <1>13, Places
  <2>2. down'[c] = << >> /\ down' \in [Connections -> Seq(Byte)]
    BY <1>1, <2>1 DEF FramingTypeOK
  <2>3. FramingTypeOK'
    BY <1>1, <1>2, <2>1, <2>2, EndsAre DEF FramingTypeOK
  <2>4. Missing(c, 0, 0, 1)'
    BY <1>2, <1>7, <2>1 DEF Answering, Missing
  <2>5. Link(c)'
    BY <1>1, <1>10, <2>1, <2>2, <2>4 DEF Answering, Link
  <2>6. Whole!HangUp
    BY <1>2, <2>1 DEF Whole!HangUp
  <2> QED BY <1>12, <2>1, <2>3, <2>5, <2>6, Places DEF Whole!ExchangeNext
<1>14. CASE /\ t \in End /\ ReadsOf(t, m) /\ Unread(w, k) \in Seq(Byte)
            /\ Flying(Unread(w, k), m, ReadCount(t))
            /\ ReadCount(t) + Len(Unread(w, k)) = ReadCount(client) + Len(w)
  <2>1. t.at \notin {"closed", "idle"}
    BY <1>14, Places DEF Recvs
  <2>2. /\ client' = t /\ socket' = c /\ told' = told
        /\ down' = [down EXCEPT ![c] = Unread(@, k)]
    BY <1>4, <2>1
  <2>3. down'[c] = Unread(w, k) /\ down' \in [Connections -> Seq(Byte)]
    BY <1>1, <1>14, <2>2 DEF FramingTypeOK
  <2>4. FramingTypeOK'
    BY <1>1, <1>2, <1>14, <2>2, <2>3 DEF FramingTypeOK
  <2>5. Missing(c, 0, 0, 1)'
    BY <1>2, <1>7, <2>2 DEF Answering, Missing
  <2>6. /\ SendsOf(s, m) => ReadCount(client) + Len(w) = SentCount(s, m)
        /\ s.at = "idle" => ReadCount(client) + Len(w) = FrameSize(m)
    BY <1>1, <1>7 DEF Answering, m
  <2>7. Answering(c)'
    BY <1>2, <1>10, <1>14, <2>2, <2>3, <2>5, <2>6 DEF Answering
  <2>8. UNCHANGED Whole!exchangeVars
    BY <1>2, <2>2 DEF Whole!exchangeVars
  <2> QED BY <1>1, <1>12, <2>2, <2>4, <2>7, <2>8 DEF Link
<1>15. CASE /\ t = Resting("idle") /\ client.got \o b = m /\ Len(m) \in 1..MaxMessageSize
            /\ Unread(w, k) = << >> /\ ReadCount(client) + Len(w) = FrameSize(m)
  <2>1. t.at = "idle"
    BY <1>15, Places
  <2>2. /\ client' = Resting("idle") /\ socket' = c
        /\ told' = [told EXCEPT ![c] = Append(@, m)]
        /\ down' = [down EXCEPT ![c] = Unread(@, k)]
    BY <1>4, <1>15, <2>1
  <2>3. down'[c] = << >> /\ down' \in [Connections -> Seq(Byte)]
    BY <1>1, <1>15, <2>2 DEF FramingTypeOK
  <2>4. /\ told'[c] = Append(told[c], m) /\ told' \in [Connections -> Seq(Replies)]
        /\ Len(told'[c]) = Len(told[c]) + 1
    BY <1>1, <1>5, <1>8, <2>2, AppendIs DEF FramingTypeOK
  <2>5. FramingTypeOK'
    BY <1>1, <1>2, <2>2, <2>3, <2>4, EndsAre DEF FramingTypeOK
  <2>6. Missing(c, 0, 0, 0)'
    BY <1>1, <1>2, <1>5, <1>7, <2>4, Typed DEF Answering, Missing
  <2>7. ~ SendsOf(s, m)
    <3>1. SendsOf(s, m) => ReadCount(client) + Len(w) = SentCount(s, m)
      BY <1>1, <1>7 DEF Answering, m
    <3>2. SendsOf(s, m) => SentCount(s, m) < FrameSize(m) /\ SentCount(s, m) \in Nat
                           /\ FrameSize(m) \in Nat
      BY <1>5, <1>8, SendsLess
    <3> QED BY <1>15, <3>1, <3>2
  <2>8. Quiet(c)'
    BY <1>10, <2>2, <2>3, <2>6, <2>7, Places DEF Quiet
  <2>9. Whole!Tell(c)
    <3>1. m = said[c][Len(told[c]) + 1] /\ Len(told[c]) < Len(said[c])
      BY <1>5, <1>8, LastIs DEF m
    <3>2. Whole!Fits(m)
      BY <1>15 DEF Whole!Fits
    <3> QED BY <1>2, <2>2, <3>1, <3>2 DEF Whole!Tell
  <2> QED BY <1>1, <1>12, <2>2, <2>5, <2>8, <2>9 DEF Link, Whole!ExchangeNext
<1> QED BY <1>9, <1>13, <1>14, <1>15

LEMMA ServerReceivesFlows ==
  ASSUME FlowInv, NEW c \in Connections, ServerReceives(c)
  PROVE  FlowInv' /\ [Whole!ExchangeNext]_(Whole!exchangeVars)
<1> DEFINE m == Last(asked[c])
           w == up[c]
           r == server[c]
<1>1. Link(c) /\ FramingTypeOK
  BY DEF FlowInv
<1>2. r.at \in Recvs /\ UNCHANGED <<socket, client, down, asked, said, told>>
  BY DEF ServerReceives
<1>3. PICK k \in Available(r, w) :
        LET after == AfterRecv(r, SubSeq(w, 1, k), Resting("run"))
        IN  /\ server' = [server EXCEPT ![c] = after]
            /\ heard' = IF after.at = "run"
                        THEN [heard EXCEPT ![c] = Append(@, r.got \o SubSeq(w, 1, k))]
                        ELSE heard
            /\ up' = [up EXCEPT ![c] = IF after.at = "closed" THEN << >> ELSE Unread(@, k)]
  BY DEF ServerReceives
<1> DEFINE b == SubSeq(w, 1, k)
           t == AfterRecv(r, b, Resting("run"))
<1>4. /\ server' = [server EXCEPT ![c] = t]
      /\ heard' = IF t.at = "run"
                  THEN [heard EXCEPT ![c] = Append(@, r.got \o b)] ELSE heard
      /\ up' = [up EXCEPT ![c] = IF t.at = "closed" THEN << >> ELSE Unread(@, k)]
  BY <1>3
<1>5. /\ client \in End /\ w \in Seq(Byte) /\ r \in End /\ asked[c] \in Seq(Requests)
      /\ heard[c] \in Seq(Requests) /\ Len(heard[c]) \in Nat /\ Len(asked[c]) \in Nat
  BY <1>1, Typed
<1>6. Asking(c)
  BY <1>1, <1>5, AvailableIs, AskingIfUp
<1>7. ReadsOf(r, m) /\ Flying(w, m, ReadCount(r))
  <2>1. r # Resting("closed") /\ r # Resting("idle")
    BY <1>2, Places DEF Recvs
  <2> QED BY <1>6, <2>1 DEF Asking
<1>8. Message(m) /\ m \in Requests /\ Len(asked[c]) # 0 /\ Len(heard[c]) = Len(asked[c]) - 1
  <2>1. Len(asked[c]) # 0 /\ Len(heard[c]) = Len(asked[c]) - 1
    BY <1>5, <1>6 DEF Asking, Missing
  <2> QED BY <1>5, <2>1, LastIs, MessagesAre
<1> HIDE DEF m
<1>9. \/ t = Resting("closed")
      \/ /\ t \in End /\ ReadsOf(t, m) /\ Unread(w, k) \in Seq(Byte)
         /\ Flying(Unread(w, k), m, ReadCount(t))
         /\ ReadCount(t) + Len(Unread(w, k)) = ReadCount(r) + Len(w)
      \/ /\ t = Resting("run") /\ r.got \o b = m /\ Len(m) \in 1..MaxMessageSize
         /\ Unread(w, k) = << >> /\ ReadCount(r) + Len(w) = FrameSize(m)
  <2>1. Receives(m, r, w, k, Resting("run"), b, t)
    BY <1>5, <1>7, <1>8 DEF Receives
  <2> HIDE DEF b, t, w, r
  <2> QED BY <2>1, ReceiveMoves
<1> HIDE DEF t, b
<1>10. /\ down'[c] = << >> /\ Last(asked'[c]) = m
       /\ socket = c => \/ /\ SendsOf(client, m)
                           /\ ReadCount(r) + Len(w) = SentCount(client, m)
                        \/ /\ client = Receiving
                           /\ ReadCount(r) + Len(w) = FrameSize(m)
  <2>1. r.at # "closed"
    BY <1>2 DEF Recvs
  <2> QED BY <1>2, <1>6, <2>1 DEF Asking, m
<1>11. /\ server'[c] = t /\ \A d \in Connections \ {c} : server'[d] = server[d]
       /\ \A d \in Connections \ {c} : up'[d] = up[d] /\ heard'[d] = heard[d]
  BY <1>1, <1>4 DEF FramingTypeOK
<1>12. ASSUME FramingTypeOK', Link(c)'
       PROVE  FlowInv'
  BY <1>1, <1>2, <1>11, <1>12, OthersStay DEF FlowInv
<1>13. CASE t = Resting("closed")
  <2>1. heard' = heard /\ up' = [up EXCEPT ![c] = << >>]
    BY <1>4, <1>13, Places
  <2>2. /\ up'[c] = << >> /\ up' \in [Connections -> Seq(Byte)]
        /\ server' \in [Connections -> End]
    <3>1. t \in End
      BY <1>13, EndsAre
    <3>2. server' \in [Connections -> End]
      BY <1>1, <1>4, <3>1 DEF FramingTypeOK
    <3>3. up \in [Connections -> Seq(Byte)] /\ << >> \in Seq(Byte)
      BY <1>1 DEF FramingTypeOK
    <3> QED BY <2>1, <3>2, <3>3
  <2>3. FramingTypeOK'
    BY <1>1, <1>2, <2>1, <2>2 DEF FramingTypeOK
  <2>4. Missing(c, 1, 1, 1)'
    BY <1>2, <1>6, <2>1 DEF Asking, Missing
  <2>5. server'[c] = Resting("closed") /\ server'[c].at = "closed"
    BY <1>11, <1>13, Places
  <2>6. Asking(c)'
    BY <1>2, <1>10, <2>2, <2>4, <2>5 DEF Asking
  <2>7. UNCHANGED Whole!exchangeVars
    BY <1>2, <2>1 DEF Whole!exchangeVars
  <2> QED BY <1>12, <2>3, <2>6, <2>7 DEF Link
<1>14. CASE /\ t \in End /\ ReadsOf(t, m) /\ Unread(w, k) \in Seq(Byte)
            /\ Flying(Unread(w, k), m, ReadCount(t))
            /\ ReadCount(t) + Len(Unread(w, k)) = ReadCount(r) + Len(w)
  <2>1. t.at \notin {"closed", "run"}
    BY <1>14, Places DEF Recvs
  <2>2. heard' = heard /\ up' = [up EXCEPT ![c] = Unread(@, k)]
    BY <1>4, <2>1
  <2>3. /\ up'[c] = Unread(w, k) /\ up' \in [Connections -> Seq(Byte)]
        /\ server' \in [Connections -> End]
    BY <1>1, <1>4, <1>14, <2>2 DEF FramingTypeOK
  <2>4. FramingTypeOK'
    BY <1>1, <1>2, <2>2, <2>3 DEF FramingTypeOK
  <2>5. Missing(c, 1, 1, 1)'
    BY <1>2, <1>6, <2>2 DEF Asking, Missing
  <2>6. Asking(c)'
    BY <1>2, <1>10, <1>11, <1>14, <2>3, <2>5 DEF Asking
  <2>7. UNCHANGED Whole!exchangeVars
    BY <1>2, <2>2 DEF Whole!exchangeVars
  <2> QED BY <1>12, <2>4, <2>6, <2>7 DEF Link
<1>15. CASE /\ t = Resting("run") /\ r.got \o b = m /\ Len(m) \in 1..MaxMessageSize
            /\ Unread(w, k) = << >> /\ ReadCount(r) + Len(w) = FrameSize(m)
  <2>1. t.at = "run"
    BY <1>15, Places
  <2>2. /\ heard' = [heard EXCEPT ![c] = Append(@, m)]
        /\ up' = [up EXCEPT ![c] = Unread(@, k)]
    BY <1>4, <1>15, <2>1
  <2>3. /\ up'[c] = << >> /\ up' \in [Connections -> Seq(Byte)]
        /\ server' \in [Connections -> End]
    <3>1. up \in [Connections -> Seq(Byte)] /\ server \in [Connections -> End]
      BY <1>1 DEF FramingTypeOK
    <3>2. up'[c] = << >> /\ up' \in [Connections -> Seq(Byte)]
      BY <1>4, <1>15, <2>2, <3>1
    <3>3. server' \in [Connections -> End]
      BY <1>4, <1>15, <3>1, EndsAre
    <3> QED BY <3>2, <3>3
  <2>4. /\ heard'[c] = Append(heard[c], m) /\ heard' \in [Connections -> Seq(Requests)]
        /\ Len(heard'[c]) = Len(heard[c]) + 1
    BY <1>1, <1>5, <1>8, <2>2, AppendIs DEF FramingTypeOK
  <2>5. FramingTypeOK'
    BY <1>1, <1>2, <2>2, <2>3, <2>4 DEF FramingTypeOK
  <2>6. Missing(c, 0, 1, 1)'
    BY <1>2, <1>5, <1>6, <2>4 DEF Asking, Missing
  <2>7. socket = c => client = Receiving
    <3>1. SendsOf(client, m) => SentCount(client, m) < FrameSize(m)
                                /\ SentCount(client, m) \in Nat /\ FrameSize(m) \in Nat
      BY <1>5, <1>8, SendsLess
    <3> QED BY <1>10, <1>15, <3>1
  <2>8. Running(c)'
    BY <1>2, <1>10, <1>11, <1>15, <2>3, <2>6, <2>7 DEF Running
  <2>9. Whole!Hear(c)
    <3>1. m = asked[c][Len(heard[c]) + 1] /\ Len(heard[c]) < Len(asked[c])
      BY <1>5, <1>8, LastIs DEF m
    <3>2. Whole!Fits(m)
      BY <1>15 DEF Whole!Fits
    <3> QED BY <1>2, <2>2, <3>1, <3>2 DEF Whole!Hear
  <2> QED BY <1>12, <2>5, <2>8, <2>9 DEF Link, Whole!ExchangeNext
<1> QED BY <1>9, <1>13, <1>14, <1>15

-----------------------------------------------------------------------------
(* The theorems. *)

LEMMA FlowBegins == FramingInit => FlowInv
<1> SUFFICES ASSUME FramingInit PROVE FlowInv
  OBVIOUS
<1> USE DEF FramingInit
<1>1. FramingTypeOK
  BY EndsAre DEF FramingTypeOK
<1>2. ASSUME NEW c \in Connections
      PROVE  Quiet(c) /\ socket # c
  <2>1. Missing(c, 0, 0, 0)
    BY DEF Missing
  <2> QED BY <2>1, FramingAssumption DEF Quiet
<1> QED BY <1>1, <1>2, Places DEF FlowInv, Link

\* A step keeps the invariant, and is a step of Exchange or none.
LEMMA StepFlows ==
  ASSUME FlowInv, [FramingNext]_framingVars
  PROVE  FlowInv' /\ [Whole!ExchangeNext]_(Whole!exchangeVars)
<1>1. ASSUME NEW c \in Connections, NEW r \in Requests, Call(c, r)
      PROVE  FlowInv' /\ [Whole!ExchangeNext]_(Whole!exchangeVars)
  <2>1. FlowInv'
    BY <1>1, CallFlows
  <2>2. socket = c => Len(told[c]) = Len(asked[c])
    <3>1. socket = c => Missing(c, 0, 0, 0)
      BY <1>1, QuietIfIdle DEF FlowInv, Call, Quiet
    <3>2. Len(asked[c]) \in Nat
      BY Typed DEF FlowInv
    <3> QED BY <3>1, <3>2 DEF Missing
  <2>3. Whole!Ask(c, r)
    BY <1>1, <2>2 DEF Call, Whole!Ask, Whole!Usable, wires
  <2> QED BY <1>1, <2>1, <2>3 DEF Whole!ExchangeNext
<1>2. ASSUME NEW c \in Connections, ClientSends(c)
      PROVE  FlowInv' /\ [Whole!ExchangeNext]_(Whole!exchangeVars)
  BY <1>2, ClientSendsFlows DEF ClientSends, Whole!exchangeVars, history
<1>3. ASSUME NEW c \in Connections, ClientFails(c)
      PROVE  FlowInv' /\ [Whole!ExchangeNext]_(Whole!exchangeVars)
  <2>1. Whole!HangUp
    BY <1>3 DEF ClientFails, Whole!HangUp, Thrown, history
  <2> QED BY <1>3, <2>1, ClientFailsFlows DEF Whole!ExchangeNext
<1>4. ASSUME NEW c \in Connections, Wakes(c)
      PROVE  FlowInv' /\ [Whole!ExchangeNext]_(Whole!exchangeVars)
  BY <1>4, WakesFlows DEF Wakes, Whole!exchangeVars, history
<1>5. ASSUME NEW c \in Connections, NEW a \in Replies, Responds(c, a)
      PROVE  FlowInv' /\ [Whole!ExchangeNext]_(Whole!exchangeVars)
  <2>1. Len(said[c]) < Len(heard[c])
    <3>1. Missing(c, 0, 1, 1)
      BY <1>5, RunningIfRun DEF FlowInv, Responds, Running
    <3>2. Len(asked[c]) \in Nat
      BY Typed DEF FlowInv
    <3> QED BY <3>1, <3>2 DEF Missing
  <2>2. Whole!Say(c, a)
    BY <1>5, <2>1 DEF Responds, Whole!Say
  <2> QED BY <1>5, <2>2, RespondsFlows DEF Whole!ExchangeNext
<1>6. ASSUME NEW c \in Connections, ServerSends(c)
      PROVE  FlowInv' /\ [Whole!ExchangeNext]_(Whole!exchangeVars)
  BY <1>6, ServerSendsFlows DEF ServerSends, Whole!exchangeVars, history
<1>7. ASSUME NEW c \in Connections, ServerFails(c)
      PROVE  FlowInv' /\ [Whole!ExchangeNext]_(Whole!exchangeVars)
  BY <1>7, ServerFailsFlows DEF ServerFails, Whole!exchangeVars, history
<1>8. CASE FramingNext
  BY <1>1, <1>2, <1>3, <1>4, <1>5, <1>6, <1>7, <1>8, ClientReceivesFlows, ServerReceivesFlows
  DEF FramingNext, ClientStep, ServerStep
<1>9. CASE UNCHANGED framingVars
  <2>1. \A c \in Connections : Link(c)'
    BY <1>9, LinkStays DEF FlowInv, framingVars, wires, history
  <2> QED BY <1>9, <2>1 DEF FlowInv, FramingTypeOK, framingVars, wires, history, Whole!exchangeVars
<1> QED BY <1>8, <1>9

\* The frames on their way are where the two ends are in them, for any sizes.
THEOREM FramingFlows == FramingSpec => []FlowInv
<1>1. FlowInv /\ [FramingNext]_framingVars => FlowInv'
  BY StepFlows
<1> QED BY <1>1, FlowBegins, PTL DEF FramingSpec

\* The variables keep their types; in particular what is handed to a handler,
\* and what sendRequest returns, is a message.
THEOREM FramingTyped == FramingSpec => []FramingTypeOK
<1>1. FlowInv => FramingTypeOK
  BY DEF FlowInv
<1> QED BY <1>1, FramingFlows, PTL

\* Between two calls of sendRequest no byte is left in its connection and the
\* server waits for the next length or has closed.
THEOREM QuietFramesBetweenCalls == FramingSpec => []QuietBetweenCalls
<1>1. FlowInv => QuietBetweenCalls
  <2> SUFFICES ASSUME FlowInv, client.at = "idle", NEW c \in Connections, socket = c
               PROVE  /\ up[c] = << >> /\ down[c] = << >>
                      /\ server[c].at \in {"idle", "closed"}
                      /\ Len(told[c]) = Len(asked[c])
    BY DEF QuietBetweenCalls
  <2>1. Quiet(c) /\ ~ HungUp(c)
    BY QuietIfIdle DEF FlowInv, HungUp
  <2>2. Len(asked[c]) \in Nat
    BY Typed DEF FlowInv
  <2>3. server[c].at \in {"idle", "closed"}
    BY <2>1, Places DEF Quiet
  <2>4. Len(told[c]) = Len(asked[c])
    BY <2>1, <2>2 DEF Quiet, Missing
  <2> QED BY <2>1, <2>3, <2>4 DEF Quiet
<1> QED BY <1>1, FramingFlows, PTL

\* The byte stream implements the exchange of whole messages: whatever a send
\* or recv moves and wherever it fails, a message arrives as it was sent, in
\* order and once, and none of more than MAX_MESSAGE_SIZE bytes.
THEOREM FramingImplementsExchange == FramingSpec => FramesArriveWhole
<1>1. FramingInit => Whole!ExchangeInit
  BY DEF FramingInit, Whole!ExchangeInit
<1>2. FlowInv /\ [FramingNext]_framingVars => [Whole!ExchangeNext]_(Whole!exchangeVars)
  BY StepFlows
<1> QED BY <1>1, <1>2, FramingFlows, PTL DEF FramingSpec, FramesArriveWhole, Whole!ExchangeSpec
=============================================================================
