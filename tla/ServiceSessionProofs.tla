------------------------ MODULE ServiceSessionProofs ------------------------
(***************************************************************************)
(* ServiceSession implements ServiceProcess, for every size of the table   *)
(* of pending requests and every number of requests and of frames in       *)
(* flight: the real client gives the controller no other events than the   *)
(* summary of it, so what is proved of ServiceProcess holds with the       *)
(* client itself.                                                          *)
(***************************************************************************)
EXTENDS ServiceSession, SequenceTheorems, WellFoundedInduction, TLAPS

-----------------------------------------------------------------------------
(* The wire, for a client in state c with the requests p and the frames q *)

ConnectedStates == {"Authenticating", "Ready", "Closing"}

RefusedIn(p, q, i) ==
    \/ q[i].kind = "garbage"
    \/ /\ q[i].kind = "response"
       /\ \/ \A r \in p : r.id # q[i].id
          \/ \E j \in 1 .. i - 1 : q[j].kind = "response" /\ q[j].id = q[i].id
          \/ q[i].id = 1 /\ q[i].answer # "accept"

\* The answer to a hello or to a shutdown that succeeded.
Weighty(p, frame) ==
    /\ frame.kind = "response"
    /\ \E r \in p : /\ r.id = frame.id
                    /\ \/ r.method = "hello"
                       \/ r.method = "shutdown" /\ frame.answer = "ok"

NotableIn(c, p, q, i) == RefusedIn(p, q, i) \/ (c # "Closing" /\ Weighty(p, q[i]))

Quiet(c, p, q) == \A i \in 1 .. Len(q) : ~NotableIn(c, p, q, i)

First(c, p, q, i) ==
    /\ i \in 1 .. Len(q) /\ NotableIn(c, p, q, i)
    /\ \A j \in 1 .. i - 1 : ~NotableIn(c, p, q, j)

\* A shutdown is still to be answered.
Asked(p, q) ==
    \E r \in p : /\ r.method = "shutdown"
                 /\ \A i \in 1 .. Len(q) : q[i].kind = "response" => q[i].id # r.id

Verdict(p, q, i) == IF RefusedIn(p, q, i) THEN "garbage"
                    ELSE IF q[i].id = 1 THEN "accept" ELSE "bye"

Silence(c, p, q) == IF c = "Authenticating" THEN "hello"
                    ELSE IF c = "Ready" /\ Asked(p, q) THEN "shutdown" ELSE "idle"

Wire(c, p, q) ==
    IF c \notin ConnectedStates THEN "idle"
    ELSE IF Quiet(c, p, q) THEN Silence(c, p, q)
    ELSE Verdict(p, q, CHOOSE i \in 1 .. Len(q) : First(c, p, q, i))

\* A set of natural numbers that is not empty has a least element.
LEMMA LeastElement ==
  ASSUME NEW T \in SUBSET Nat, T # {}
  PROVE  \E x \in T : \A y \in T : x <= y
<1> DEFINE R == {ss \in Nat \X Nat : ss[1] < ss[2]}
<1>1. IsWellFoundedOn(R, Nat)
  BY NatLessThanWellFounded DEF OpToRel
<1>2. \A x, y \in Nat : <<y, x>> \in R <=> y < x
  OBVIOUS
<1> HIDE DEF R
<1>3. PICK x \in T : \A y \in T : ~(<<y, x>> \in R)
  BY <1>1, WFMin
<1>4. \A y \in T : ~(y < x)
  BY <1>2, <1>3
<1>5. \A y \in T : x <= y
  BY <1>4
<1> QED
  BY <1>5

\* A wire that is not quiet has a first frame that makes a difference.
LEMMA FirstExists ==
  ASSUME NEW c, NEW p, NEW q, ~Quiet(c, p, q)
  PROVE  \E k \in 1 .. Len(q) : First(c, p, q, k)
<1> DEFINE T == {i \in 1 .. Len(q) : NotableIn(c, p, q, i)}
<1>1. T \in SUBSET Nat /\ T # {}
  BY DEF Quiet
<1>2. PICK k \in T : \A y \in T : k <= y
  BY <1>1, LeastElement
<1>3. k \in 1 .. Len(q) /\ NotableIn(c, p, q, k)
  OBVIOUS
<1>4. ASSUME NEW j \in 1 .. k - 1, NotableIn(c, p, q, j) PROVE FALSE
  <2>1. j \in 1 .. Len(q) /\ j < k
    BY <1>3
  <2>2. j \in T
    BY <1>4, <2>1
  <2>3. k <= j
    BY <1>2, <2>2
  <2> QED
    BY <1>3, <2>1, <2>3
<1> QED
  BY <1>3, <1>4 DEF First

\* There is one such frame, and it is what the wire shows.
LEMMA WireFirst ==
  ASSUME NEW c \in ConnectedStates, NEW p, NEW q, NEW k, First(c, p, q, k)
  PROVE  ~Quiet(c, p, q) /\ Wire(c, p, q) = Verdict(p, q, k)
<1>1. k \in 1 .. Len(q) /\ NotableIn(c, p, q, k)
  BY DEF First
<1>2. ~Quiet(c, p, q)
  BY <1>1 DEF Quiet
<1>3. ASSUME NEW i \in 1 .. Len(q), First(c, p, q, i) PROVE i = k
  <2>1. i < k => i \in 1 .. k - 1
    BY <1>1
  <2>2. k < i => k \in 1 .. i - 1
    BY <1>1
  <2>3. ~(i < k) /\ ~(k < i)
    BY <1>3, <2>1, <2>2 DEF First
  <2> QED
    BY <1>1, <2>3
<1>4. (CHOOSE i \in 1 .. Len(q) : First(c, p, q, i)) = k
  BY <1>1, <1>3
<1> QED
  BY <1>2, <1>4 DEF Wire

\* A wire on which nothing makes a difference shows what the service still owes.
LEMMA WireQuiet ==
  ASSUME NEW c \in ConnectedStates, NEW p, NEW q, Quiet(c, p, q)
  PROVE  Wire(c, p, q) = Silence(c, p, q)
BY DEF Wire

\* This is the view of the model.
LEMMA ViewIsWire ==
  toClient \in Seq(Client!Frame) => WireView = Wire(clientState, pendingRequests, toClient)
<1>1. toClient \in Seq(Client!Frame)
        => WireView = Wire(clientState, pendingRequests, toClient)
  <2> SUFFICES ASSUME toClient \in Seq(Client!Frame)
               PROVE  WireView = Wire(clientState, pendingRequests, toClient)
    OBVIOUS
  <2> DEFINE c == clientState
             p == pendingRequests
             q == toClient
  <2>1. DOMAIN q = 1 .. Len(q)
    BY LenProperties
  <2>2. \A i : Refused(i) <=> RefusedIn(p, q, i)
    BY DEF Refused, RefusedIn, Client!IdsOf, Client!Authentic
  <2>3. ASSUME NEW i PROVE Notable(i) <=> NotableIn(c, p, q, i)
    <3>1. Notable(i) <=> Refused(i) \/ (c # "Closing" /\ Weighty(p, q[i]))
      BY Zenon DEF Notable, Weighty
    <3> QED
      BY <2>2, <3>1, Zenon DEF NotableIn
  <2>4. Unanswered("shutdown") <=> Asked(p, q)
    BY <2>1 DEF Unanswered, Asked, Client!IdsOf, Client!Responses, Client!Elements
  <2>5. (\E i \in DOMAIN q : Notable(i)) <=> ~Quiet(c, p, q)
    BY <2>1, <2>3 DEF Quiet
  <2>6. (CHOOSE i \in DOMAIN q : Notable(i) /\ \A j \in 1 .. i - 1 : ~Notable(j))
          = CHOOSE i \in 1 .. Len(q) : First(c, p, q, i)
    <3>1. \A i \in 1 .. Len(q) : Notable(i) /\ (\A j \in 1 .. i - 1 : ~Notable(j))
                                   <=> First(c, p, q, i)
      BY <2>3 DEF First
    <3> QED
      BY <2>1, <3>1
  <2> QED
    BY <2>2, <2>4, <2>5, <2>6
       DEF WireView, Wire, Connected, ConnectedStates, Verdict, Silence
<1> QED
  BY <1>1

\* So it is after a step.
LEMMA NextViewIsWire ==
  toClient' \in Seq(Client!Frame)
     => WireView' = Wire(clientState', pendingRequests', toClient')
<1>1. (toClient \in Seq(Client!Frame)
         => WireView = Wire(clientState, pendingRequests, toClient))'
  BY ViewIsWire, PTL
<1>2. (toClient \in Seq(Client!Frame))' <=> toClient' \in Seq(Client!Frame)
  BY DEF Client!Frame, Client!Ids, Client!Answers
<1>3. Wire(clientState, pendingRequests, toClient)'
        = Wire(clientState', pendingRequests', toClient')
  BY DEF Wire, Quiet, First, NotableIn, RefusedIn, Weighty, Verdict, Silence, Asked
<1> QED
  BY <1>1, <1>2, <1>3

-----------------------------------------------------------------------------
(* What a frame or a request more, or one less, does to the wire *)

\* Two wires that agree on every frame agree.
LEMMA SameWire ==
  ASSUME NEW c \in ConnectedStates, NEW p, NEW q, NEW p2, NEW q2, NEW k,
         First(c, p, q, k), First(c, p2, q2, k), q2[k] = q[k],
         RefusedIn(p2, q2, k) <=> RefusedIn(p, q, k)
  PROVE  Wire(c, p2, q2) = Wire(c, p, q)
<1>1. Wire(c, p, q) = Verdict(p, q, k) /\ Wire(c, p2, q2) = Verdict(p2, q2, k)
  BY WireFirst
<1> QED
  BY <1>1 DEF Verdict

\* A frame more changes nothing, or becomes the first that makes a difference, or is
\* one that makes none.
LEMMA FrameJoins ==
  ASSUME NEW c \in ConnectedStates, NEW p, NEW S, NEW q \in Seq(S), NEW f \in S
  PROVE  LET q2 == Append(q, f)
             n == Len(q) + 1
         IN  \/ Wire(c, p, q2) = Wire(c, p, q)
             \/ /\ Quiet(c, p, q) /\ NotableIn(c, p, q2, n)
                /\ Wire(c, p, q2) = Verdict(p, q2, n)
             \/ Quiet(c, p, q) /\ Wire(c, p, q2) = Silence(c, p, q2)
<1> DEFINE q2 == Append(q, f)
           n == Len(q) + 1
<1>1. n \in Nat /\ Len(q) \in Nat /\ Len(q2) = n /\ (\A i \in 1 .. Len(q) : q2[i] = q[i])
  BY AppendProperties, LenProperties
<1> HIDE DEF q2
<1>2. ASSUME NEW i \in 1 .. Len(q)
      PROVE  /\ RefusedIn(p, q2, i) <=> RefusedIn(p, q, i)
             /\ NotableIn(c, p, q2, i) <=> NotableIn(c, p, q, i)
  <2>1. q2[i] = q[i] /\ \A j \in 1 .. i - 1 : q2[j] = q[j]
    <3>1. \A j \in 1 .. i - 1 : j \in 1 .. Len(q)
      BY <1>1
    <3> QED
      BY <1>1, <3>1
  <2>2. RefusedIn(p, q2, i) <=> RefusedIn(p, q, i)
    BY <2>1 DEF RefusedIn
  <2> QED
    BY <2>1, <2>2 DEF NotableIn
<1>3. CASE ~Quiet(c, p, q)
  <2>1. PICK k \in 1 .. Len(q) : First(c, p, q, k)
    BY <1>3, FirstExists
  <2>2. k \in 1 .. Len(q2) /\ \A j \in 1 .. k - 1 : j \in 1 .. Len(q)
    BY <1>1
  <2>3. First(c, p, q2, k)
    BY <1>2, <2>1, <2>2 DEF First
  <2>4. Wire(c, p, q2) = Wire(c, p, q)
    BY <1>1, <1>2, <2>1, <2>3, SameWire
  <2> QED
    BY <2>4 DEF q2
<1>4. CASE Quiet(c, p, q) /\ NotableIn(c, p, q2, n)
  <2>1. n \in 1 .. Len(q2) /\ \A j \in 1 .. n - 1 : j \in 1 .. Len(q)
    BY <1>1
  <2>2. \A j \in 1 .. n - 1 : ~NotableIn(c, p, q2, j)
    BY <1>2, <1>4, <2>1 DEF Quiet
  <2>3. First(c, p, q2, n)
    BY <1>4, <2>1, <2>2 DEF First
  <2>4. Wire(c, p, q2) = Verdict(p, q2, n)
    BY <2>3, WireFirst
  <2> QED
    BY <1>4, <2>4 DEF q2
<1>5. CASE Quiet(c, p, q) /\ ~NotableIn(c, p, q2, n)
  <2>1. \A i \in 1 .. Len(q2) : i \in 1 .. Len(q) \/ i = n
    BY <1>1
  <2>2. Quiet(c, p, q2)
    BY <1>2, <1>5, <2>1 DEF Quiet
  <2>3. Wire(c, p, q2) = Silence(c, p, q2)
    BY <2>2, WireQuiet
  <2> QED
    BY <1>5, <2>3 DEF q2
<1> QED
  BY <1>3, <1>4, <1>5

\* The requests of a connected client: the hello alone, or none of them a hello.
HelloFits(c, p) ==
    /\ c = "Authenticating" => p = {[id |-> 1, method |-> "hello"]}
    /\ c \in {"Ready", "Closing"} => \A r \in p : r.id # 1 /\ r.method # "hello"

\* What the service can make of the wire, whatever it sends.
LEMMA ServiceSends ==
  ASSUME NEW c \in ConnectedStates, NEW p, NEW S, NEW q \in Seq(S), NEW f \in S,
         HelloFits(c, p)
  PROVE  LET before == Wire(c, p, q)
             after == Wire(c, p, Append(q, f))
         IN  \/ after \in {before, "garbage"}
             \/ before = "hello" /\ after = "accept"
             \/ before = "shutdown" /\ after \in {"bye", "idle"}
<1> DEFINE q2 == Append(q, f)
           n == Len(q) + 1
<1>1. n \in Nat /\ Len(q) \in Nat /\ Len(q2) = n /\ q2[n] = f
      /\ \A i \in 1 .. Len(q) : q2[i] = q[i] /\ i \in 1 .. n - 1 /\ i \in 1 .. n
  BY AppendProperties, LenProperties
<1>2. \/ Wire(c, p, q2) = Wire(c, p, q)
      \/ Quiet(c, p, q) /\ NotableIn(c, p, q2, n) /\ Wire(c, p, q2) = Verdict(p, q2, n)
      \/ Quiet(c, p, q) /\ Wire(c, p, q2) = Silence(c, p, q2)
  BY FrameJoins
<1>3. Quiet(c, p, q) => Wire(c, p, q) = Silence(c, p, q)
  BY WireQuiet
<1> HIDE DEF q2
<1>4. CASE Quiet(c, p, q) /\ Wire(c, p, q2) = Silence(c, p, q2)
  <2>1. Asked(p, q2) => Asked(p, q)
    <3>1. SUFFICES ASSUME NEW r \in p, r.method = "shutdown",
                          \A i \in 1 .. Len(q2) : q2[i].kind = "response" => q2[i].id # r.id
                   PROVE  \A i \in 1 .. Len(q) : q[i].kind = "response" => q[i].id # r.id
      BY DEF Asked
    <3> QED
      BY <1>1, <3>1
  <2> QED
    BY <1>3, <1>4, <2>1 DEF Silence, q2
<1>5. CASE Quiet(c, p, q) /\ NotableIn(c, p, q2, n) /\ Wire(c, p, q2) = Verdict(p, q2, n)
  <2>1. CASE RefusedIn(p, q2, n)
    BY <1>5, <2>1 DEF Verdict, q2
  <2>2. CASE ~RefusedIn(p, q2, n)
    <3>1. c # "Closing" /\ Weighty(p, f) /\ Wire(c, p, q2) = IF f.id = 1 THEN "accept" ELSE "bye"
      BY <1>1, <1>5, <2>2 DEF NotableIn, Verdict
    <3>2. PICK r \in p : r.id = f.id /\ (r.method = "hello" \/ r.method = "shutdown")
      BY <3>1 DEF Weighty
    <3>3. CASE c = "Authenticating"
      <4>1. f.id = 1 /\ Wire(c, p, q) = "hello"
        BY <1>3, <1>5, <3>2, <3>3 DEF HelloFits, Silence
      <4> QED
        BY <3>1, <4>1 DEF q2
    <3>4. CASE c = "Ready"
      <4>1. f.id # 1 /\ r.method = "shutdown"
        BY <3>2, <3>4 DEF HelloFits
      <4>2. \A i \in 1 .. Len(q) : q[i].kind = "response" => q[i].id # r.id
        BY <1>1, <2>2, <3>1, <3>2 DEF RefusedIn, Weighty
      <4>3. Wire(c, p, q) = "shutdown"
        BY <1>3, <1>5, <3>4, <4>1, <4>2 DEF Silence, Asked
      <4> QED
        BY <3>1, <4>1, <4>3 DEF q2
    <3> QED
      BY <3>1, <3>3, <3>4 DEF ConnectedStates
  <2> QED
    BY <2>1, <2>2
<1> QED
  BY <1>2, <1>4, <1>5 DEF q2

\* A frame that is read and made no difference takes nothing from the wire, if what
\* is left is judged as before.
LEMMA FrameGoes ==
  ASSUME NEW c \in ConnectedStates, NEW p, NEW p2, NEW S, NEW q \in Seq(S), q # <<>>,
         ~NotableIn(c, p, q, 1),
         \A i \in 1 .. Len(q) - 1 :
           /\ RefusedIn(p2, Tail(q), i) <=> RefusedIn(p, q, i + 1)
           /\ NotableIn(c, p2, Tail(q), i) <=> NotableIn(c, p, q, i + 1),
         Asked(p2, Tail(q)) <=> Asked(p, q)
  PROVE  Wire(c, p2, Tail(q)) = Wire(c, p, q)
<1> DEFINE t == Tail(q)
           n == Len(q)
<1>1. n \in Nat /\ n >= 1 /\ Len(t) = n - 1 /\ \A i \in 1 .. n - 1 : t[i] = q[i + 1]
  BY HeadTailProperties, LenProperties, EmptySeq
<1> HIDE DEF t, n
<1>2. \A i \in 1 .. n - 1 :
        /\ RefusedIn(p2, t, i) <=> RefusedIn(p, q, i + 1)
        /\ NotableIn(c, p2, t, i) <=> NotableIn(c, p, q, i + 1)
  BY DEF t, n
<1>3. CASE Quiet(c, p, q)
  <2>1. \A i \in 1 .. n - 1 : i + 1 \in 1 .. n
    BY <1>1
  <2>2. Quiet(c, p2, t)
    BY <1>1, <1>2, <1>3, <2>1 DEF Quiet, n
  <2>3. Wire(c, p, q) = Silence(c, p, q) /\ Wire(c, p2, t) = Silence(c, p2, t)
    BY <1>3, <2>2, WireQuiet
  <2>4. Asked(p2, t) <=> Asked(p, q)
    BY DEF t
  <2> QED
    BY <2>3, <2>4 DEF Silence, t
<1>4. CASE ~Quiet(c, p, q)
  <2>1. PICK k \in 1 .. n : First(c, p, q, k)
    BY <1>4, FirstExists DEF n
  <2>2. k # 1
    BY <2>1 DEF First
  <2> DEFINE h == k - 1
  <2>3. h \in 1 .. n - 1 /\ h + 1 = k
    BY <1>1, <2>2
  <2>4. \A j \in 1 .. h - 1 : j \in 1 .. n - 1 /\ j + 1 \in 1 .. k - 1
    BY <1>1, <2>3
  <2> HIDE DEF h
  <2>5. First(c, p2, t, h)
    BY <1>1, <1>2, <2>1, <2>3, <2>4 DEF First
  <2>6. Wire(c, p, q) = Verdict(p, q, k) /\ Wire(c, p2, t) = Verdict(p2, t, h)
    BY <2>1, <2>5, WireFirst
  <2> QED
    BY <1>1, <1>2, <2>3, <2>6 DEF Verdict, t
<1> QED
  BY <1>3, <1>4

\* The frame that is read next decides the wire if it makes a difference.
LEMMA NextFrameDecides ==
  ASSUME NEW c \in ConnectedStates, NEW p, NEW S, NEW q \in Seq(S), q # <<>>,
         NotableIn(c, p, q, 1)
  PROVE  Wire(c, p, q) = Verdict(p, q, 1)
<1>1. 1 \in 1 .. Len(q)
  BY LenProperties, EmptySeq
<1>2. First(c, p, q, 1)
  BY <1>1 DEF First
<1> QED
  BY <1>2, WireFirst

\* A binary frame leaves the wire as it is.
LEMMA BinaryGoes ==
  ASSUME NEW c \in ConnectedStates, NEW p, NEW S, NEW q \in Seq(S), q # <<>>,
         q[1].kind = "binary"
  PROVE  Wire(c, p, Tail(q)) = Wire(c, p, q)
<1> DEFINE t == Tail(q)
           n == Len(q)
<1>1. n \in Nat /\ n >= 1 /\ Len(t) = n - 1 /\ \A i \in 1 .. n - 1 : t[i] = q[i + 1]
  BY HeadTailProperties, LenProperties, EmptySeq
<1> HIDE DEF t, n
<1>2. ASSUME NEW i \in 1 .. n - 1 PROVE RefusedIn(p, t, i) <=> RefusedIn(p, q, i + 1)
  <2> DEFINE D(s, j) == s[j].kind = "response" /\ s[j].id = q[i + 1].id
  <2>1. i - 1 \in Nat /\ i \in 1 .. n - 1 /\ (i + 1) - 1 = i
    BY <1>1
  <2>2. \A j \in 1 .. i - 1 : j + 1 \in 1 .. i /\ j \in 1 .. n - 1
    BY <1>1
  <2>3. \A j \in 1 .. i : j = 1 \/ (j - 1 \in 1 .. i - 1 /\ (j - 1) + 1 = j)
    BY <1>1
  <2>4. ~D(q, 1) /\ \A j \in 1 .. i - 1 : D(t, j) <=> D(q, j + 1)
    BY <1>1, <2>2
  <2>5. (\E j \in 1 .. i - 1 : D(t, j)) <=> \E j \in 1 .. i : D(q, j)
    <3> HIDE DEF D
    <3>1. ASSUME NEW j \in 1 .. i, D(q, j) PROVE \E m \in 1 .. i - 1 : D(t, m)
      <4>1. j # 1
        BY <2>4, <3>1
      <4>2. j - 1 \in 1 .. i - 1 /\ (j - 1) + 1 = j
        BY <2>3, <4>1
      <4>3. D(t, j - 1)
        BY <2>4, <3>1, <4>2
      <4> QED
        BY <4>2, <4>3
    <3> QED
      BY <2>2, <2>4, <3>1
  <2> QED
    BY <1>1, <2>1, <2>5 DEF RefusedIn
<1>3. \A i \in 1 .. n - 1 :
        /\ RefusedIn(p, t, i) <=> RefusedIn(p, q, i + 1)
        /\ NotableIn(c, p, t, i) <=> NotableIn(c, p, q, i + 1)
  BY <1>1, <1>2 DEF NotableIn
<1>4. ~NotableIn(c, p, q, 1)
  BY DEF NotableIn, RefusedIn, Weighty
<1>5. Asked(p, t) <=> Asked(p, q)
  <2>1. \A i \in 1 .. n - 1 : i + 1 \in 1 .. n
    BY <1>1
  <2>2. \A i \in 1 .. n : i = 1 \/ (i - 1 \in 1 .. n - 1 /\ (i - 1) + 1 = i)
    BY <1>1
  <2>3. ASSUME NEW id
        PROVE  (\A i \in 1 .. Len(t) : t[i].kind = "response" => t[i].id # id)
                 <=> \A i \in 1 .. Len(q) : q[i].kind = "response" => q[i].id # id
    <3> DEFINE G(s, i) == s[i].kind = "response" => s[i].id # id
    <3>1. G(q, 1) /\ \A i \in 1 .. n - 1 : G(t, i) <=> G(q, i + 1)
      BY <1>1
    <3> HIDE DEF G
    <3>2. (\A i \in 1 .. n - 1 : G(t, i)) => \A i \in 1 .. n : G(q, i)
      BY <2>2, <3>1
    <3>3. (\A i \in 1 .. n - 1 : G(t, i)) <=> \A i \in 1 .. n : G(q, i)
      BY <2>1, <3>1, <3>2
    <3> QED
      BY <1>1, <3>3 DEF G, n
  <2> QED
    BY <2>3 DEF Asked
<1> QED
  BY <1>3, <1>4, <1>5, FrameGoes DEF t, n

\* So does the answer to a request other than the hello or a shutdown that succeeds:
\* its request goes with it.
LEMMA AnswerGoes ==
  ASSUME NEW c \in ConnectedStates, NEW p, NEW S, NEW q \in Seq(S), q # <<>>,
         q[1].kind = "response", NEW r \in p, r.id = q[1].id,
         \A s \in p : s.id = r.id => s = r,
         ~NotableIn(c, p, q, 1)
  PROVE  Wire(c, p \ {r}, Tail(q)) = Wire(c, p, q)
<1> DEFINE t == Tail(q)
           n == Len(q)
           p2 == p \ {r}
<1>1. n \in Nat /\ n >= 1 /\ Len(t) = n - 1 /\ \A i \in 1 .. n - 1 : t[i] = q[i + 1]
  BY HeadTailProperties, LenProperties, EmptySeq
<1>2. \A s \in p : s \in p2 <=> s.id # r.id
  OBVIOUS
<1>3. p2 \subseteq p /\ r.id = q[1].id /\ r \in p
  OBVIOUS
<1> HIDE DEF t, n, p2
<1>4. ASSUME NEW i \in 1 .. n - 1
      PROVE  /\ RefusedIn(p2, t, i) <=> RefusedIn(p, q, i + 1)
             /\ t[i].kind = "response" /\ t[i].id = r.id => RefusedIn(p2, t, i)
  <2> DEFINE D(s, j) == s[j].kind = "response" /\ s[j].id = q[i + 1].id
  <2>1. i - 1 \in Nat /\ i \in 1 .. n - 1 /\ (i + 1) - 1 = i /\ 1 \in 1 .. i
    BY <1>1
  <2>2. \A j \in 1 .. i - 1 : j + 1 \in 1 .. i /\ j \in 1 .. n - 1
    BY <1>1
  <2>3. \A j \in 1 .. i : j = 1 \/ (j - 1 \in 1 .. i - 1 /\ (j - 1) + 1 = j)
    BY <1>1
  <2>4. \A j \in 1 .. i - 1 : D(t, j) <=> D(q, j + 1)
    BY <1>1, <2>2
  <2>5. D(q, 1) <=> q[i + 1].id = r.id
    BY <1>3
  <2>6. (q[i + 1].id = r.id \/ \E j \in 1 .. i - 1 : D(t, j)) <=> \E j \in 1 .. i : D(q, j)
    <3> HIDE DEF D
    <3>1. ASSUME NEW j \in 1 .. i, D(q, j), j # 1 PROVE \E m \in 1 .. i - 1 : D(t, m)
      <4>1. j - 1 \in 1 .. i - 1 /\ (j - 1) + 1 = j
        BY <2>3, <3>1
      <4>2. D(t, j - 1)
        BY <2>4, <3>1, <4>1
      <4> QED
        BY <4>1, <4>2
    <3> QED
      BY <2>1, <2>2, <2>4, <2>5, <3>1
  <2>7. (\A s \in p2 : s.id # q[i + 1].id)
          <=> (q[i + 1].id = r.id \/ \A s \in p : s.id # q[i + 1].id)
    BY <1>2, <1>3
  <2> QED
    BY <1>1, <2>1, <2>6, <2>7 DEF RefusedIn
<1>5. ASSUME NEW i \in 1 .. n - 1
      PROVE  NotableIn(c, p2, t, i) <=> NotableIn(c, p, q, i + 1)
  <2>1. t[i] = q[i + 1]
    BY <1>1
  <2>2. ~(t[i].kind = "response" /\ t[i].id = r.id) => (Weighty(p2, t[i]) <=> Weighty(p, t[i]))
    BY <1>2, <1>3 DEF Weighty
  <2> QED
    BY <1>4, <2>1, <2>2 DEF NotableIn
<1>6. Asked(p2, t) <=> Asked(p, q)
  <2>1. \A i \in 1 .. n - 1 : i + 1 \in 1 .. n
    BY <1>1
  <2>2. 1 \in 1 .. n /\ \A i \in 1 .. n : i = 1 \/ (i - 1 \in 1 .. n - 1 /\ (i - 1) + 1 = i)
    BY <1>1
  <2>3. ASSUME NEW id
        PROVE  /\ id # r.id =>
                    ((\A i \in 1 .. Len(t) : t[i].kind = "response" => t[i].id # id)
                     <=> \A i \in 1 .. Len(q) : q[i].kind = "response" => q[i].id # id)
               /\ id = r.id => \E i \in 1 .. Len(q) : q[i].kind = "response" /\ q[i].id = id
    <3> DEFINE G(s, i) == s[i].kind = "response" => s[i].id # id
    <3>1. (id # r.id => G(q, 1)) /\ \A i \in 1 .. n - 1 : G(t, i) <=> G(q, i + 1)
      BY <1>1, <1>3
    <3>2. id = r.id => ~G(q, 1)
      BY <1>3
    <3> HIDE DEF G
    <3>3. id # r.id /\ (\A i \in 1 .. n - 1 : G(t, i)) => \A i \in 1 .. n : G(q, i)
      BY <2>2, <3>1
    <3>4. id # r.id => ((\A i \in 1 .. n - 1 : G(t, i)) <=> \A i \in 1 .. n : G(q, i))
      BY <2>1, <3>1, <3>3
    <3>5. id = r.id => \E i \in 1 .. n : ~G(q, i)
      BY <2>2, <3>2
    <3> QED
      BY <1>1, <3>4, <3>5 DEF G, n
  <2> DEFINE Free(u, id) == \A i \in 1 .. Len(u) : u[i].kind = "response" => u[i].id # id
  <2>4. /\ \A id : id # r.id => (Free(t, id) <=> Free(q, id))
        /\ ~Free(q, r.id)
    BY <2>3
  <2>5. Asked(p2, t) <=> \E s \in p2 : s.method = "shutdown" /\ Free(t, s.id)
    BY DEF Asked
  <2>6. Asked(p, q) <=> \E s \in p : s.method = "shutdown" /\ Free(q, s.id)
    BY DEF Asked
  <2> HIDE DEF Free
  <2> QED
    BY <1>2, <1>3, <2>4, <2>5, <2>6
<1>7. \A i \in 1 .. n - 1 :
        /\ RefusedIn(p2, t, i) <=> RefusedIn(p, q, i + 1)
        /\ NotableIn(c, p2, t, i) <=> NotableIn(c, p, q, i + 1)
  BY <1>4, <1>5
<1>8. Wire(c, p2, Tail(q)) = Wire(c, p, q)
  BY <1>6, <1>7, FrameGoes DEF t, n
<1> QED
  BY <1>8 DEF p2

\* Once the shutdown is answered, or before the first request, only a fault can be
\* on the wire.
LEMMA OnlyFaultsLeft ==
  ASSUME NEW c, NEW p, NEW q, c = "Closing" \/ (c = "Ready" /\ p = {})
  PROVE  Wire(c, p, q) \in {"idle", "garbage"}
<1>1. c \in ConnectedStates
  BY DEF ConnectedStates
<1>2. \A i : NotableIn(c, p, q, i) <=> RefusedIn(p, q, i)
  BY DEF NotableIn, Weighty
<1>3. CASE Quiet(c, p, q)
  BY <1>1, <1>3, WireQuiet DEF Silence, Asked
<1>4. CASE ~Quiet(c, p, q)
  <2>1. PICK k \in 1 .. Len(q) : First(c, p, q, k)
    BY <1>4, FirstExists
  <2>2. Wire(c, p, q) = Verdict(p, q, k)
    BY <1>1, <2>1, WireFirst
  <2> QED
    BY <1>2, <2>1, <2>2 DEF First, Verdict
<1> QED
  BY <1>3, <1>4

\* A new request, whose ID no frame names yet, puts nothing on the wire but the
\* question for a shutdown.
LEMMA RequestJoins ==
  ASSUME NEW p, NEW S, NEW q \in Seq(S), NEW r,
         \A i \in 1 .. Len(q) : q[i].kind = "response" => q[i].id # r.id
  PROVE  LET before == Wire("Ready", p, q)
             after == Wire("Ready", p \cup {r}, q)
         IN  after = IF r.method = "shutdown" /\ before = "idle" THEN "shutdown"
                     ELSE before
<1> DEFINE p2 == p \cup {r}
           c == "Ready"
<1>1. c \in ConnectedStates /\ c # "Closing" /\ c # "Authenticating"
  BY DEF ConnectedStates
<1>2. ASSUME NEW i \in 1 .. Len(q)
      PROVE  /\ RefusedIn(p2, q, i) <=> RefusedIn(p, q, i)
             /\ NotableIn(c, p2, q, i) <=> NotableIn(c, p, q, i)
  <2>1. q[i].kind = "response" => q[i].id # r.id
    OBVIOUS
  <2>2. RefusedIn(p2, q, i) <=> RefusedIn(p, q, i)
    BY <2>1 DEF RefusedIn
  <2>3. Weighty(p2, q[i]) <=> Weighty(p, q[i])
    BY <2>1 DEF Weighty
  <2> QED
    BY <2>2, <2>3 DEF NotableIn
<1>3. Asked(p2, q) <=> (Asked(p, q) \/ r.method = "shutdown")
  BY DEF Asked
<1>4. CASE Quiet(c, p, q)
  <2>1. Quiet(c, p2, q)
    BY <1>2, <1>4 DEF Quiet
  <2>2. Wire(c, p, q) = Silence(c, p, q) /\ Wire(c, p2, q) = Silence(c, p2, q)
    BY <1>1, <1>4, <2>1, WireQuiet
  <2> QED
    BY <1>1, <1>3, <2>2 DEF Silence
<1>5. CASE ~Quiet(c, p, q)
  <2>1. PICK k \in 1 .. Len(q) : First(c, p, q, k)
    BY <1>5, FirstExists
  <2>2. k \in Nat /\ \A j \in 1 .. k - 1 : j \in 1 .. Len(q)
    BY LenProperties
  <2>3. First(c, p2, q, k)
    BY <1>2, <2>1, <2>2 DEF First
  <2> HIDE DEF p2, c
  <2>4. Wire(c, p2, q) = Wire(c, p, q)
    <3>1. RefusedIn(p2, q, k) <=> RefusedIn(p, q, k)
      BY <1>2
    <3> QED
      BY <1>1, <2>1, <2>3, <3>1, SameWire
  <2>5. Wire(c, p, q) # "idle"
    BY <1>1, <2>1, WireFirst DEF Verdict
  <2> QED
    BY <2>4, <2>5 DEF p2, c
<1> QED
  BY <1>4, <1>5

-----------------------------------------------------------------------------
(* What the client of a session keeps *)

\* The requests and the frames that name none of the IDs beyond the n-th.
Drawn(n) == {r \in Client!Request : r.id <= n}
Known(n) == {f \in Client!Frame : f.kind = "response" => f.id <= n}

ClientStates == {"none", "Disconnected", "Connecting", "Authenticating", "Ready",
                 "Closing", "Failed"}

\* Every request and every frame names an ID that was drawn.
IdsKept(p, n, s, h, q) ==
    /\ n \in 0 .. MaxRequestIds
    /\ p \subseteq Drawn(n) /\ h \subseteq Drawn(n)
    /\ s \in Seq(Drawn(n)) /\ q \in Seq(Known(n))

\* No two requests in the table have the same ID.
IdsUnique(p) == \A r1, r2 \in p : r1.id = r2.id => r1 = r2

\* Only a connected client has frames in flight, and it has sent its hello.
LineKept(c, p, n, s, h, q) ==
    /\ c \notin ConnectedStates => s = <<>> /\ h = {} /\ q = <<>>
    /\ c = "Connecting" => p = {} /\ n = 0
    /\ c \in ConnectedStates => n >= 1

Kept(c, p, n, s, h, q) ==
    /\ c \in ClientStates
    /\ IdsKept(p, n, s, h, q) /\ IdsUnique(p)
    /\ LineKept(c, p, n, s, h, q)
    /\ HelloFits(c, p)

SessionInv ==
    Kept(clientState, pendingRequests, requestSequence, toService, held, toClient)

\* The invariant of the next state, over the primed variables.
LEMMA NextInv ==
  SessionInv' <=> Kept(clientState', pendingRequests', requestSequence', toService',
                       held', toClient')
BY DEF SessionInv, Kept, IdsKept, IdsUnique, LineKept, HelloFits, Drawn, Known,
       ClientStates, ConnectedStates, Client!Request, Client!Frame, Client!Ids,
       Client!Methods, Client!Answers

\* The IDs drawn stay drawn.
LEMMA DrawnGrow ==
  ASSUME NEW n \in Nat, NEW m \in Nat, n <= m
  PROVE  Drawn(n) \subseteq Drawn(m) /\ Known(n) \subseteq Known(m)
<1>1. ASSUME NEW r \in Drawn(n) PROVE r \in Drawn(m)
  BY DEF Drawn, Client!Request, Client!Ids
<1>2. ASSUME NEW f \in Known(n) PROVE f \in Known(m)
  BY DEF Known, Client!Frame, Client!Ids
<1> QED
  BY <1>1, <1>2

\* A sequence over a set is one over every larger set.
LEMMA WiderSeq ==
  ASSUME NEW S, NEW T, S \subseteq T, NEW x \in Seq(S)
  PROVE  x \in Seq(T)
BY LenProperties, IsASeq

\* A frame of the service that names only drawn IDs.
LEMMA KnownIsFrame == \A n : Known(n) \subseteq Client!Frame
BY DEF Known

\* A new client holds nothing.
LEMMA FreshKept ==
  ASSUME NEW c \in {"none", "Connecting"}
  PROVE  Kept(c, {}, 0, <<>>, {}, <<>>)
<1>1. <<>> \in Seq(Drawn(0)) /\ <<>> \in Seq(Known(0)) /\ 0 \in 0 .. MaxRequestIds
  BY BoundsAssumption, EmptySeq
<1> QED
  BY <1>1 DEF Kept, IdsKept, IdsUnique, LineKept, HelloFits, ConnectedStates, ClientStates

\* A client that was closed, or whose connection is lost, may keep its table but
\* has nothing in flight.
LEMMA SilentKept ==
  ASSUME NEW c \in {"none", "Disconnected", "Failed"}, NEW n \in 0 .. MaxRequestIds,
         NEW p \in SUBSET Drawn(n), IdsUnique(p)
  PROVE  Kept(c, p, n, <<>>, {}, <<>>)
<1>1. <<>> \in Seq(Drawn(n)) /\ <<>> \in Seq(Known(n))
  BY EmptySeq
<1> QED
  BY <1>1 DEF Kept, IdsKept, LineKept, HelloFits, ConnectedStates, ClientStates

\* The request with the next ID joins the table.
LEMMA RequestDrawn ==
  ASSUME NEW n \in Nat, n < MaxRequestIds, NEW method \in Client!Methods,
         NEW p \in SUBSET Drawn(n), IdsUnique(p)
  PROVE  LET r == [id |-> n + 1, method |-> method]
         IN  /\ r \in Drawn(n + 1)
             /\ p \cup {r} \subseteq Drawn(n + 1) /\ IdsUnique(p \cup {r})
             /\ r \notin p /\ \A s \in p : s.id # r.id
<1> DEFINE r == [id |-> n + 1, method |-> method]
<1>1. n + 1 \in Client!Ids /\ n + 1 \in Nat
  BY BoundsAssumption DEF Client!Ids
<1>2. r \in Drawn(n + 1) /\ r.id = n + 1
  BY <1>1 DEF Drawn, Client!Request
<1>3. p \subseteq Drawn(n + 1)
  BY <1>1, DrawnGrow
<1>4. \A s \in p : s.id \in Nat /\ s.id <= n
  BY DEF Drawn, Client!Request, Client!Ids
<1>5. \A s \in p : s.id # r.id
  BY <1>2, <1>4
<1> HIDE DEF r
<1>6. IdsUnique(p \cup {r})
  BY <1>5 DEF IdsUnique
<1> QED
  BY <1>2, <1>3, <1>5, <1>6 DEF r

-----------------------------------------------------------------------------
(* What the steps of module ServiceClient do to the client of a session *)

Emptied == toService' = <<>> /\ held' = {} /\ toClient' = <<>>

\* A request is not encoded, or entered in the table and written, or the connection
\* is lost.
LEMMA SendFacts ==
  ASSUME NEW method, Client!SendRequest(method)
  PROVE  LET r == [id |-> requestSequence + 1, method |-> method]
         IN  /\ clientState = "Ready" /\ requestSequence < MaxRequestIds
             /\ requestSequence' = requestSequence + 1
             /\ \/ UNCHANGED <<clientState, pendingRequests, toService, held, toClient>>
                \/ /\ pendingRequests' = pendingRequests \cup {r}
                   /\ \/ /\ toService' = Append(toService, r)
                         /\ UNCHANGED <<clientState, held, toClient>>
                      \/ clientState' = "Failed" /\ Emptied
BY DEF Client!SendRequest, Client!CanSend, Client!RoomLeft, Client!NextRequestId,
       Client!EncodingFails, Client!Send, Client!Fail, Client!Failed, Client!Abort,
       Client!conversation, Emptied

\* The hello is written, or the connection is lost.
LEMMA AuthenticateFacts ==
  ASSUME Client!Authenticate, requestSequence = 0
  PROVE  /\ clientState = "Connecting" /\ requestSequence' = 1
         /\ pendingRequests' = pendingRequests \cup {[id |-> 1, method |-> "hello"]}
         /\ \/ /\ clientState' = "Authenticating"
               /\ toService' = Append(toService, [id |-> 1, method |-> "hello"])
               /\ UNCHANGED <<held, toClient>>
            \/ clientState' = "Failed" /\ Emptied
<1>1. clientState = "Connecting"
  BY DEF Client!Authenticate, Connected
<1>2. 0 + 1 = 1 /\ 1 # 0
  OBVIOUS
<1> QED
  BY <1>1, <1>2 DEF Client!Authenticate, Client!NextRequestId, Client!Fail, Client!Failed,
                    Client!Abort, Emptied

\* A lost connection leaves the table and the numbering.
LEMMA ErrorFacts ==
  ASSUME Client!SocketError
  PROVE  /\ clientState \in {"Connecting", "Authenticating", "Ready"}
         /\ clientState' = "Failed" /\ Emptied
         /\ UNCHANGED <<pendingRequests, requestSequence>>
BY DEF Client!SocketError, Connected, Client!Fail, Client!Failed, Client!Abort, Emptied

\* So does the end of a connection that reports no error.
LEMMA DisconnectedFacts ==
  ASSUME Client!SocketDisconnected
  PROVE  /\ clientState \in ConnectedStates
         /\ clientState' = "Disconnected" /\ Emptied
         /\ UNCHANGED <<pendingRequests, requestSequence>>
BY DEF Client!SocketDisconnected, Connected, ConnectedStates, Client!Abort, Emptied

\* A frame that is not refused is taken; the answer to a request takes it from the
\* table.
LEMMA ReadFacts ==
  ASSUME Client!ProcessInput, ~Refused(1)
  PROVE  /\ toClient # <<>> /\ toClient' = Tail(toClient)
         /\ UNCHANGED <<requestSequence, toService, held>>
         /\ \/ /\ toClient[1].kind = "binary"
               /\ UNCHANGED <<clientState, pendingRequests>>
            \/ /\ toClient[1].kind = "response"
               /\ \E r \in pendingRequests :
                    /\ r.id = toClient[1].id
                    /\ pendingRequests' = pendingRequests \ {r}
                    /\ clientState' = IF r.id = 1 THEN "Ready"
                                      ELSE IF r.method = "shutdown" /\ toClient[1].answer = "ok"
                                      THEN "Closing" ELSE clientState
<1>1. Head(toClient) = toClient[1]
  OBVIOUS
<1>2. toClient[1].kind # "garbage"
  BY DEF Refused
<1>3. toClient[1].kind = "response" => toClient[1].id \in Client!IdsOf(pendingRequests)
  BY DEF Refused
<1>4. toClient[1].kind = "response" /\ toClient[1].id = 1 => Client!Authentic(toClient[1].answer)
  BY DEF Refused
<1>5. toClient # <<>> /\ UNCHANGED requestSequence
  BY DEF Client!ProcessInput
<1>6. CASE toClient[1].kind = "binary" /\ toClient' = Tail(toClient)
           /\ UNCHANGED <<clientState, pendingRequests, toService, held>>
  BY <1>5, <1>6
<1>7. CASE toClient[1].kind = "response"
           /\ \E r \in pendingRequests :
                r.id = toClient[1].id /\ Client!ProcessResponse(toClient[1], r)
  <2>1. PICK r \in pendingRequests :
               r.id = toClient[1].id /\ Client!ProcessResponse(toClient[1], r)
    BY <1>7
  <2>2. /\ pendingRequests' = pendingRequests \ {r}
        /\ toClient' = Tail(toClient)
        /\ UNCHANGED <<toService, held>>
        /\ clientState' = IF r.id = 1 THEN "Ready"
                          ELSE IF r.method = "shutdown" /\ toClient[1].answer = "ok"
                          THEN "Closing" ELSE clientState
    BY <1>4, <1>7, <2>1 DEF Client!ProcessResponse, Client!TakePending
  <2> QED
    BY <1>5, <1>7, <2>1, <2>2
<1> QED
  BY <1>1, <1>2, <1>3, <1>6, <1>7 DEF Client!ProcessInput

\* The service takes a request off the line.
LEMMA ReceivesFacts ==
  ASSUME Client!ServiceReceives
  PROVE  /\ toService # <<>>
         /\ held' = held \cup {Head(toService)} /\ toService' = Tail(toService)
         /\ UNCHANGED <<clientState, pendingRequests, requestSequence, toClient>>
BY DEF Client!ServiceReceives, Client!ClientUnchanged, Client!members

\* Whatever else it does, it sends one frame that names a drawn ID.
LEMMA SendsFacts ==
  ASSUME SessionInv,
         Client!ServiceAnswers \/ Client!ServiceSendsBinary \/ Client!ServiceMisbehaves
  PROVE  /\ clientState \in ConnectedStates
         /\ held' \subseteq held
         /\ \E f \in Known(requestSequence) : toClient' = Append(toClient, f)
         /\ UNCHANGED <<clientState, pendingRequests, requestSequence, toService>>
<1> DEFINE n == requestSequence
<1>1. n \in 0 .. MaxRequestIds /\ held \subseteq Drawn(n)
      /\ (clientState \notin ConnectedStates => held = {})
  BY DEF SessionInv, Kept, IdsKept, LineKept
<1>2. CASE Client!ServiceAnswers
  <2>1. PICK request \in held, answer \in Client!Answers :
            /\ held' = held \ {request}
            /\ toClient' = Append(toClient, Client!Response(request, answer))
            /\ UNCHANGED <<clientState, pendingRequests, requestSequence, toService>>
    BY <1>2 DEF Client!ServiceAnswers, Client!Post, Client!ClientUnchanged, Client!members
  <2>2. request.id \in Client!Ids /\ request.id <= n
    BY <1>1 DEF Drawn, Client!Request
  <2>3. Client!Response(request, answer) \in Known(n)
    BY <2>2 DEF Client!Response, Known, Client!Frame
  <2> QED
    BY <1>1, <2>1, <2>3
<1>3. CASE Client!ServiceSendsBinary
  <2>1. [kind |-> "binary"] \in Known(n)
    BY DEF Known, Client!Frame
  <2> QED
    BY <1>3, <2>1 DEF Client!ServiceSendsBinary, Connected, ConnectedStates, Client!Post,
                      Client!ClientUnchanged, Client!members
<1>4. CASE Client!ServiceMisbehaves
  <2>1. [kind |-> "garbage"] \in Known(n)
    BY DEF Known, Client!Frame
  <2>2. \A id \in 1 .. n : [kind |-> "response", id |-> id, answer |-> "ok"] \in Known(n)
    <3>1. \A id \in 1 .. n : id \in Client!Ids /\ id <= n
      BY <1>1, BoundsAssumption DEF Client!Ids
    <3> QED
      BY <3>1 DEF Known, Client!Frame, Client!Answers
  <2>3. Connected /\ UNCHANGED <<held, clientState, pendingRequests, requestSequence, toService>>
    BY <1>4 DEF Client!ServiceMisbehaves, Connected, Client!ClientUnchanged, Client!members
  <2>4. \/ toClient' = Append(toClient, [kind |-> "garbage"])
        \/ \E id \in 1 .. n :
             toClient' = Append(toClient, [kind |-> "response", id |-> id, answer |-> "ok"])
    BY <1>4 DEF Client!ServiceMisbehaves, Client!Post
  <2> QED
    BY <2>1, <2>2, <2>3, <2>4 DEF Connected, ConnectedStates
<1> QED
  BY <1>2, <1>3, <1>4

-----------------------------------------------------------------------------
(* No step of the client breaks the invariant *)

\* What the controller does to its client.
LEMMA OwnerKeeps ==
  ASSUME SessionInv, ConnectClient \/ CloseClient \/ DropClient \/ ClientUnchanged
  PROVE  SessionInv'
<1>1. Kept(clientState, pendingRequests, requestSequence, toService, held, toClient)
  BY DEF SessionInv
<1>2. CASE ConnectClient \/ DropClient
  BY <1>2, FreshKept, NextInv DEF ConnectClient, DropClient, Fresh
<1>3. CASE CloseClient /\ clientState \notin {"none", "Disconnected"}
  <2>1. clientState' = "Disconnected" /\ pendingRequests' = {} /\ Emptied
        /\ requestSequence' = requestSequence
    BY <1>3 DEF CloseClient, Emptied
  <2>2. requestSequence \in 0 .. MaxRequestIds
    BY <1>1 DEF Kept, IdsKept
  <2>3. Kept(clientState', {}, requestSequence, <<>>, {}, <<>>)
    BY <2>1, <2>2, SilentKept DEF IdsUnique
  <2> QED
    BY <2>1, <2>3, NextInv DEF Emptied
<1>4. CASE ClientUnchanged
  BY <1>1, <1>4, NextInv DEF ClientUnchanged, clientVars
<1> QED
  BY <1>2, <1>3, <1>4 DEF CloseClient

\* A connection that is lost, or ends.
LEMMA LossKeeps ==
  ASSUME SessionInv, clientState' \in {"Disconnected", "Failed"}, Emptied,
         UNCHANGED <<pendingRequests, requestSequence>>
  PROVE  SessionInv'
<1>1. /\ requestSequence \in 0 .. MaxRequestIds
      /\ pendingRequests \in SUBSET Drawn(requestSequence) /\ IdsUnique(pendingRequests)
  BY DEF SessionInv, Kept, IdsKept
<1>2. Kept(clientState', pendingRequests, requestSequence, <<>>, {}, <<>>)
  BY <1>1, SilentKept
<1> QED
  BY <1>2, NextInv DEF Emptied

\* The application or the controller sends a request.
LEMMA SendKeeps ==
  ASSUME SessionInv, NEW method \in {"shutdown", "other"}, Client!SendRequest(method)
  PROVE  SessionInv'
<1> DEFINE n == requestSequence
           p == pendingRequests
           r == [id |-> n + 1, method |-> method]
<1>1. /\ clientState = "Ready" /\ n < MaxRequestIds /\ requestSequence' = n + 1
      /\ \/ UNCHANGED <<clientState, pendingRequests, toService, held, toClient>>
         \/ /\ pendingRequests' = p \cup {r}
            /\ \/ toService' = Append(toService, r) /\ UNCHANGED <<clientState, held, toClient>>
               \/ clientState' = "Failed" /\ Emptied
  BY SendFacts
<1>2. /\ n \in Nat /\ n >= 1 /\ p \in SUBSET Drawn(n) /\ held \subseteq Drawn(n)
      /\ toService \in Seq(Drawn(n)) /\ toClient \in Seq(Known(n))
      /\ IdsUnique(p) /\ \A s \in p : s.id # 1 /\ s.method # "hello"
  BY <1>1 DEF SessionInv, Kept, IdsKept, LineKept, HelloFits, ConnectedStates
<1>3. n + 1 \in 0 .. MaxRequestIds /\ n + 1 \in Nat /\ n <= n + 1 /\ n + 1 >= 1 /\ n + 1 # 1
  BY <1>1, <1>2, BoundsAssumption
<1>4. Drawn(n) \subseteq Drawn(n + 1) /\ Known(n) \subseteq Known(n + 1)
  BY <1>2, <1>3, DrawnGrow
<1>5. r \in Drawn(n + 1) /\ p \cup {r} \subseteq Drawn(n + 1) /\ IdsUnique(p \cup {r})
  <2>1. method \in Client!Methods
    BY DEF Client!Methods
  <2> QED
    BY <1>1, <1>2, <2>1, RequestDrawn
<1>6. r.id # 1 /\ r.method # "hello"
  BY <1>3
<1>7. toService \in Seq(Drawn(n + 1)) /\ toClient \in Seq(Known(n + 1))
  BY <1>2, <1>4, WiderSeq
<1> HIDE DEF r
<1>8. CASE UNCHANGED <<clientState, pendingRequests, toService, held, toClient>>
  <2>1. Kept("Ready", p, n + 1, toService, held, toClient)
    BY <1>2, <1>3, <1>4, <1>7
       DEF Kept, IdsKept, LineKept, HelloFits, ConnectedStates, ClientStates
  <2> QED
    BY <1>1, <1>8, <2>1, NextInv
<1>9. CASE pendingRequests' = p \cup {r} /\ toService' = Append(toService, r)
           /\ UNCHANGED <<clientState, held, toClient>>
  <2>1. Append(toService, r) \in Seq(Drawn(n + 1))
    BY <1>5, <1>7, AppendProperties
  <2>2. Kept("Ready", p \cup {r}, n + 1, Append(toService, r), held, toClient)
    BY <1>2, <1>3, <1>4, <1>5, <1>6, <1>7, <2>1
       DEF Kept, IdsKept, LineKept, HelloFits, ConnectedStates, ClientStates
  <2> QED
    BY <1>1, <1>9, <2>2, NextInv
<1>10. CASE pendingRequests' = p \cup {r} /\ clientState' = "Failed" /\ Emptied
  <2>1. Kept("Failed", p \cup {r}, n + 1, <<>>, {}, <<>>)
    BY <1>3, <1>5, SilentKept
  <2> QED
    BY <1>1, <1>10, <2>1, NextInv DEF Emptied
<1> QED
  BY <1>1, <1>8, <1>9, <1>10

\* A connecting client has drawn no ID.
LEMMA FirstRequest ==
  ASSUME SessionInv, clientState = "Connecting"
  PROVE  /\ requestSequence = 0 /\ pendingRequests = {}
         /\ toService = <<>> /\ held = {} /\ toClient = <<>>
BY DEF SessionInv, Kept, LineKept, ConnectedStates

\* The hello is the first request.
LEMMA AuthenticateKeeps ==
  ASSUME SessionInv, Client!Authenticate
  PROVE  SessionInv'
<1> DEFINE hello == [id |-> 1, method |-> "hello"]
<1>1. clientState = "Connecting"
  BY DEF Client!Authenticate, Connected
<1>2. /\ requestSequence = 0 /\ pendingRequests = {}
      /\ toService = <<>> /\ held = {} /\ toClient = <<>>
  BY <1>1, FirstRequest
<1>3. /\ requestSequence' = 1 /\ pendingRequests' = {hello}
      /\ \/ /\ clientState' = "Authenticating"
            /\ toService' = Append(<<>>, hello) /\ held' = {} /\ toClient' = <<>>
         \/ clientState' = "Failed" /\ Emptied
  BY <1>2, AuthenticateFacts
<1>4. 1 \in 0 .. MaxRequestIds /\ 1 \in Client!Ids /\ 1 \in Nat
  BY BoundsAssumption DEF Client!Ids
<1>5. {hello} \in SUBSET Drawn(1) /\ hello \in Drawn(1) /\ IdsUnique({hello})
  BY <1>4 DEF Drawn, Client!Request, Client!Methods, IdsUnique
<1> HIDE DEF hello
<1>6. <<>> \in Seq(Drawn(1)) /\ <<>> \in Seq(Known(1))
  BY EmptySeq
<1>7. Append(<<>>, hello) \in Seq(Drawn(1))
  BY <1>5, <1>6, AppendProperties
<1>8. Kept("Authenticating", {hello}, 1, Append(<<>>, hello), {}, <<>>)
  BY <1>4, <1>5, <1>6, <1>7
     DEF Kept, IdsKept, LineKept, HelloFits, ConnectedStates, ClientStates, hello
<1>9. Kept("Failed", {hello}, 1, <<>>, {}, <<>>)
  BY <1>4, <1>5, SilentKept
<1> QED
  BY <1>3, <1>8, <1>9, NextInv DEF Emptied

\* A client with a frame in flight is connected.
LEMMA FrameMeansConnected ==
  ASSUME SessionInv, toClient # <<>> \/ toService # <<>> \/ held # {}
  PROVE  clientState \in ConnectedStates
BY DEF SessionInv, Kept, LineKept

\* Reading a frame that is not refused: the answer to the hello leaves an empty table,
\* every other answer one without its request.
LEMMA ReadKeeps ==
  ASSUME SessionInv, Client!ProcessInput, ~Refused(1)
  PROVE  SessionInv'
<1> DEFINE n == requestSequence
           p == pendingRequests
<1>1. /\ toClient # <<>> /\ toClient' = Tail(toClient)
      /\ UNCHANGED <<requestSequence, toService, held>>
      /\ \/ UNCHANGED <<clientState, pendingRequests>>
         \/ \E r \in p : /\ pendingRequests' = p \ {r}
                         /\ r.id = 1 => clientState' = "Ready"
                         /\ r.id # 1 => clientState' \in {"Closing", clientState}
                         /\ clientState' = "Closing" => clientState = "Closing" \/ r.method = "shutdown"
  BY ReadFacts
<1>2. clientState \in ConnectedStates
  BY <1>1, FrameMeansConnected
<1>3. /\ n \in 0 .. MaxRequestIds /\ n >= 1
      /\ p \in SUBSET Drawn(n) /\ held \subseteq Drawn(n) /\ IdsUnique(p)
      /\ toService \in Seq(Drawn(n)) /\ toClient \in Seq(Known(n)) /\ HelloFits(clientState, p)
  BY <1>2 DEF SessionInv, Kept, IdsKept, LineKept
<1>4. Tail(toClient) \in Seq(Known(n))
  BY <1>1, <1>3, HeadTailProperties
<1>5. ASSUME NEW c \in ConnectedStates, NEW p2 \in SUBSET p, HelloFits(c, p2)
      PROVE  Kept(c, p2, n, toService, held, Tail(toClient))
  <2>1. p2 \subseteq Drawn(n) /\ IdsUnique(p2)
    BY <1>3 DEF IdsUnique
  <2> QED
    BY <1>3, <1>4, <1>5, <2>1 DEF Kept, IdsKept, LineKept, ConnectedStates, ClientStates
<1>6. CASE UNCHANGED <<clientState, pendingRequests>>
  <2>1. Kept(clientState, p, n, toService, held, Tail(toClient))
    BY <1>2, <1>3, <1>5
  <2> QED
    BY <1>1, <1>6, <2>1, NextInv
<1>7. ASSUME NEW r \in p, pendingRequests' = p \ {r},
             r.id = 1 => clientState' = "Ready",
             r.id # 1 => clientState' \in {"Closing", clientState},
             clientState' = "Closing" => clientState = "Closing" \/ r.method = "shutdown"
      PROVE  SessionInv'
  <2>1. clientState' \in ConnectedStates /\ HelloFits(clientState', p \ {r})
    <3>1. CASE clientState = "Authenticating"
      <4>1. p \ {r} = {} /\ r.id = 1
        BY <1>3, <3>1 DEF HelloFits
      <4> QED
        BY <1>7, <4>1 DEF HelloFits, ConnectedStates
    <3>2. CASE clientState \in {"Ready", "Closing"}
      <4>1. \A s \in p : s.id # 1 /\ s.method # "hello"
        BY <1>3, <3>2 DEF HelloFits
      <4>2. clientState' \in {"Ready", "Closing"}
        BY <1>7, <3>2, <4>1
      <4> QED
        BY <4>1, <4>2 DEF HelloFits, ConnectedStates
    <3> QED
      BY <1>2, <3>1, <3>2 DEF ConnectedStates
  <2>2. Kept(clientState', p \ {r}, n, toService, held, Tail(toClient))
    BY <1>5, <2>1
  <2> QED
    BY <1>1, <1>7, <2>2, NextInv
<1> QED
  BY <1>1, <1>6, <1>7

\* The service takes a request.
LEMMA ReceivesKeeps ==
  ASSUME SessionInv, Client!ServiceReceives
  PROVE  SessionInv'
<1> DEFINE n == requestSequence
<1>1. /\ toService # <<>>
      /\ held' = held \cup {Head(toService)} /\ toService' = Tail(toService)
      /\ UNCHANGED <<clientState, pendingRequests, requestSequence, toClient>>
  BY ReceivesFacts
<1>2. clientState \in ConnectedStates
  BY <1>1, FrameMeansConnected
<1>3. held \subseteq Drawn(n) /\ toService \in Seq(Drawn(n))
  BY DEF SessionInv, Kept, IdsKept
<1>4. Head(toService) \in Drawn(n) /\ Tail(toService) \in Seq(Drawn(n))
  BY <1>1, <1>3, HeadTailProperties
<1>5. Kept(clientState, pendingRequests, n, Tail(toService), held \cup {Head(toService)}, toClient)
  BY <1>2, <1>3, <1>4 DEF SessionInv, Kept, IdsKept, LineKept, ConnectedStates
<1> QED
  BY <1>1, <1>5, NextInv

\* The service sends a frame.
LEMMA ServiceSendKeeps ==
  ASSUME SessionInv,
         Client!ServiceAnswers \/ Client!ServiceSendsBinary \/ Client!ServiceMisbehaves
  PROVE  SessionInv'
<1> DEFINE n == requestSequence
<1>1. /\ clientState \in ConnectedStates /\ held' \subseteq held
      /\ \E f \in Known(n) : toClient' = Append(toClient, f)
      /\ UNCHANGED <<clientState, pendingRequests, requestSequence, toService>>
  BY SendsFacts
<1>2. held \subseteq Drawn(n) /\ toClient \in Seq(Known(n))
  BY DEF SessionInv, Kept, IdsKept
<1>3. toClient' \in Seq(Known(n)) /\ held' \subseteq Drawn(n)
  BY <1>1, <1>2, AppendProperties
<1>4. Kept(clientState, pendingRequests, n, toService, held', toClient')
  BY <1>1, <1>3 DEF SessionInv, Kept, IdsKept, LineKept, ConnectedStates
<1> QED
  BY <1>1, <1>4, NextInv

\* The invariant is inductive.
THEOREM SessionInvHolds == Spec => []SessionInv
<1>1. Init => SessionInv
  BY FreshKept DEF Init, SessionInv
<1>2. SessionInv /\ [Next]_vars => SessionInv'
  <2> SUFFICES ASSUME SessionInv, [Next]_vars PROVE SessionInv'
    OBVIOUS
  <2> USE OwnerKeeps
  <2>1. CASE UNCHANGED vars
    BY <2>1 DEF vars, ClientUnchanged
  <2>2. ASSUME NEW explicit, RequestGracefulShutdown(explicit) PROVE SessionInv'
    BY <2>2, SendKeeps DEF RequestGracefulShutdown
  <2>3. CASE Start \/ Stop \/ Restart \/ Destroy \/ Destroyed
    BY <2>2, <2>3 DEF Start, Stop, Restart, Destroy, Destroyed
  <2>4. CASE SendRequest
    BY <2>4, SendKeeps DEF SendRequest, ClosedOnFailure
  <2>5. CASE QueuedStart \/ StartupTimeout \/ ShutdownTimeout \/ HandleReadyLine
             \/ StandardError \/ FailedToStart \/ Finished
             \/ ChildStarts \/ ChildPrintsReady \/ ChildExits
    BY <2>5 DEF QueuedStart, StartupTimeout, ShutdownTimeout, HandleReadyLine,
                StandardError, FailedToStart, Finished, ChildStarts, ChildPrintsReady,
                ChildExits
  <2>6. CASE Authenticate
    BY <2>6, AuthenticateKeeps DEF Authenticate, ClosedOnFailure
  <2>7. CASE SocketError
    BY <2>7, ErrorFacts, LossKeeps DEF SocketError, ClosedOnFailure
  <2>8. CASE SocketDisconnected
    BY <2>8, DisconnectedFacts, LossKeeps DEF SocketDisconnected
  <2>9. CASE ProcessInput
    BY <2>9, ReadKeeps DEF ProcessInput, ClosedOnFailure
  <2>10. CASE ServiceSteps
    BY <2>10, ReceivesKeeps, ServiceSendKeeps DEF ServiceSteps
  <2> QED
    BY <2>1, <2>3, <2>4, <2>5, <2>6, <2>7, <2>8, <2>9, <2>10 DEF Next
<1> QED
  BY <1>1, <1>2, PTL DEF Spec

-----------------------------------------------------------------------------
(* The view of the wire before and after a step *)

\* The view is the wire of the client as it stands.
LEMMA ViewNow ==
  SessionInv => /\ toClient \in Seq(Known(requestSequence))
                /\ WireView = Wire(clientState, pendingRequests, toClient)
<1> SUFFICES ASSUME SessionInv
             PROVE  /\ toClient \in Seq(Known(requestSequence))
                    /\ WireView = Wire(clientState, pendingRequests, toClient)
  OBVIOUS
<1>1. toClient \in Seq(Known(requestSequence))
  BY DEF SessionInv, Kept, IdsKept
<1>2. toClient \in Seq(Client!Frame)
  BY <1>1, KnownIsFrame, WiderSeq
<1> QED
  BY <1>1, <1>2, ViewIsWire

\* So is the next view of the next client.
LEMMA ViewNext ==
  SessionInv' => WireView' = Wire(clientState', pendingRequests', toClient')
<1> SUFFICES ASSUME SessionInv'
             PROVE  WireView' = Wire(clientState', pendingRequests', toClient')
  OBVIOUS
<1>1. toClient' \in Seq(Known(requestSequence'))
  BY NextInv DEF Kept, IdsKept
<1>2. toClient' \in Seq(Client!Frame)
  BY <1>1, KnownIsFrame, WiderSeq
<1> QED
  BY <1>2, NextViewIsWire

\* A client without a connection has nothing on the wire.
LEMMA NothingOnWire ==
  ASSUME SessionInv', clientState' \notin ConnectedStates
  PROVE  WireView' = "idle"
BY ViewNext DEF Wire

\* The wire depends on the state, the table and the frames in flight alone.
LEMMA ViewStays ==
  ASSUME SessionInv, SessionInv', UNCHANGED <<clientState, pendingRequests, toClient>>
  PROVE  WireView' = WireView
BY ViewNow, ViewNext

-----------------------------------------------------------------------------
(* The controller is the same in both modules *)

\* A step that leaves the variables of the controller leaves those of the summary, too.
LEMMA SameVars ==
  /\ UNCHANGED controllerVars => UNCHANGED Summary!controllerVars
  /\ UNCHANGED <<controllerVars, clientState, WireView>> => UNCHANGED Summary!vars
BY DEF controllerVars, control, timers, files, child, object, history,
       Summary!controllerVars, Summary!control, Summary!timers, Summary!files,
       Summary!child, Summary!object, Summary!history, Summary!vars, Summary!peer

\* Both controllers start alike.
LEMMA SameInit == ControllerInit => Summary!ControllerInit
BY DEF ControllerInit, Summary!ControllerInit

\* start(), restart() of an idle service and a queued start() launch alike.
LEMMA SameLaunches ==
  /\ OnStart => Summary!OnStart
  /\ OnRestartIdle => Summary!OnRestartIdle
  /\ OnQueuedStart => Summary!OnQueuedStart
<1>1. ASSUME NEW stop, NEW explicit, Launch(stop, explicit)
      PROVE  Summary!Launch(stop, explicit)
  BY <1>1 DEF Launch, FailAfter, CleanupSession, ArmStartupTimer, files, child, ReportsCap,
              Summary!Launch, Summary!FailAfter, Summary!CleanupSession,
              Summary!ArmStartupTimer, Summary!files, Summary!child, Summary!ReportsCap
<1> USE DEF object, Summary!object
<1>2. OnStart => Summary!OnStart
  BY <1>1, Zenon DEF OnStart, WantsToRun, Summary!OnStart, Summary!WantsToRun
<1>3. OnRestartIdle => Summary!OnRestartIdle
  BY <1>1, Zenon DEF OnRestartIdle, WantsToRun, Summary!OnRestartIdle, Summary!WantsToRun
<1>4. OnQueuedStart => Summary!OnQueuedStart
  BY <1>1 DEF OnQueuedStart, files, child,
              Summary!OnQueuedStart, Summary!files, Summary!child
<1> QED
  BY <1>2, <1>3, <1>4

\* The end of a child is handled alike.
LEMMA SameEnd ==
  ASSUME NEW s, NEW stop, NEW explicit
  PROVE  HandleProcessFinished(s, stop, explicit)
           => Summary!HandleProcessFinished(s, stop, explicit)
BY DEF HandleProcessFinished, StopTimers, CleanupSession, Unexpected, RestartsLeft,
       CountRestart, QueueStart, Fail, FailAfter, ExitReason, ReportsCap,
       Summary!HandleProcessFinished, Summary!StopTimers, Summary!CleanupSession,
       Summary!Unexpected, Summary!RestartsLeft, Summary!CountRestart, Summary!QueueStart,
       Summary!Fail, Summary!FailAfter, Summary!ExitReason, Summary!ReportsCap

\* The four outcomes of requestGracefulShutdown().
LEMMA SameShutdown ==
  ASSUME NEW explicit
  PROVE  /\ ShutdownAsked(explicit) => Summary!ShutdownAsked(explicit)
         /\ ShutdownUnwritten(explicit) => Summary!ShutdownUnwritten(explicit)
         /\ ChildTerminated(explicit) => Summary!ChildTerminated(explicit)
         /\ NothingToShutDown(explicit) => Summary!NothingToShutDown(explicit)
<1>1. NothingToShutDown(explicit) => Summary!NothingToShutDown(explicit)
  BY SameEnd DEF NothingToShutDown, Summary!NothingToShutDown, child, Summary!child
<1>2. /\ ShutdownAsked(explicit) => Summary!ShutdownAsked(explicit)
      /\ ShutdownUnwritten(explicit) => Summary!ShutdownUnwritten(explicit)
      /\ ChildTerminated(explicit) => Summary!ChildTerminated(explicit)
  BY DEF ShutdownAsked, ShutdownUnwritten, ChildTerminated, Fail, FailAfter, Kill,
         ReportsCap, files, child,
         Summary!ShutdownAsked, Summary!ShutdownUnwritten, Summary!ChildTerminated,
         Summary!Fail, Summary!FailAfter, Summary!Kill, Summary!ReportsCap,
         Summary!files, Summary!child
<1> QED
  BY <1>1, <1>2

\* stop(), restart() of a running service, and the destructor.
LEMMA SameCalls ==
  /\ OnStop => Summary!OnStop
  /\ OnStopIgnored => Summary!OnStopIgnored
  /\ OnRestart => Summary!OnRestart
  /\ OnDestroy => Summary!OnDestroy
  /\ OnDestroyed => Summary!OnDestroyed
<1> USE DEF control, timers, files, child, object, history, Summary!control,
            Summary!timers, Summary!files, Summary!child, Summary!object, Summary!history
<1>1. OnStop => Summary!OnStop
  BY DEF OnStop, WantsToStop, Summary!OnStop, Summary!WantsToStop
<1>2. OnStopIgnored => Summary!OnStopIgnored
  BY DEF OnStopIgnored, WantsToStop, Summary!OnStopIgnored, Summary!WantsToStop
<1>3. OnRestart => Summary!OnRestart
  BY DEF OnRestart, WantsToRun, Summary!OnRestart, Summary!WantsToRun
<1>4. OnDestroy => Summary!OnDestroy
  BY DEF OnDestroy, StopTimers, Kill, Summary!OnDestroy, Summary!StopTimers, Summary!Kill
<1>5. OnDestroyed => Summary!OnDestroyed
  BY DEF OnDestroyed, CleanupSession, Kill, Summary!OnDestroyed,
         Summary!CleanupSession, Summary!Kill
<1> QED
  BY <1>1, <1>2, <1>3, <1>4, <1>5

\* The two timers.
LEMMA SameTimers ==
  /\ OnStartupTimeout => Summary!OnStartupTimeout
  /\ OnShutdownTimeout => Summary!OnShutdownTimeout
BY DEF OnStartupTimeout, OnShutdownTimeout, Fail, FailAfter, ForceStop, StopTimers, Kill,
       ReportsCap, control, files, child, object, history,
       Summary!OnStartupTimeout, Summary!OnShutdownTimeout, Summary!Fail,
       Summary!FailAfter, Summary!ForceStop, Summary!StopTimers, Summary!Kill,
       Summary!ReportsCap, Summary!control, Summary!files, Summary!child,
       Summary!object, Summary!history

\* The signals of the QProcess.
LEMMA SameSignals ==
  /\ OnReadyLine => Summary!OnReadyLine
  /\ OnReadyLineRefused => Summary!OnReadyLineRefused
  /\ OnStandardError => Summary!OnStandardError
  /\ OnFailedToStart => Summary!OnFailedToStart
  /\ OnFinished => Summary!OnFinished
<1> USE DEF Listening, EndpointMatches, Fail, FailAfter, ForceStop, StopTimers, Kill,
            ReportsCap, timers, files, child, object, history,
            Summary!Listening, Summary!object, Summary!EndpointMatches,
            Summary!Fail, Summary!FailAfter, Summary!ForceStop,
            Summary!StopTimers, Summary!Kill, Summary!ReportsCap, Summary!timers,
            Summary!files, Summary!child, Summary!history
<1>1. OnReadyLine => Summary!OnReadyLine
  BY DEF OnReadyLine, Summary!OnReadyLine
<1>2. OnReadyLineRefused => Summary!OnReadyLineRefused
  BY DEF OnReadyLineRefused, Summary!OnReadyLineRefused
<1>3. OnStandardError => Summary!OnStandardError
  BY DEF OnStandardError, Summary!OnStandardError
<1>4. OnFailedToStart => Summary!OnFailedToStart
  BY DEF OnFailedToStart, Summary!OnFailedToStart
<1>5. OnFinished => Summary!OnFinished
  BY SameEnd DEF OnFinished, Summary!OnFinished
<1> QED
  BY <1>1, <1>2, <1>3, <1>4, <1>5

\* The slots of ready() and failed().
LEMMA SameSlots ==
  /\ OnClientReady => Summary!OnClientReady
  /\ OnClientLost => Summary!OnClientLost
  /\ \A code : OnClientFailed(code) => Summary!OnClientFailed(code)
<1> USE DEF Listening, Fail, FailAfter, ForceStop, StopTimers, Kill, ReportsCap,
            timers, files, child, object, history,
            Summary!Listening, Summary!object, Summary!Fail, Summary!FailAfter, Summary!ForceStop,
            Summary!StopTimers, Summary!Kill, Summary!ReportsCap, Summary!timers,
            Summary!files, Summary!child, Summary!history
<1>1. OnClientReady => Summary!OnClientReady
  BY DEF OnClientReady, Summary!OnClientReady
<1>2. OnClientLost => Summary!OnClientLost
  BY DEF OnClientLost, Summary!OnClientLost
<1>3. \A code : OnClientFailed(code) => Summary!OnClientFailed(code)
  BY DEF OnClientFailed, Summary!OnClientFailed
<1> QED
  BY <1>1, <1>2, <1>3

\* What the child does of its own accord.
LEMMA SameChild ==
  /\ ChildRuns => Summary!ChildRuns
  /\ ChildPrints => Summary!ChildPrints
  /\ ChildDies => Summary!ChildDies
BY DEF Listening, ChildRuns, ChildPrints, ChildDies, ControllerUnchanged, control, timers,
       files, object, history, Summary!Listening, Summary!object,
       Summary!ChildRuns, Summary!ChildPrints, Summary!ChildDies,
       Summary!ControllerUnchanged, Summary!control, Summary!timers, Summary!files,
       Summary!history

-----------------------------------------------------------------------------
(* Every step of the session is a step of the summary, or none *)

\* What the controller does to its client, as the summary sees it.
LEMMA OwnerView ==
  ASSUME SessionInv, SessionInv'
  PROVE  /\ ConnectClient => clientState' = "Connecting" /\ WireView' = "idle"
         /\ CloseClient => Summary!CloseClient
         /\ DropClient => Summary!DropClient
         /\ ClientUnchanged => Summary!ClientUnchanged
<1>1. ConnectClient => clientState' = "Connecting" /\ WireView' = "idle"
  BY NothingOnWire DEF ConnectClient, Fresh, ConnectedStates
<1>2. CloseClient => Summary!CloseClient
  BY NothingOnWire DEF CloseClient, ClientUnchanged, clientVars, Summary!CloseClient,
                       ConnectedStates
<1>3. DropClient => Summary!DropClient
  BY NothingOnWire DEF DropClient, Fresh, Summary!DropClient, ConnectedStates
<1>4. ClientUnchanged => Summary!ClientUnchanged
  BY ViewStays DEF ClientUnchanged, clientVars, Summary!ClientUnchanged, Summary!peer
<1> QED
  BY <1>1, <1>2, <1>3, <1>4

\* A request that is written joins the table, and only a shutdown shows on the wire.
LEMMA SentView ==
  ASSUME SessionInv, SessionInv', NEW method, Client!SendRequest(method),
         clientState' = "Ready"
  PROVE  \/ pendingRequests' = pendingRequests /\ WireView' = WireView
         \/ /\ pendingRequests' # pendingRequests
            /\ WireView' = IF method = "shutdown" /\ WireView = "idle" THEN "shutdown"
                           ELSE WireView
<1> DEFINE n == requestSequence
           p == pendingRequests
           q == toClient
           r == [id |-> n + 1, method |-> method]
<1>1. /\ clientState = "Ready"
      /\ \/ UNCHANGED <<clientState, pendingRequests, toClient>>
         \/ pendingRequests' = p \cup {r} /\ UNCHANGED <<clientState, toClient>>
  BY SendFacts
<1>2. n \in Nat /\ q \in Seq(Known(n)) /\ p \subseteq Drawn(n)
  BY DEF SessionInv, Kept, IdsKept
<1>3. \A i \in 1 .. Len(q) : q[i].kind = "response" => q[i].id # r.id
  <2>1. ASSUME NEW i \in 1 .. Len(q), q[i].kind = "response" PROVE q[i].id # r.id
    <3>1. q[i] \in Known(n)
      BY <1>2, ElementOfSeq
    <3>2. q[i].id \in Nat /\ q[i].id <= n
      BY <2>1, <3>1 DEF Known, Client!Frame, Client!Ids
    <3> QED
      BY <1>2, <3>2
  <2> QED
    BY <2>1
<1>4. r \notin p
  BY <1>2 DEF Drawn, Client!Request, Client!Ids
<1>5. r.method = method
  OBVIOUS
<1> HIDE DEF r
<1>6. CASE UNCHANGED <<clientState, pendingRequests, toClient>>
  BY <1>6, ViewStays
<1>7. CASE pendingRequests' = p \cup {r} /\ UNCHANGED <<clientState, toClient>>
  <2>1. WireView = Wire("Ready", p, q) /\ WireView' = Wire("Ready", p \cup {r}, q)
    BY <1>1, <1>7, ViewNow, ViewNext
  <2>2. Wire("Ready", p \cup {r}, q)
          = IF r.method = "shutdown" /\ Wire("Ready", p, q) = "idle" THEN "shutdown"
            ELSE Wire("Ready", p, q)
    BY <1>2, <1>3, RequestJoins
  <2> QED
    BY <1>4, <1>5, <1>7, <2>1, <2>2
<1> QED
  BY <1>1, <1>6, <1>7

\* requestGracefulShutdown asks, fails or terminates as in the summary.
LEMMA ShutdownStep ==
  ASSUME SessionInv, SessionInv', NEW explicit, RequestGracefulShutdown(explicit)
  PROVE  Summary!RequestGracefulShutdown(explicit)
<1>1. CASE /\ Client!SendRequest("shutdown") /\ clientState' = "Ready"
           /\ IF pendingRequests' # pendingRequests
              THEN ShutdownAsked(explicit) ELSE ChildTerminated(explicit)
  <2>1. clientState = "Ready"
    BY <1>1, SendFacts
  <2>2. CASE pendingRequests' = pendingRequests /\ WireView' = WireView
    BY <1>1, <2>1, <2>2, SameShutdown
       DEF Summary!RequestGracefulShutdown, Summary!ClientUnchanged, Summary!peer
  <2>3. CASE /\ pendingRequests' # pendingRequests
             /\ WireView' = IF WireView = "idle" THEN "shutdown" ELSE WireView
    BY <1>1, <2>1, <2>3, SameShutdown DEF Summary!RequestGracefulShutdown
  <2> QED
    BY <1>1, <2>2, <2>3, SentView
<1>2. CASE Client!CanSend /\ Client!RoomLeft /\ ShutdownUnwritten(explicit) /\ CloseClient
  BY <1>2, OwnerView, SameShutdown DEF Client!CanSend, Summary!RequestGracefulShutdown
<1>3. CASE ChildTerminated(explicit) /\ ClientUnchanged
  BY <1>3, OwnerView, SameShutdown DEF Summary!RequestGracefulShutdown
<1>4. CASE ~Client!CanSend /\ NothingToShutDown(explicit) /\ DropClient
  BY <1>4, OwnerView, SameShutdown DEF Client!CanSend, Summary!RequestGracefulShutdown
<1> QED
  BY <1>1, <1>2, <1>3, <1>4 DEF RequestGracefulShutdown

\* The calls of the application to the controller.
LEMMA CallStep ==
  ASSUME SessionInv, SessionInv', Start \/ Stop \/ Restart \/ Destroy \/ Destroyed
  PROVE  Summary!Next
<1> USE OwnerView, ShutdownStep
<1>1. CASE Start
  BY <1>1, SameLaunches DEF Start, Summary!Start, Summary!Next
<1>2. CASE Stop
  BY <1>2, SameCalls DEF Stop, Summary!Stop, Summary!Next
<1>3. CASE Restart
  BY <1>3, SameCalls, SameLaunches DEF Restart, Summary!Restart, Summary!Next
<1>4. CASE Destroy
  BY <1>4, SameCalls DEF Destroy, Summary!Destroy, Summary!Next
<1>5. CASE Destroyed
  BY <1>5, SameCalls DEF Destroyed, Summary!Destroyed, Summary!Next
<1> QED
  BY <1>1, <1>2, <1>3, <1>4, <1>5

\* Timers, signals of the QProcess and steps of the child leave the client alone, close it
\* or put another in its place.
LEMMA EventStep ==
  ASSUME SessionInv, SessionInv',
         \/ QueuedStart \/ StartupTimeout \/ ShutdownTimeout
         \/ HandleReadyLine \/ StandardError \/ FailedToStart \/ Finished
         \/ ChildStarts \/ ChildPrintsReady \/ ChildExits
  PROVE  Summary!Next
<1> USE OwnerView DEF Summary!Next
<1>1. CASE QueuedStart
  BY <1>1, SameLaunches DEF QueuedStart, Summary!QueuedStart
<1>2. CASE StartupTimeout
  BY <1>2, SameTimers DEF StartupTimeout, Summary!StartupTimeout
<1>3. CASE ShutdownTimeout
  BY <1>3, SameTimers DEF ShutdownTimeout, Summary!ShutdownTimeout
<1>4. CASE HandleReadyLine
  BY <1>4, SameSignals DEF HandleReadyLine, Summary!HandleReadyLine
<1>5. CASE StandardError
  BY <1>5, SameSignals DEF StandardError, Summary!StandardError
<1>6. CASE FailedToStart
  BY <1>6, SameSignals DEF FailedToStart, Summary!FailedToStart
<1>7. CASE Finished
  BY <1>7, SameSignals DEF Finished, Summary!Finished
<1>8. CASE ChildStarts
  BY <1>8, SameChild DEF ChildStarts, Summary!ChildStarts
<1>9. CASE ChildPrintsReady
  BY <1>9, SameChild DEF ChildPrintsReady, Summary!ChildPrintsReady
<1>10. CASE ChildExits
  BY <1>10, SameChild DEF ChildExits, Summary!ChildExits
<1> QED
  BY <1>1, <1>2, <1>3, <1>4, <1>5, <1>6, <1>7, <1>8, <1>9, <1>10

\* A client that fails while the session is in use, or is closed for it.
LEMMA LossStep ==
  ASSUME SessionInv, SessionInv', clientState \in {"Connecting", "Authenticating", "Ready"},
         alive \/ clientState = "Connecting",
         \/ clientState' = "Failed" /\ OnClientLost
         \/ ClosedOnFailure("TRANSPORT")
  PROVE  Summary!Next
<1>1. CASE clientState' = "Failed" /\ OnClientLost
  <2>1. WireView' = "idle"
    BY <1>1, NothingOnWire DEF ConnectedStates
  <2> QED
    BY <1>1, <2>1, SameSlots DEF Summary!ClientTransportFails, Summary!Next
<1>2. CASE ClosedOnFailure("TRANSPORT")
  BY <1>2, OwnerView, SameSlots
     DEF ClosedOnFailure, Summary!ClientTransportFails, Summary!Next
<1> QED
  BY <1>1, <1>2

\* A request of the application shows in the summary only when its write fails.
LEMMA SendStep ==
  ASSUME SessionInv, SessionInv', SendRequest
  PROVE  Summary!Next \/ UNCHANGED Summary!vars
<1>1. CASE /\ alive /\ Client!SendRequest("other")
           /\ IF clientState' = "Failed" THEN OnClientLost ELSE UNCHANGED controllerVars
  <2>1. clientState = "Ready" /\ clientState' \in {"Ready", "Failed"}
    BY <1>1, SendFacts
  <2>2. CASE clientState' = "Failed"
    BY <1>1, <2>1, <2>2, LossStep
  <2>3. CASE clientState' = "Ready"
    <3>1. WireView' = WireView
      BY <1>1, <2>3, SentView
    <3> QED
      BY <1>1, <2>1, <2>3, <3>1, SameVars
  <2> QED
    BY <2>1, <2>2, <2>3
<1>2. CASE alive /\ Client!CanSend /\ ClosedOnFailure("TRANSPORT")
  BY <1>2, LossStep DEF Client!CanSend
<1> QED
  BY <1>1, <1>2 DEF SendRequest

\* The hello is on the wire, or the handshake fails.
LEMMA ConnectStep ==
  ASSUME SessionInv, SessionInv', Authenticate
  PROVE  Summary!Next
<1>1. CASE /\ Listening /\ proc = "Running" /\ Client!Authenticate
           /\ IF clientState' = "Failed" THEN OnClientLost ELSE UNCHANGED controllerVars
  <2>1. clientState = "Connecting"
    BY <1>1 DEF Client!Authenticate, Connected
  <2>2. requestSequence = 0 /\ pendingRequests = {} /\ toClient = <<>>
    BY <2>1, FirstRequest
  <2>3. CASE clientState' = "Failed"
    BY <1>1, <2>1, <2>3, LossStep
  <2>4. CASE clientState' = "Authenticating" /\ toClient' = <<>>
    <3>1. Quiet(clientState', pendingRequests', toClient')
      BY <2>4, EmptySeq DEF Quiet
    <3>2. WireView' = "hello"
      BY <2>4, <3>1, ViewNext, WireQuiet DEF Silence, ConnectedStates
    <3> QED
      BY <1>1, <2>1, <2>4, <3>2, SameVars
         DEF Listening, Summary!Listening, Summary!ClientConnected, Summary!Next
  <2> QED
    BY <1>1, <2>2, <2>3, <2>4, AuthenticateFacts
<1>2. CASE clientState = "Connecting" /\ ClosedOnFailure("TRANSPORT")
  BY <1>2, LossStep
<1>3. CASE clientState = "Connecting" /\ proc = "Running" /\ ClosedOnFailure("PROTOCOL")
  BY <1>3, OwnerView, SameSlots
     DEF ClosedOnFailure, Summary!ClientProtocolFails, Summary!Next
<1> QED
  BY <1>1, <1>2, <1>3 DEF Authenticate

\* The socket is lost, or ends.
LEMMA SocketStep ==
  ASSUME SessionInv, SessionInv', SocketError \/ SocketDisconnected
  PROVE  Summary!Next
<1>1. CASE SocketError
  BY <1>1, ErrorFacts, LossStep DEF SocketError
<1>2. CASE SocketDisconnected
  <2>1. clientState \in ConnectedStates /\ clientState' = "Disconnected"
    BY <1>2, DisconnectedFacts DEF SocketDisconnected
  <2>2. WireView' = "idle"
    BY <2>1, NothingOnWire DEF ConnectedStates
  <2> QED
    BY <1>2, <2>1, <2>2, SameVars
       DEF SocketDisconnected, ConnectedStates, Summary!ClientDisconnected,
           Summary!Next
<1> QED
  BY <1>1, <1>2

\* A frame the model refuses is refused on the wire.
LEMMA RefusedView == Refused(1) <=> RefusedIn(pendingRequests, toClient, 1)
BY DEF Refused, RefusedIn, Client!IdsOf, Client!Authentic

\* Reading a frame is what the summary calls a protocol failure, the answer to the
\* hello or to the shutdown, or makes no difference to the controller.
LEMMA ReadStep ==
  ASSUME SessionInv, SessionInv', ProcessInput
  PROVE  Summary!Next \/ UNCHANGED Summary!vars
<1> DEFINE c == clientState
           p == pendingRequests
           q == toClient
           n == requestSequence
<1>1. /\ alive /\ q # <<>>
      /\ Refused(1) => ClosedOnFailure("PROTOCOL")
      /\ ~Refused(1) => /\ Client!ProcessInput
                        /\ IF clientState' = "Ready" /\ c # "Ready"
                           THEN OnClientReady ELSE UNCHANGED controllerVars
  BY DEF ProcessInput
<1>2. c \in ConnectedStates
  BY <1>1, FrameMeansConnected
<1>3. IdsUnique(p) /\ HelloFits(c, p)
  BY DEF SessionInv, Kept
<1>4. q \in Seq(Known(n)) /\ WireView = Wire(c, p, q)
      /\ WireView' = Wire(clientState', pendingRequests', toClient')
  BY ViewNow, ViewNext
<1>5. CASE Refused(1)
  <2>1. NotableIn(c, p, q, 1) /\ RefusedIn(p, q, 1)
    BY <1>5, RefusedView DEF NotableIn
  <2>2. WireView = "garbage"
    BY <1>1, <1>2, <1>4, <2>1, NextFrameDecides DEF Verdict
  <2> QED
    BY <1>1, <1>2, <1>5, <2>2, OwnerView, SameSlots
       DEF ClosedOnFailure, ConnectedStates, Summary!ClientProtocolFails, Summary!Next
<1>6. CASE ~Refused(1)
  <2>1. ~RefusedIn(p, q, 1)
    BY <1>6, RefusedView
  <2>2. /\ toClient' = Tail(q)
        /\ \/ q[1].kind = "binary" /\ UNCHANGED <<clientState, pendingRequests>>
           \/ /\ q[1].kind = "response"
              /\ \E r \in p : /\ r.id = q[1].id /\ pendingRequests' = p \ {r}
                              /\ clientState' = IF r.id = 1 THEN "Ready"
                                                ELSE IF r.method = "shutdown" /\ q[1].answer = "ok"
                                                THEN "Closing" ELSE c
    BY <1>1, <1>6, ReadFacts
  <2>3. ASSUME clientState' = c, WireView' = WireView PROVE UNCHANGED Summary!vars
    BY <1>1, <1>6, <2>3, SameVars
  <2>4. CASE q[1].kind = "binary" /\ UNCHANGED <<clientState, pendingRequests>>
    <3>1. Wire(c, p, Tail(q)) = Wire(c, p, q)
      BY <1>1, <1>2, <1>4, <2>4, BinaryGoes
    <3>2. clientState' = c /\ WireView' = WireView
      BY <1>4, <2>2, <2>4, <3>1
    <3> QED
      BY <2>3, <3>2
  <2>5. ASSUME NEW r \in p, q[1].kind = "response", r.id = q[1].id,
               pendingRequests' = p \ {r},
               clientState' = IF r.id = 1 THEN "Ready"
                              ELSE IF r.method = "shutdown" /\ q[1].answer = "ok"
                              THEN "Closing" ELSE c
        PROVE  Summary!Next \/ UNCHANGED Summary!vars
    <3>1. CASE c = "Authenticating"
      <4>1. r = [id |-> 1, method |-> "hello"] /\ p \ {r} = {}
        BY <1>3, <3>1 DEF HelloFits
      <4>2. r.id = 1 /\ r.method = "hello"
        BY <4>1
      <4>3. NotableIn(c, p, q, 1)
        BY <2>5, <3>1, <4>2 DEF NotableIn, Weighty
      <4>4. WireView = "accept"
        BY <1>1, <1>2, <1>4, <2>1, <2>5, <4>2, <4>3, NextFrameDecides DEF Verdict
      <4>5. clientState' = "Ready" /\ OnClientReady
        BY <1>1, <1>6, <2>5, <3>1, <4>2
      <4>6. WireView' \in {"idle", "garbage"}
        BY <1>4, <2>5, <4>1, <4>5, OnlyFaultsLeft
      <4> QED
        BY <3>1, <4>4, <4>5, <4>6, SameSlots DEF Summary!ClientReady, Summary!Next
    <3>2. CASE c = "Ready" /\ r.method = "shutdown" /\ q[1].answer = "ok"
      <4>1. r.id # 1
        BY <1>3, <3>2 DEF HelloFits
      <4>2. NotableIn(c, p, q, 1)
        BY <2>5, <3>2 DEF NotableIn, Weighty
      <4>3. WireView = "bye"
        BY <1>1, <1>2, <1>4, <2>1, <2>5, <4>1, <4>2, NextFrameDecides DEF Verdict
      <4>4. clientState' = "Closing" /\ UNCHANGED controllerVars
        BY <1>1, <1>6, <2>5, <3>2, <4>1
      <4>5. WireView' \in {"idle", "garbage"}
        BY <1>4, <4>4, OnlyFaultsLeft
      <4> QED
        BY <1>1, <3>2, <4>3, <4>4, <4>5, SameVars DEF Summary!ShutdownReply, Summary!Next
    <3>3. CASE c = "Closing" \/ (c = "Ready" /\ ~(r.method = "shutdown" /\ q[1].answer = "ok"))
      <4>1. r.id # 1 /\ r.method # "hello"
        BY <1>3, <3>3 DEF HelloFits
      <4>2. clientState' = c
        BY <2>5, <3>3, <4>1
      <4>3. \A s \in p : s.id = r.id => s = r
        BY <1>3 DEF IdsUnique
      <4>4. ~NotableIn(c, p, q, 1)
        <5>1. c # "Closing" => ~Weighty(p, q[1])
          BY <2>5, <3>3, <4>1, <4>3 DEF Weighty
        <5> QED
          BY <2>1, <5>1 DEF NotableIn
      <4>5. Wire(c, p \ {r}, Tail(q)) = Wire(c, p, q)
        BY <1>1, <1>2, <1>4, <2>5, <4>3, <4>4, AnswerGoes
      <4>6. WireView' = WireView
        BY <1>4, <2>2, <2>5, <4>2, <4>5
      <4> QED
        BY <2>3, <4>2, <4>6
    <3> QED
      BY <1>2, <3>1, <3>2, <3>3 DEF ConnectedStates
  <2> QED
    BY <2>2, <2>4, <2>5
<1> QED
  BY <1>5, <1>6

\* A frame of the service is the answer to the hello or to the shutdown, breaks the
\* protocol, or makes no difference.
LEMMA ServiceStep ==
  ASSUME SessionInv, SessionInv', ServiceSteps
  PROVE  Summary!Next \/ UNCHANGED Summary!vars
<1> DEFINE c == clientState
           p == pendingRequests
           q == toClient
           n == requestSequence
<1>1. alive /\ proc = "Running" /\ UNCHANGED controllerVars
  BY DEF ServiceSteps
<1>2. CASE Client!ServiceReceives
  <2>1. UNCHANGED <<clientState, pendingRequests, toClient>>
    BY <1>2, ReceivesFacts
  <2> QED
    BY <1>1, <2>1, SameVars, ViewStays
<1>3. CASE Client!ServiceAnswers \/ Client!ServiceSendsBinary \/ Client!ServiceMisbehaves
  <2>1. c \in ConnectedStates /\ UNCHANGED <<clientState, pendingRequests>>
    BY <1>3, SendsFacts
  <2>2. PICK f \in Known(n) : toClient' = Append(q, f)
    BY <1>3, SendsFacts
  <2>3. q \in Seq(Known(n)) /\ WireView = Wire(c, p, q) /\ WireView' = Wire(c, p, Append(q, f))
    BY <2>1, <2>2, ViewNow, ViewNext
  <2>4. HelloFits(c, p)
    BY DEF SessionInv, Kept
  <2>5. \/ WireView' \in {WireView, "garbage"}
        \/ WireView = "hello" /\ WireView' = "accept"
        \/ WireView = "shutdown" /\ WireView' \in {"bye", "idle"}
    BY <2>1, <2>3, <2>4, ServiceSends
  <2>6. CASE WireView' = WireView
    BY <1>1, <2>1, <2>6, SameVars
  <2>7. CASE WireView' = "garbage"
    BY <1>1, <2>1, <2>7, SameVars
       DEF ConnectedStates, Summary!ChildBreaksProtocol, Summary!Next
  <2>8. CASE WireView = "hello" /\ WireView' = "accept"
    BY <1>1, <2>1, <2>8, SameVars DEF Summary!ChildAnswersHello, Summary!Next
  <2>9. CASE WireView = "shutdown" /\ WireView' \in {"bye", "idle"}
    BY <1>1, <2>1, <2>9, SameVars DEF Summary!ChildAnswersShutdown, Summary!Next
  <2> QED
    BY <2>5, <2>6, <2>7, <2>8, <2>9
<1> QED
  BY <1>2, <1>3 DEF ServiceSteps

-----------------------------------------------------------------------------
\* The controller with its real client behaves as the controller with the summary of
\* it: every step is one of the summary or changes nothing the summary sees
\* (service_process.cpp:336-372, 374-400).
THEOREM ControllerHolds == Spec => ControllerSpec
<1>1. Init => Summary!Init
  BY SameInit DEF Init, Summary!Init, WireView, Connected
<1>2. SessionInv /\ SessionInv' /\ [Next]_vars => [Summary!Next]_Summary!vars
  <2> SUFFICES ASSUME SessionInv, SessionInv', [Next]_vars
               PROVE  Summary!Next \/ UNCHANGED Summary!vars
    OBVIOUS
  <2>1. CASE UNCHANGED vars
    BY <2>1, SameVars, ViewStays DEF vars, clientVars
  <2>2. CASE Next
    BY <2>2, CallStep, EventStep, SendStep, ConnectStep, SocketStep, ReadStep, ServiceStep
       DEF Next
  <2> QED
    BY <2>1, <2>2
<1>3. Spec => []SessionInv
  BY SessionInvHolds
<1> QED
  BY <1>1, <1>2, <1>3, PTL DEF Spec, ControllerSpec, Summary!Spec

=============================================================================
