------------------------ MODULE TimeoutProviderProofs ------------------------
(***************************************************************************)
(* Proof about TimeoutProvider, for any streams, delays and length of the   *)
(* list: the list stays sorted, which is what lets the thread look at its    *)
(* first entry only.                                                        *)
(***************************************************************************)
EXTENDS TimeoutProvider, WellFoundedInduction, TLAPS

Requests == [sub : Subscribers, when : Nat]

\* Sorted is inductive with the types of what it is about.
Inv == requests \in Seq(Requests) /\ now \in Nat /\ Sorted

-----------------------------------------------------------------------------
(* The list.                                                                 *)

\* A list in which later entries expire later, as Sorted says of requests.
InTimeOrder(list) == \A i, j \in 1..Len(list) : i < j => list[i].when <= list[j].when

LEMMA FirstIsLeast ==
    ASSUME NEW S \in SUBSET Nat, S # {}
    PROVE  First(S) \in S /\ \A j \in S : First(S) <= j
  <1> DEFINE R == OpToRel(<, Nat)
  <1>1. \E i \in S : \A j \in S : ~(<<j, i>> \in R)
    <2>1. IsWellFoundedOn(R, Nat)
      BY NatLessThanWellFounded
    <2> HIDE DEF R
    <2> QED
      BY <2>1, WFMin
  <1>2. \A i, j \in S : j < i => <<j, i>> \in R
    BY DEF OpToRel
  <1>3. PICK i \in S : \A j \in S : ~(<<j, i>> \in R)
    BY <1>1
  <1>4. \A j \in S : i <= j
    <2> SUFFICES ASSUME NEW j \in S PROVE i <= j
      OBVIOUS
    <2>1. i \in Nat /\ j \in Nat
      OBVIOUS
    <2>2. ~(j < i)
      BY <1>2, <1>3
    <2> QED
      BY <2>1, <2>2
  <1> QED
    BY <1>4 DEF First

LEMMA Concatenation ==
    ASSUME NEW S, NEW s \in Seq(S), NEW t \in Seq(S)
    PROVE  /\ s \o t \in Seq(S) /\ Len(s \o t) = Len(s) + Len(t)
           /\ \A i \in 1..Len(s) : (s \o t)[i] = s[i]
           /\ \A i \in (Len(s) + 1)..(Len(s) + Len(t)) : (s \o t)[i] = t[i - Len(s)]
  OBVIOUS

LEMMA InsertedInOrder ==
    ASSUME requests \in Seq(Requests), Sorted, NEW req \in Requests
    PROVE  Inserted(req) \in Seq(Requests) /\ InTimeOrder(Inserted(req))
  <1>0. \A i \in 1..Len(requests) : requests[i] \in Requests
    OBVIOUS
  <1>1. CASE requests = <<>>
    <2>1. Inserted(req) = <<req>>
      BY <1>1 DEF Inserted
    <2> QED
      BY <2>1 DEF InTimeOrder
  <1>2. CASE requests # <<>> /\ requests[Len(requests)].when < req.when
    <2>1. Inserted(req) = Append(requests, req)
      BY <1>2 DEF Inserted
    <2>2. \A i \in 1..Len(requests) : requests[i].when < req.when
      <3>1. \A i \in 1..Len(requests) : requests[i].when <= requests[Len(requests)].when
        BY <1>0, <1>2 DEF Sorted, Positions, Requests
      <3> QED
        BY <1>0, <1>2, <3>1 DEF Requests
    <2>3. /\ Append(requests, req) \in Seq(Requests)
          /\ Len(Append(requests, req)) = Len(requests) + 1
          /\ \A i \in 1..Len(requests) : Append(requests, req)[i] = requests[i]
          /\ Append(requests, req)[Len(requests) + 1] = req
      OBVIOUS
    <2> DEFINE new == Append(requests, req)
    <2> HIDE DEF new
    <2>4. \A i, j \in 1..Len(new) : i < j => new[i].when <= new[j].when
      BY <1>0, <2>2, <2>3 DEF Sorted, Positions, Requests, new
    <2> QED
      BY <2>1, <2>3, <2>4 DEF InTimeOrder, new
  <1>3. CASE requests # <<>> /\ ~(requests[Len(requests)].when < req.when)
    <2>1. CASE Later(req.when) = {}
      <3>1. Inserted(req) = requests
        BY <1>3, <2>1 DEF Inserted
      <3> QED
        BY <3>1 DEF InTimeOrder, Sorted, Positions
    <2>2. CASE Later(req.when) # {}
      <3> DEFINE k == First(Later(req.when))
                 pre == SubSeq(requests, 1, k - 1)
                 post == SubSeq(requests, k, Len(requests))
                 new == pre \o <<req>> \o post
      <3>1. /\ k \in 1..Len(requests) /\ req.when < requests[k].when
            /\ \A j \in 1..(k - 1) : requests[j].when <= req.when
        <4>1. Later(req.when) \in SUBSET Nat
          BY DEF Later, Positions
        <4>2. k \in Later(req.when) /\ \A j \in Later(req.when) : k <= j
          BY <2>2, <4>1, FirstIsLeast
        <4> HIDE DEF k
        <4>3. k \in 1..Len(requests) /\ req.when < requests[k].when
          BY <4>2 DEF Later, Positions
        <4>4. ASSUME NEW j \in 1..(k - 1) PROVE requests[j].when <= req.when
          <5>1. j \in 1..Len(requests) /\ ~(k <= j)
            BY <4>3
          <5>2. ~(req.when < requests[j].when)
            BY <4>2, <5>1 DEF Later, Positions
          <5>3. requests[j].when \in Nat /\ req.when \in Nat
            BY <1>0, <5>1 DEF Requests
          <5> QED
            BY <5>2, <5>3
        <4> QED
          BY <4>3, <4>4
      <3>2. Inserted(req) = new
        BY <1>3, <2>2 DEF Inserted
      <3> HIDE DEF k
      <3>3. /\ pre \in Seq(Requests) /\ Len(pre) = k - 1
            /\ \A i \in 1..(k - 1) : pre[i] = requests[i]
        BY <3>1
      <3>4. /\ post \in Seq(Requests) /\ Len(post) = Len(requests) - k + 1
            /\ \A i \in 1..(Len(requests) - k + 1) : post[i] = requests[i + k - 1]
        BY <3>1
      <3> HIDE DEF pre, post
      <3>5. /\ new \in Seq(Requests) /\ Len(new) = Len(requests) + 1
            /\ \A i \in 1..(k - 1) : new[i] = requests[i]
            /\ new[k] = req
            /\ \A i \in (k + 1)..(Len(requests) + 1) : new[i] = requests[i - 1]
        <4> DEFINE head == pre \o <<req>>
        <4>1. /\ head \in Seq(Requests) /\ Len(head) = k /\ head[k] = req
              /\ \A i \in 1..(k - 1) : head[i] = pre[i]
          BY <3>1, <3>3
        <4> HIDE DEF head
        <4>2. /\ head \o post \in Seq(Requests) /\ Len(head \o post) = Len(requests) + 1
              /\ \A i \in 1..k : (head \o post)[i] = head[i]
          <5>1. head \o post \in Seq(Requests) /\ Len(head \o post) = Len(head) + Len(post)
            BY <3>4, <4>1, Concatenation
          <5>2. \A i \in 1..Len(head) : (head \o post)[i] = head[i]
            BY <3>4, <4>1, Concatenation
          <5> QED
            BY <3>1, <3>4, <4>1, <5>1, <5>2
        <4>3. \A i \in (k + 1)..(Len(requests) + 1) : (head \o post)[i] = post[i - k]
          BY <3>1, <3>4, <4>1
        <4>4. \A i \in (k + 1)..(Len(requests) + 1) : post[i - k] = requests[i - 1]
          BY <3>1, <3>4
        <4>5. new = head \o post
          BY DEF head
        <4> HIDE DEF new
        <4> QED
          BY <3>1, <3>3, <4>1, <4>2, <4>3, <4>4, <4>5
      <3> HIDE DEF new
      <3>6. \A i, j \in 1..Len(new) : i < j => new[i].when <= new[j].when
        <4> SUFFICES ASSUME NEW i \in 1..Len(new), NEW j \in 1..Len(new), i < j
                     PROVE  new[i].when <= new[j].when
          OBVIOUS
        <4>0. /\ \A a, b \in 1..Len(requests) : a < b => requests[a].when <= requests[b].when
              /\ \A a \in 1..Len(requests) : requests[a].when \in Nat
              /\ req.when \in Nat
          BY <1>0 DEF Sorted, Positions, Requests
        <4>1. CASE j < k
          BY <3>1, <3>5, <4>0, <4>1
        <4>2. CASE j = k
          BY <3>1, <3>5, <4>0, <4>2
        <4>3. CASE k < j
          <5>1. new[j] = requests[j - 1] /\ j - 1 \in k..Len(requests)
            BY <3>1, <3>5, <4>3
          <5>2. requests[k].when <= requests[j - 1].when
            BY <3>1, <4>0, <5>1
          <5>3. req.when <= requests[j - 1].when
            BY <3>1, <4>0, <5>1, <5>2
          <5>4. CASE i < k
            <6>1. new[i] = requests[i] /\ requests[i].when <= req.when /\ i \in 1..Len(requests)
              BY <3>1, <3>5, <5>4
            <6> QED
              BY <3>1, <4>0, <5>1, <5>3, <6>1
          <5>5. CASE i = k
            BY <3>5, <5>1, <5>3, <5>5
          <5>6. CASE k < i
            <6>1. new[i] = requests[i - 1] /\ i - 1 \in 1..Len(requests) /\ i - 1 < j - 1
              BY <3>1, <3>5, <5>6
            <6> QED
              BY <3>1, <4>0, <5>1, <6>1
          <5> QED
            BY <3>1, <5>4, <5>5, <5>6
        <4> QED
          BY <3>1, <4>1, <4>2, <4>3
      <3> QED
        BY <3>2, <3>5, <3>6 DEF InTimeOrder
    <2> QED
      BY <2>1, <2>2
  <1> QED
    BY <1>1, <1>2, <1>3

-----------------------------------------------------------------------------

LEMMA NextInv == Inv /\ [Next]_vars => Inv'
  <1> SUFFICES ASSUME Inv, [Next]_vars PROVE Inv'
    OBVIOUS
  <1> USE DEF Inv
  <1>0. \A list \in Seq(Requests) : requests' = list /\ InTimeOrder(list) /\ now' \in Nat => Inv'
    BY DEF InTimeOrder, Sorted, Positions
  <1>u. requests' = requests /\ now' \in Nat => Inv'
    BY DEF Sorted, Positions
  <1>1. ASSUME NEW s \in Subscribers, NEW ms \in Delays, RequestTimeout(s, ms)
        PROVE  Inv'
    <2> DEFINE req == [sub |-> s, when |-> now + ms]
    <2>1. req \in Requests
      BY ProviderConstants DEF Requests
    <2>2. requests' = Inserted(req) /\ now' = now
      BY <1>1 DEF RequestTimeout
    <2> QED
      BY <1>0, <2>1, <2>2, InsertedInOrder
  <1>2. ASSUME NEW s \in Subscribers, CancelRequest(s)
        PROVE  Inv'
    <2>1. PICK p \in InOrder(Positions \ Of(s)) : requests' = [i \in DOMAIN p |-> requests[p[i]]]
      BY <1>2 DEF CancelRequest
    <2>2. PICK n \in 0..Len(requests) : p \in [1..n -> Positions]
      BY DEF InOrder
    <2>3. \A i, j \in 1..n : i < j => p[i] < p[j]
      BY <2>2 DEF InOrder
    <2>4. requests' \in Seq(Requests)
      BY <2>1, <2>2 DEF Positions
    <2>5. Len(requests') = n /\ \A i \in 1..n : requests'[i] = requests[p[i]]
      BY <2>1, <2>2
    <2>6. \A i, j \in 1..n : i < j => requests[p[i]].when <= requests[p[j]].when
      BY <2>2, <2>3 DEF Sorted
    <2> QED
      BY <1>2, <2>4, <2>5, <2>6 DEF CancelRequest, Sorted, Positions
  <1>3. CASE TakeDue
    <2>1. now' = now
      BY <1>3 DEF TakeDue
    <2>2. CASE stop
      BY <1>3, <1>u, <2>1, <2>2 DEF TakeDue
    <2>3. CASE ~stop
      <3>1. requests # <<>> /\ requests' = Tail(requests)
        BY <1>3, <2>3 DEF TakeDue, Due
      <3>2. /\ requests' \in Seq(Requests) /\ Len(requests') = Len(requests) - 1
            /\ \A i \in 1..Len(requests') : requests'[i] = requests[i + 1]
        BY <3>1
      <3> QED
        BY <2>1, <3>1, <3>2 DEF Sorted, Positions
    <2> QED
      BY <2>2, <2>3
  <1>4. CASE Tick
    BY <1>4, <1>u DEF Tick
  <1>5. CASE StopThread \/ NothingDue \/ Delivered \/ ResetAndWait \/ WakeUp \/ UNCHANGED vars
    BY <1>5, <1>u DEF StopThread, NothingDue, Delivered, ResetAndWait, WakeUp, vars
  <1> QED
    BY <1>1, <1>2, <1>3, <1>4, <1>5 DEF Next, Run

\* However many streams request timeouts and cancel them while the thread delivers,
\* the list stays in the order of expiry ("Nearest in future is first in list"), so
\* that the thread, which looks at the first entry only, sees the next one due.
THEOREM SortedHolds == Spec => []Sorted
  <1>1. Init => Inv
    BY DEF Init, Inv, Sorted, Positions
  <1>2. Inv => Sorted
    BY DEF Inv
  <1> QED
    BY <1>1, <1>2, NextInv, PTL DEF Spec
=============================================================================
