-------------------------- MODULE HostCommand_proofs --------------------------
(***************************************************************************)
(* For any number of callers, of ids and of calls: no command is freed     *)
(* while the proxy can reach it; ids are unique as long as no caller is    *)
(* interrupted and ids do not run out; and when no caller gives up on a    *)
(* request the firmware still works on, each gets the answer to its own    *)
(* and keeps its page meanwhile.                                           *)
(***************************************************************************)
EXTENDS HostCommand, FiniteSetTheorems, FunctionTheorems, SequenceTheorems,
        WellFoundedInduction, TLAPS

------------------------------------------------------------------------------
(* A command taken off a list on which each stands once.                   *)

Distinct(s) == \A i, j \in DOMAIN s : s[i] = s[j] => i = j

LEMMA MinOfNat ==
  ASSUME NEW T \in SUBSET Nat, T # {}
  PROVE  Min(T) \in T /\ \A y \in T : Min(T) <= y
<1> DEFINE R == {p \in Nat \X Nat : p[1] < p[2]}
<1>1. IsWellFoundedOn(R, Nat)
  BY NatLessThanWellFounded, Zenon DEF OpToRel
<1> HIDE DEF R
<1>2. PICK x \in T : \A y \in T : ~ (<<y, x>> \in R)
  BY <1>1, WFMin
<1>3. \A y \in T : x <= y
  <2> TAKE y \in T
  <2>1. x \in Nat /\ y \in Nat /\ <<y, x>> \notin R
    BY <1>2
  <2>2. ~(y < x)
    BY <2>1 DEF R
  <2> QED BY <2>1, <2>2
<1> QED BY <1>3 DEF Min

LEMMA RemovedFirst ==
  ASSUME NEW S, NEW s \in Seq(S), NEW e
  PROVE  /\ RemoveFirst(s, e) \in Seq(S)
         /\ ToSet(RemoveFirst(s, e)) \subseteq ToSet(s)
         /\ Distinct(s) => Distinct(RemoveFirst(s, e)) /\ ToSet(RemoveFirst(s, e)) = ToSet(s) \ {e}
<1>1. s \in Seq(S) /\ Len(s) \in Nat /\ DOMAIN s = 1 .. Len(s)
  BY LenProperties
<1>2. CASE ~\E i \in 1 .. Len(s) : s[i] = e
  <2>1. RemoveFirst(s, e) = s
    BY <1>2 DEF RemoveFirst
  <2>2. ToSet(s) = ToSet(s) \ {e}
    BY <1>1, <1>2 DEF ToSet
  <2> QED BY <2>1, <2>2
<1>3. CASE \E i \in 1 .. Len(s) : s[i] = e
  <2> DEFINE I == {i \in 1 .. Len(s) : s[i] = e}
             n == Min(I)
             a == SubSeq(s, 1, n - 1)
             b == SubSeq(s, n + 1, Len(s))
  <2>1. n \in I /\ \A i \in I : n <= i
    <3>1. I \in SUBSET Nat /\ I # {}
      BY <1>3
    <3> HIDE DEF I
    <3> QED BY <3>1, MinOfNat
  <2>2. RemoveFirst(s, e) = a \o b
    BY <1>3 DEF RemoveFirst, RemoveAt, SelectInSeq
  <2>3. n \in 1 .. Len(s) /\ s[n] = e
    BY <2>1
  <2> HIDE DEF n
  <2>4. /\ a \in Seq(S) /\ Len(a) = n - 1 /\ \A i \in 1 .. n - 1 : a[i] = s[i]
        /\ b \in Seq(S) /\ Len(b) = Len(s) - n /\ \A i \in 1 .. Len(s) - n : b[i] = s[n + i]
    <3>1. \A i \in 1 .. n - 1 : s[i] \in S
      BY <1>1, <2>3
    <3>2. \A i \in n + 1 .. Len(s) : s[i] \in S
      BY <1>1, <2>3
    <3>3. /\ a \in Seq(S) /\ Len(a) = (IF 1 <= n - 1 THEN n - 1 - 1 + 1 ELSE 0)
          /\ \A i \in 1 .. n - 1 - 1 + 1 : a[i] = s[1 + i - 1]
      BY <1>1, <2>3, <3>1, SubSeqProperties
    <3>4. /\ b \in Seq(S) /\ Len(b) = (IF n + 1 <= Len(s) THEN Len(s) - (n + 1) + 1 ELSE 0)
          /\ \A i \in 1 .. Len(s) - (n + 1) + 1 : b[i] = s[n + 1 + i - 1]
      BY <1>1, <2>3, <3>2, SubSeqProperties
    <3> HIDE DEF a, b
    <3>5. Len(a) = n - 1 /\ Len(b) = Len(s) - n
      BY <1>1, <2>3, <3>3, <3>4
    <3>6. \A i \in 1 .. n - 1 : a[i] = s[i]
      BY <1>1, <2>3, <3>3
    <3>7. \A i \in 1 .. Len(s) - n : b[i] = s[n + i]
      <4> TAKE i \in 1 .. Len(s) - n
      <4>1. i \in 1 .. Len(s) - (n + 1) + 1 /\ n + 1 + i - 1 = n + i
        BY <1>1, <2>3
      <4>2. b[i] = s[n + 1 + i - 1]
        BY <4>1, <3>4
      <4> QED BY <4>1, <4>2, Zenon
    <3> QED BY <3>3, <3>4, <3>5, <3>6, <3>7
  <2> DEFINE r == a \o b
  <2>5. /\ r \in Seq(S) /\ Len(r) = Len(s) - 1
        /\ \A i \in 1 .. Len(s) - 1 : r[i] = IF i < n THEN s[i] ELSE s[i + 1]
    <3> HIDE DEF a, b
    <3>1. /\ r \in Seq(S) /\ Len(r) = Len(a) + Len(b)
          /\ \A i \in 1 .. Len(a) + Len(b) : r[i] = IF i <= Len(a) THEN a[i] ELSE b[i - Len(a)]
      BY <2>4, ConcatProperties
    <3> HIDE DEF r
    <3>2. Len(r) = Len(s) - 1
      BY <3>1, <2>3, <2>4, <1>1
    <3>3. ASSUME NEW i \in 1 .. Len(s) - 1 PROVE r[i] = IF i < n THEN s[i] ELSE s[i + 1]
      <4>0. i \in 1 .. Len(a) + Len(b) /\ i \in Int /\ n \in Int /\ Len(a) = n - 1
        BY <2>3, <2>4, <1>1
      <4>1. CASE i < n
        <5>1. i <= Len(a) /\ i \in 1 .. n - 1
          BY <4>0, <4>1
        <5> QED BY <4>0, <4>1, <5>1, <3>1, <2>4
      <4>2. CASE i >= n
        <5>1. /\ i - (n - 1) \in 1 .. Len(s) - n /\ n + (i - (n - 1)) = i + 1
              /\ ~(i <= Len(a)) /\ i - Len(a) = i - (n - 1) /\ ~(i < n)
          BY <4>0, <4>2, <2>3, <1>1
        <5>2. r[i] = b[i - Len(a)]
          BY <4>0, <5>1, <3>1
        <5>3. b[i - (n - 1)] = s[n + (i - (n - 1))]
          BY <5>1, <2>4
        <5> QED BY <5>1, <5>2, <5>3
      <4> QED BY <4>0, <4>1, <4>2
    <3> QED BY <3>1, <3>2, <3>3
  <2>6. DOMAIN r = 1 .. Len(s) - 1
    BY <2>5, LenProperties
  <2> HIDE DEF r
  <2>7. ToSet(r) \subseteq ToSet(s)
    BY <1>1, <2>3, <2>5, <2>6 DEF ToSet
  <2>8. ASSUME Distinct(s) PROVE Distinct(r) /\ ToSet(r) = ToSet(s) \ {e}
    <3>1. Distinct(r)
      <4> SUFFICES ASSUME NEW i \in 1 .. Len(s) - 1, NEW j \in 1 .. Len(s) - 1, r[i] = r[j]
                   PROVE  i = j
        BY <2>6 DEF Distinct
      <4>1. s[IF i < n THEN i ELSE i + 1] = s[IF j < n THEN j ELSE j + 1]
        BY <2>5
      <4>2. (IF i < n THEN i ELSE i + 1) = (IF j < n THEN j ELSE j + 1)
        BY <4>1, <2>8, <1>1, <2>3 DEF Distinct
      <4> QED BY <4>2, <2>3, <1>1
    <3>2. e \notin ToSet(r)
      <4> SUFFICES ASSUME NEW i \in 1 .. Len(s) - 1, r[i] = e PROVE FALSE
        BY <2>6 DEF ToSet
      <4>1. s[IF i < n THEN i ELSE i + 1] = s[n]
        BY <2>3, <2>5
      <4>2. (IF i < n THEN i ELSE i + 1) = n
        BY <4>1, <2>8, <1>1, <2>3 DEF Distinct
      <4> QED BY <4>2, <2>3, <1>1
    <3>3. ASSUME NEW x \in ToSet(s), x # e PROVE x \in ToSet(r)
      <4>1. PICK i \in 1 .. Len(s) : s[i] = x
        BY <1>1, <3>3 DEF ToSet
      <4>2. CASE i < n
        BY <4>1, <4>2, <1>1, <2>3, <2>5, <2>6 DEF ToSet
      <4>3. CASE i > n
        <5>1. i - 1 \in 1 .. Len(s) - 1 /\ r[i - 1] = x
          BY <4>1, <4>3, <1>1, <2>3, <2>5
        <5> QED BY <5>1, <2>6 DEF ToSet
      <4> QED BY <4>1, <4>2, <4>3, <3>3, <2>3, <1>1
    <3> QED BY <3>1, <3>2, <3>3, <2>7
  <2> QED BY <2>2, <2>5, <2>7, <2>8 DEF r
<1> QED BY <1>2, <1>3

------------------------------------------------------------------------------
(* Types.                                                                  *)

Called  == \A t \in Thread : pc[t] # "idle" => call[t] \in 1 .. MaxCalls
TypeInv == TypeOK /\ Called

LEMMA InitType == Init => TypeInv
BY HostCommandAssumption DEF Init, TypeInv, TypeOK, Called, AllPhases, AllKinds, Cid

LEMMA RequestTyped ==
  ASSUME TypeInv, NEW t \in Thread, pc[t] # "idle"
  PROVE  RequestOf(t) \in Request
<1>1. PageOf(kind[t]) \in Page \cup {None}
  BY DEF PageOf, Page
<1> QED BY <1>1 DEF TypeInv, TypeOK, Called, RequestOf, Request

LEMMA NextType == TypeInv /\ [Next]_vars => TypeInv'
<1> SUFFICES ASSUME TypeInv, [Next]_vars PROVE TypeInv'
  OBVIOUS
<1>1. ASSUME NEW t \in Thread, NEW k \in KindsOf(t), Submit(t, k) PROVE TypeInv'
  <2>1. k \in AllKinds /\ 0 \in Cid
    BY HostCommandAssumption DEF KindsOf, AllKinds, Cid
  <2>2. call' \in [Thread -> 0 .. MaxCalls] /\ call'[t] \in 1 .. MaxCalls
    BY <1>1, HostCommandAssumption DEF Submit, TypeInv, TypeOK
  <2>3. pc' \in [Thread -> AllPhases]
    BY <1>1 DEF Submit, TypeInv, TypeOK, Goto, AllPhases
  <2> QED BY <1>1, <2>1, <2>2, <2>3 DEF Submit, TypeInv, TypeOK, Called, Goto, channel
<1>2. ASSUME NEW t \in Thread, AcquirePage(t) PROVE TypeInv'
  BY <1>2 DEF AcquirePage, TypeInv, TypeOK, Called, AllPhases, Goto, locals, proxy, channel
<1>3. ASSUME NEW t \in Thread, AcquireInterrupted(t) PROVE TypeInv'
  BY <1>3 DEF AcquireInterrupted, TypeInv, TypeOK, Called, AllPhases, Goto, locals, proxy, channel
<1>4. ASSUME NEW t \in Thread, AllocCid(t) PROVE TypeInv'
  <2>1. PICK c \in Cid : /\ cid' = [cid EXCEPT ![t] = c] /\ usedCids' = usedCids \cup {c}
                       /\ nextCid' = (c + 1) % (MaxCid + 1)
    BY <1>4 DEF AllocCid
  <2>2. nextCid' \in Cid
    BY <2>1, HostCommandAssumption DEF Cid
  <2> QED BY <1>4, <2>1, <2>2 DEF AllocCid, TypeInv, TypeOK, Called, AllPhases, Goto, locals, proxy, channel
<1>5. ASSUME NEW t \in Thread, NoFreeCid(t) PROVE TypeInv'
  BY <1>5 DEF NoFreeCid, TypeInv, TypeOK, Called, AllPhases, Goto, locals, proxy, channel
<1>6. ASSUME NEW t \in Thread, TakeCmdLock(t) PROVE TypeInv'
  BY <1>6 DEF TakeCmdLock, TypeInv, TypeOK, Called, AllPhases, Goto, locals, proxy, channel
<1>7. ASSUME NEW t \in Thread, WriteRequest(t) PROVE TypeInv'
  <2>1. RequestOf(t) \in Request
    BY <1>7, RequestTyped DEF WriteRequest
  <2> QED BY <1>7, <2>1 DEF WriteRequest, TypeInv, TypeOK, Called, AllPhases, Goto, locals, proxy, channel
<1>8. ASSUME NEW t \in Thread, WriteFails(t) PROVE TypeInv'
  BY <1>8 DEF WriteFails, TypeInv, TypeOK, Called, AllPhases, Goto, locals, proxy, channel
<1>9. ASSUME NEW t \in Thread, Enlist(t) PROVE TypeInv'
  BY <1>9 DEF Enlist, TypeInv, TypeOK, Called, AllPhases, Goto, locals, proxy, channel
<1>10. ASSUME NEW t \in Thread, ReleaseCmdLock(t) PROVE TypeInv'
  BY <1>10 DEF ReleaseCmdLock, TypeInv, TypeOK, Called, AllPhases, Goto, locals, proxy, channel
<1>11. ASSUME NEW t \in Thread, Wake(t) PROVE TypeInv'
  BY <1>11 DEF Wake, TypeInv, TypeOK, Called, AllPhases, Goto, locals, proxy, channel
<1>12. ASSUME NEW t \in Thread, CheckResult(t) PROVE TypeInv'
  BY <1>12 DEF CheckResult, TypeInv, TypeOK, Called, AllPhases, Goto, locals, proxy, channel
<1>13. ASSUME NEW t \in Thread, FindInstance(t) PROVE TypeInv'
  BY <1>13 DEF FindInstance, TypeInv, TypeOK, Called, AllPhases, Goto, locals, proxy, channel
<1>14. ASSUME NEW t \in Thread, RemoveSubmitted(t) PROVE TypeInv'
  <2>1. RemoveFirst(submitted, t) \in Seq(Thread)
    BY RemovedFirst DEF TypeInv, TypeOK
  <2> QED BY <1>14, <2>1 DEF RemoveSubmitted, TypeInv, TypeOK, Called, AllPhases, Goto, locals, proxy, channel
<1>15. ASSUME NEW t \in Thread, Fetch(t) PROVE TypeInv'
  BY <1>15 DEF Fetch, TypeInv, TypeOK, Called, AllPhases, Goto, locals, proxy, channel
<1>16. ASSUME NEW t \in Thread, FreeCid(t) PROVE TypeInv'
  BY <1>16 DEF FreeCid, TypeInv, TypeOK, Called, AllPhases, Goto, locals, proxy, channel
<1>17. ASSUME NEW t \in Thread, FreePage(t) PROVE TypeInv'
  <2>1. pageOwner' \in [Page -> Thread \cup {None}]
    BY <1>17 DEF FreePage, TypeInv, TypeOK
  <2>2. kind' \in [Thread -> AllKinds] /\ cid' \in [Thread -> Cid]
    BY <1>17, HostCommandAssumption DEF FreePage, TypeInv, TypeOK, AllKinds, Cid
  <2> QED BY <1>17, <2>1, <2>2 DEF FreePage, TypeInv, TypeOK, Called, AllPhases, Goto, channel
<1>18. ASSUME NEW t \in Thread, Killed(t) PROVE TypeInv'
  BY <1>18 DEF Killed, TypeInv, TypeOK, Called, AllPhases, Goto, locals, proxy, channel
<1>19. ASSUME NEW t \in Thread, Expire(t) PROVE TypeInv'
  BY <1>19 DEF Expire, TypeInv, TypeOK, Called, AllPhases, Goto, locals, proxy, channel
<1>20. ASSUME NEW t \in Thread, CompleteCommand(t) PROVE TypeInv'
  <2>1. RemoveFirst(submitted, t) \in Seq(Thread)
    BY RemovedFirst DEF TypeInv, TypeOK
  <2> QED BY <1>20, <2>1 DEF CompleteCommand, TypeInv, TypeOK, Called, AllPhases, Goto, locals, proxy, channel
<1>21. ASSUME NEW t \in Thread, SignalTimeout(t) PROVE TypeInv'
  BY <1>21 DEF SignalTimeout, TypeInv, TypeOK, Called, AllPhases, Goto, locals, proxy, channel
<1>22. ASSUME NEW t \in Thread, MarkTimedOut(t) PROVE TypeInv'
  <2>1. RemoveFirst(submitted, t) \in Seq(Thread)
    BY RemovedFirst DEF TypeInv, TypeOK
  <2> QED BY <1>22, <2>1 DEF MarkTimedOut, TypeInv, TypeOK, Called, AllPhases, Goto, locals, proxy, channel
<1>23. ASSUME NEW r \in pending, FwAnswer(r) PROVE TypeInv'
  BY <1>23 DEF FwAnswer, TypeInv, TypeOK, Called, AllPhases, Goto, locals, proxy, channel
<1>24. CASE ReadCompletion
  <2>1. completions # <<>> => Head(completions) \in Request /\ Tail(completions) \in Seq(Request)
    BY HeadTailProperties DEF TypeInv, TypeOK
  <2> QED BY <1>24, <2>1 DEF ReadCompletion, TypeInv, TypeOK, Called, AllPhases, Goto, locals, proxy, channel
<1>25. CASE DropCompletion
  BY <1>25 DEF DropCompletion, TypeInv, TypeOK, Called, AllPhases, Goto, locals, proxy, channel
<1>26. CASE CheckTimeouts
  BY <1>26 DEF CheckTimeouts, TypeInv, TypeOK, Called, AllPhases, Goto, locals, proxy, channel
<1>27. CASE StopServices
  BY <1>27 DEF StopServices, TypeInv, TypeOK, Called, AllPhases, Goto, locals, proxy, channel
<1>28. CASE Drain
  BY <1>28 DEF Drain, TypeInv, TypeOK, Called, AllPhases, Goto, locals, proxy, channel
<1>29. CASE Drained
  BY <1>29 DEF Drained, TypeInv, TypeOK, Called, AllPhases, Goto, locals, proxy, channel
<1>30. CASE CloseInstance
  BY <1>30 DEF CloseInstance, TypeInv, TypeOK, Called, AllPhases, Goto, locals, proxy, channel
<1>31. CASE UNCHANGED vars
  BY <1>31 DEF vars, TypeInv, TypeOK, Called, AllPhases, Goto, locals, proxy, channel
<1> QED BY <1>1, <1>2, <1>3, <1>4, <1>5, <1>6, <1>7, <1>8, <1>9, <1>10, <1>11, <1>12, <1>13,
          <1>14, <1>15, <1>16, <1>17, <1>18, <1>19, <1>20, <1>21, <1>22, <1>23, <1>24, <1>25,
          <1>26, <1>27, <1>28, <1>29, <1>30, <1>31
      DEF Next, Before, Send, Finish, Respond, Close

------------------------------------------------------------------------------
(* The list of submitted commands.                                         *)

(* Where a caller is on its way to the list; the close of the service may  *)
(* not overtake it there.                                                  *)
Sending    == {"page", "cid", "lock", "write", "enlist"}
QuietClose == CloseUnder \cap Sending = {}

Quiet ==
  /\ closing # "open" => \A t \in Thread : pc[t] \notin Sending
  /\ closing \in {"stop", "closed"} => submitted = <<>> /\ scanning = {}
Unsignalled ==
  /\ \A t \in ToSet(submitted) : signal[t] # "answered"
  /\ \A t \in Thread : pc[t] \in Sending => signal[t] = None
ListInv ==
  /\ Distinct(submitted) /\ scanning \subseteq ToSet(submitted)
  /\ CommandsAllocated /\ Quiet /\ Unsignalled

LEMMA Appended ==
  ASSUME NEW S, NEW s \in Seq(S), NEW e \in S
  PROVE  /\ ToSet(Append(s, e)) = ToSet(s) \cup {e}
         /\ e \notin ToSet(s) /\ Distinct(s) => Distinct(Append(s, e))
<1>1. /\ DOMAIN s = 1 .. Len(s) /\ Len(s) \in Nat
      /\ DOMAIN Append(s, e) = 1 .. Len(s) + 1
      /\ \A i \in 1 .. Len(s) : Append(s, e)[i] = s[i]
      /\ Append(s, e)[Len(s) + 1] = e
  BY AppendProperties, LenProperties
<1> DEFINE r == Append(s, e)
<1> HIDE DEF r
<1>2. ToSet(r) = ToSet(s) \cup {e}
  BY <1>1 DEF ToSet, r
<1>3. ASSUME e \notin ToSet(s), Distinct(s) PROVE Distinct(r)
  BY <1>1, <1>3 DEF Distinct, ToSet, r
<1> QED BY <1>2, <1>3 DEF r

LEMMA NothingListed == ToSet(<<>>) = {}
BY DEF ToSet

LEMMA RemovedNone == ASSUME NEW e PROVE RemoveFirst(<<>>, e) = <<>>
BY DEF RemoveFirst

LEMMA InitList == Init => ListInv
<1> SUFFICES ASSUME Init PROVE ListInv
  OBVIOUS
<1>1. Distinct(submitted)
  BY EmptySeq DEF Init, Distinct
<1> QED BY <1>1, NothingListed
        DEF Init, ListInv, Quiet, Unsignalled, CommandsAllocated, Sending

LEMMA NextList ==
  ASSUME QuietClose
  PROVE  TypeInv /\ ListInv /\ [Next]_vars => ListInv'
<1> SUFFICES ASSUME TypeInv, ListInv, [Next]_vars PROVE ListInv'
  OBVIOUS
<1>1. ASSUME NEW t \in Thread, NEW k \in KindsOf(t), Submit(t, k) PROVE ListInv'
  BY <1>1 DEF Submit, ListInv, Quiet, Unsignalled, CommandsAllocated, Sending, Goto, channel, TypeInv, TypeOK
<1>2. ASSUME NEW t \in Thread, AcquirePage(t) PROVE ListInv'
  BY <1>2 DEF AcquirePage, ListInv, Quiet, Unsignalled, CommandsAllocated, Sending, Goto, locals, proxy, channel
<1>3. ASSUME NEW t \in Thread, AcquireInterrupted(t) PROVE ListInv'
  BY <1>3 DEF AcquireInterrupted, ListInv, Quiet, Unsignalled, CommandsAllocated, Sending, Goto, locals, proxy, channel
<1>4. ASSUME NEW t \in Thread, AllocCid(t) PROVE ListInv'
  BY <1>4 DEF AllocCid, ListInv, Quiet, Unsignalled, CommandsAllocated, Sending, Goto, locals, proxy, channel
<1>5. ASSUME NEW t \in Thread, NoFreeCid(t) PROVE ListInv'
  BY <1>5 DEF NoFreeCid, ListInv, Quiet, Unsignalled, CommandsAllocated, Sending, Goto, locals, proxy, channel
<1>6. ASSUME NEW t \in Thread, TakeCmdLock(t) PROVE ListInv'
  BY <1>6 DEF TakeCmdLock, ListInv, Quiet, Unsignalled, CommandsAllocated, Sending, Goto, locals, proxy, channel
<1>7. ASSUME NEW t \in Thread, WriteRequest(t) PROVE ListInv'
  BY <1>7 DEF WriteRequest, ListInv, Quiet, Unsignalled, CommandsAllocated, Sending, Goto, locals, proxy, channel
<1>8. ASSUME NEW t \in Thread, WriteFails(t) PROVE ListInv'
  BY <1>8 DEF WriteFails, ListInv, Quiet, Unsignalled, CommandsAllocated, Sending, Goto, locals, proxy, channel
<1>9. ASSUME NEW t \in Thread, Enlist(t) PROVE ListInv'
  <2>1. t \notin ToSet(submitted) /\ t \notin scanning
    BY <1>9 DEF Enlist, ListInv, CommandsAllocated
  <2>2. /\ ToSet(submitted') = ToSet(submitted) \cup {t}
        /\ Distinct(submitted')
    BY <1>9, <2>1, Appended DEF Enlist, ListInv, TypeInv, TypeOK
  <2>3. closing = "open"
    BY <1>9 DEF Enlist, ListInv, Quiet, Sending, TypeInv, TypeOK
  <2>4. CommandsAllocated'
    BY <1>9, <2>1, <2>2 DEF Enlist, CommandsAllocated, ListInv, Goto, TypeInv, TypeOK
  <2>5. Quiet'
    BY <1>9, <2>3 DEF Enlist, Quiet
  <2>6. Unsignalled'
    BY <1>9, <2>2 DEF None, Enlist, Unsignalled, ListInv, Goto, Sending, TypeInv, TypeOK
  <2> QED BY <1>9, <2>2, <2>4, <2>5, <2>6 DEF Enlist, ListInv
<1>10. ASSUME NEW t \in Thread, ReleaseCmdLock(t) PROVE ListInv'
  BY <1>10 DEF ReleaseCmdLock, ListInv, Quiet, Unsignalled, CommandsAllocated, Sending, Goto, locals, proxy, channel
<1>11. ASSUME NEW t \in Thread, Wake(t) PROVE ListInv'
  BY <1>11 DEF Wake, ListInv, Quiet, Unsignalled, CommandsAllocated, Sending, Goto, locals, proxy, channel
<1>12. ASSUME NEW t \in Thread, CheckResult(t) PROVE ListInv'
  BY <1>12 DEF CheckResult, ListInv, Quiet, Unsignalled, CommandsAllocated, Sending, Goto, locals, proxy, channel
<1>13. ASSUME NEW t \in Thread, FindInstance(t) PROVE ListInv'
  BY <1>13, NothingListed DEF FindInstance, ListInv, Quiet, Unsignalled, CommandsAllocated, Sending, Goto, locals, proxy, channel
<1>14. ASSUME NEW t \in Thread, RemoveSubmitted(t) PROVE ListInv'
  <2>1. ToSet(submitted') = ToSet(submitted) \ {t} /\ Distinct(submitted')
    BY <1>14, RemovedFirst DEF RemoveSubmitted, ListInv, TypeInv, TypeOK
  <2>2. submitted = <<>> => submitted' = <<>>
    BY <1>14, RemovedNone DEF RemoveSubmitted
  <2> QED BY <1>14, <2>1, <2>2 DEF RemoveSubmitted, ListInv, Quiet, Unsignalled, CommandsAllocated, Sending, Goto, ProxyUnlocked, locals, TypeInv, TypeOK
<1>15. ASSUME NEW t \in Thread, Fetch(t) PROVE ListInv'
  BY <1>15 DEF Fetch, ListInv, Quiet, Unsignalled, CommandsAllocated, Sending, Goto, locals, proxy, channel
<1>16. ASSUME NEW t \in Thread, FreeCid(t) PROVE ListInv'
  BY <1>16 DEF FreeCid, ListInv, Quiet, Unsignalled, CommandsAllocated, Sending, Goto, locals, proxy, channel
<1>17. ASSUME NEW t \in Thread, FreePage(t) PROVE ListInv'
  BY <1>17 DEF FreePage, ListInv, Quiet, Unsignalled, CommandsAllocated, Sending, Goto, locals, proxy, channel
<1>18. ASSUME NEW t \in Thread, Killed(t) PROVE ListInv'
  BY <1>18 DEF Killed, ListInv, Quiet, Unsignalled, CommandsAllocated, Sending, Goto, locals, proxy, channel
<1>19. ASSUME NEW t \in Thread, Expire(t) PROVE ListInv'
  BY <1>19 DEF Expire, ListInv, Quiet, Unsignalled, CommandsAllocated, Sending, Goto, locals, proxy, channel
<1>20. ASSUME NEW t \in Thread, CompleteCommand(t) PROVE ListInv'
  <2>1. ToSet(submitted') = ToSet(submitted) \ {t} /\ Distinct(submitted')
    BY <1>20, RemovedFirst DEF CompleteCommand, ListInv, TypeInv, TypeOK
  <2>2. submitted = <<>> => submitted' = <<>>
    BY <1>20, RemovedNone DEF CompleteCommand
  <2>3. t \in ToSet(submitted)
    BY <1>20 DEF CompleteCommand, FirstMatch, First, ToSet
  <2>4. CommandsAllocated' /\ Quiet'
    BY <1>20, <2>1, <2>2 DEF CompleteCommand, CommandsAllocated, Quiet, ListInv
  <2>5. pc[t] \notin Sending
    BY <2>3 DEF ListInv, CommandsAllocated, Sending
  <2>6. Unsignalled'
    BY <1>20, <2>1, <2>5 DEF CompleteCommand, Unsignalled, ListInv, TypeInv, TypeOK
  <2>7. scanning' \subseteq ToSet(submitted')
    BY <1>20 DEF CompleteCommand, ProxyUnlocked
  <2> QED BY <2>1, <2>4, <2>6, <2>7 DEF ListInv
<1>21. ASSUME NEW t \in Thread, SignalTimeout(t) PROVE ListInv'
  <2>1. t \in ToSet(submitted)
    BY <1>21 DEF SignalTimeout, First, ToSet
  <2>2. pc[t] \notin Sending
    BY <2>1 DEF ListInv, CommandsAllocated, Sending
  <2>3. Unsignalled'
    BY <1>21, <2>1, <2>2 DEF SignalTimeout, Unsignalled, ListInv, TypeInv, TypeOK
  <2> QED BY <1>21, <2>3 DEF SignalTimeout, ListInv, CommandsAllocated, Quiet
<1>22. ASSUME NEW t \in Thread, MarkTimedOut(t) PROVE ListInv'
  <2>1. t \in ToSet(submitted)
    BY <1>22 DEF MarkTimedOut, First, ToSet
  <2>2. \/ submitted' = submitted
        \/ ToSet(submitted') = ToSet(submitted) \ {t} /\ Distinct(submitted')
    BY <1>22, RemovedFirst DEF MarkTimedOut, ListInv, TypeInv, TypeOK
  <2>3. submitted = <<>> => submitted' = <<>>
    BY <1>22, RemovedNone DEF MarkTimedOut
  <2> QED BY <1>22, <2>1, <2>2, <2>3 DEF MarkTimedOut, ListInv, Quiet, Unsignalled, CommandsAllocated, Sending, Goto, locals, channel, TypeInv, TypeOK
<1>23. ASSUME NEW r \in pending, FwAnswer(r) PROVE ListInv'
  BY <1>23 DEF FwAnswer, ListInv, Quiet, Unsignalled, CommandsAllocated, Sending, Goto, locals, proxy, channel
<1>24. CASE ReadCompletion
  BY <1>24 DEF ReadCompletion, ListInv, Quiet, Unsignalled, CommandsAllocated, Sending, Goto, locals, proxy, channel
<1>25. CASE DropCompletion
  BY <1>25 DEF DropCompletion, ListInv, Quiet, Unsignalled, CommandsAllocated, Sending, Goto, locals, proxy, channel
<1>26. CASE CheckTimeouts
  BY <1>26, NothingListed DEF CheckTimeouts, ListInv, Quiet, Unsignalled, CommandsAllocated, Sending, Goto, locals, channel
<1>27. CASE StopServices
  BY <1>27 DEF StopServices, ListInv, Quiet, Unsignalled, CommandsAllocated, Sending, Goto, QuietClose, locals, proxy, channel
<1>28. CASE Drain
  BY <1>28, NothingListed DEF Drain, ListInv, Quiet, Unsignalled, CommandsAllocated, Sending, Goto, locals, channel
<1>29. CASE Drained
  BY <1>29 DEF Drained, ListInv, Quiet, Unsignalled, CommandsAllocated, Sending, Goto, ProxyUnlocked, locals, proxy, channel
<1>30. CASE CloseInstance
  BY <1>30 DEF CloseInstance, ListInv, Quiet, Unsignalled, CommandsAllocated, Sending, Goto, locals, proxy, channel
<1>31. CASE UNCHANGED vars
  BY <1>31 DEF vars, ListInv, Quiet, Unsignalled, CommandsAllocated, Sending, Goto, locals, proxy, channel
<1> QED BY <1>1, <1>2, <1>3, <1>4, <1>5, <1>6, <1>7, <1>8, <1>9, <1>10, <1>11, <1>12, <1>13,
          <1>14, <1>15, <1>16, <1>17, <1>18, <1>19, <1>20, <1>21, <1>22, <1>23, <1>24, <1>25,
          <1>26, <1>27, <1>28, <1>29, <1>30, <1>31
      DEF Next, Before, Send, Finish, Respond, Close

------------------------------------------------------------------------------
THEOREM TypesInductive == Spec => []TypeInv
BY InitType, NextType, PTL DEF Spec

(* Ids, calls, locks and lists stay in their types.                        *)
THEOREM Types == Spec => []TypeOK
<1>1. TypeInv => TypeOK
  BY DEF TypeInv
<1> QED BY <1>1, TypesInductive, PTL

THEOREM ListInductive ==
  ASSUME QuietClose
  PROVE  Spec => []ListInv
<1>1. Init => TypeInv /\ ListInv
  BY InitType, InitList
<1>2. TypeInv /\ ListInv /\ [Next]_vars => TypeInv' /\ ListInv'
  BY NextType, NextList
<1> QED BY <1>1, <1>2, PTL DEF Spec

(* A caller may be killed, interrupted, woken or timed out at any moment:  *)
(* what the proxy can still reach through its list, or signals in a scan,  *)
(* is a command that was not freed.                                        *)
THEOREM NeverFreedOnList ==
  ASSUME QuietClose
  PROVE  Spec => []CommandsAllocated
<1>1. ListInv => CommandsAllocated
  BY DEF ListInv
<1> QED BY <1>1, ListInductive, PTL

------------------------------------------------------------------------------
(* Command ids.                                                            *)

(* A caller that is interrupted before it has an id, or finds none free,   *)
(* gives back id 0, which may be another's.                                *)
IdsSuffice == "interrupt" \notin Fault /\ Cardinality(Thread) <= MaxCid + 1

CidsOwned == \A c \in usedCids : \E t \in Thread : InFlight(t) /\ cid[t] = c
CidInv    == (\A t \in Thread : pc[t] # "bail") /\ CidsUnique /\ CidsOwned

(* As many ids as callers: a caller without one finds one free.            *)
LEMMA CidLeft ==
  ASSUME IdsSuffice, CidInv, NEW t \in Thread, pc[t] = "cid", Cid \subseteq usedCids
  PROVE  FALSE
<1> DEFINE f == [c \in Cid |-> CHOOSE u \in Thread : InFlight(u) /\ cid[u] = c]
<1>1. \A c \in Cid : f[c] \in Thread /\ InFlight(f[c]) /\ cid[f[c]] = c
  BY DEF CidInv, CidsOwned
<1>2. f \in [Cid -> Thread \ {t}]
  BY <1>1 DEF InFlight
<1>3. \A b, c \in Cid : f[b] = f[c] => b = c
  BY <1>1
<1>4. f \in Injection(Cid, Thread \ {t})
  <2> HIDE DEF f
  <2> QED BY <1>2, <1>3, Fun_IsInj
<1>5. IsFiniteSet(Thread \ {t}) /\ Cardinality(Thread \ {t}) = Cardinality(Thread) - 1
  BY HostCommandAssumption, FS_RemoveElement
<1>6. Cardinality(Cid) <= Cardinality(Thread \ {t})
  BY <1>4, <1>5, FS_Injection
<1>7. Cardinality(Cid) = MaxCid + 1
  BY HostCommandAssumption, FS_Interval DEF Cid
<1>8. Cardinality(Thread) \in Nat /\ MaxCid \in Nat
  BY HostCommandAssumption, FS_CardinalityType
<1> QED BY <1>5, <1>6, <1>7, <1>8 DEF IdsSuffice

LEMMA InitCids == Init => CidInv
BY DEF Init, CidInv, CidsUnique, CidsOwned, InFlight

LEMMA NextCids ==
  ASSUME IdsSuffice
  PROVE  TypeInv /\ CidInv /\ [Next]_vars => CidInv'
<1> SUFFICES ASSUME TypeInv, CidInv, [Next]_vars PROVE CidInv'
  OBVIOUS
<1> "interrupt" \notin Fault
  BY DEF IdsSuffice
<1>1. ASSUME NEW t \in Thread, NEW k \in KindsOf(t), Submit(t, k) PROVE CidInv'
  <2>1. /\ ~InFlight(t) /\ ~InFlight(t)' /\ usedCids' = usedCids
        /\ \A u \in Thread \ {t} : cid'[u] = cid[u] /\ InFlight(u)' = InFlight(u)
    BY <1>1 DEF Submit, InFlight, Goto, TypeInv, TypeOK
  <2>2. CidsUnique' /\ CidsOwned'
    BY <2>1 DEF CidInv, CidsUnique, CidsOwned
  <2>3. \A u \in Thread : pc'[u] # "bail"
    BY <1>1 DEF Submit, CidInv, Goto, TypeInv, TypeOK
  <2> QED BY <2>2, <2>3 DEF CidInv
<1>2. ASSUME NEW t \in Thread, AcquirePage(t) PROVE CidInv'
  <2>1. /\ cid' = cid /\ usedCids' = usedCids
        /\ \A u \in Thread : InFlight(u)' = InFlight(u) /\ pc'[u] # "bail"
    BY <1>2 DEF AcquirePage, CidInv, InFlight, Goto, TypeInv, TypeOK, locals
  <2> QED BY <2>1 DEF CidInv, CidsUnique, CidsOwned
<1>3. ASSUME NEW t \in Thread, AcquireInterrupted(t) PROVE CidInv'
  BY <1>3 DEF AcquireInterrupted
<1>4. ASSUME NEW t \in Thread, AllocCid(t) PROVE CidInv'
  <2>1. PICK c \in Cid : /\ cid' = [cid EXCEPT ![t] = c] /\ usedCids' = usedCids \cup {c}
                       /\ c \notin usedCids
    BY <1>4 DEF AllocCid, IsNextFree
  <2>2. /\ cid'[t] = c /\ InFlight(t)' /\ ~InFlight(t)
        /\ \A u \in Thread \ {t} : cid'[u] = cid[u] /\ InFlight(u)' = InFlight(u)
    BY <1>4, <2>1 DEF AllocCid, InFlight, Goto, TypeInv, TypeOK
  <2>3. CidsUnique'
    BY <2>1, <2>2 DEF CidInv, CidsUnique
  <2>4. CidsOwned'
    BY <2>1, <2>2 DEF CidInv, CidsOwned
  <2>5. \A u \in Thread : pc'[u] # "bail"
    BY <1>4 DEF AllocCid, CidInv, Goto, TypeInv, TypeOK
  <2> QED BY <2>3, <2>4, <2>5 DEF CidInv
<1>5. ASSUME NEW t \in Thread, NoFreeCid(t) PROVE CidInv'
  BY <1>5, CidLeft DEF NoFreeCid
<1>6. ASSUME NEW t \in Thread, TakeCmdLock(t) PROVE CidInv'
  BY <1>6 DEF TakeCmdLock, CidInv, CidsUnique, CidsOwned, InFlight, Goto, TypeInv, TypeOK, locals
<1>7. ASSUME NEW t \in Thread, WriteRequest(t) PROVE CidInv'
  BY <1>7 DEF WriteRequest, CidInv, CidsUnique, CidsOwned, InFlight, Goto, TypeInv, TypeOK, locals
<1>8. ASSUME NEW t \in Thread, WriteFails(t) PROVE CidInv'
  BY <1>8 DEF WriteFails, CidInv, CidsUnique, CidsOwned, InFlight, Goto, TypeInv, TypeOK, locals
<1>9. ASSUME NEW t \in Thread, Enlist(t) PROVE CidInv'
  BY <1>9 DEF Enlist, CidInv, CidsUnique, CidsOwned, InFlight, Goto, TypeInv, TypeOK, locals
<1>10. ASSUME NEW t \in Thread, ReleaseCmdLock(t) PROVE CidInv'
  BY <1>10 DEF ReleaseCmdLock, CidInv, CidsUnique, CidsOwned, InFlight, Goto, TypeInv, TypeOK, locals
<1>11. ASSUME NEW t \in Thread, Wake(t) PROVE CidInv'
  BY <1>11 DEF Wake, CidInv, CidsUnique, CidsOwned, InFlight, Goto, TypeInv, TypeOK, locals
<1>12. ASSUME NEW t \in Thread, CheckResult(t) PROVE CidInv'
  BY <1>12 DEF CheckResult, CidInv, CidsUnique, CidsOwned, InFlight, Goto, TypeInv, TypeOK, locals
<1>13. ASSUME NEW t \in Thread, FindInstance(t) PROVE CidInv'
  BY <1>13 DEF FindInstance, CidInv, CidsUnique, CidsOwned, InFlight, Goto, TypeInv, TypeOK, locals
<1>14. ASSUME NEW t \in Thread, RemoveSubmitted(t) PROVE CidInv'
  BY <1>14 DEF RemoveSubmitted, CidInv, CidsUnique, CidsOwned, InFlight, Goto, TypeInv, TypeOK, locals
<1>15. ASSUME NEW t \in Thread, Fetch(t) PROVE CidInv'
  BY <1>15 DEF Fetch, CidInv, CidsUnique, CidsOwned, InFlight, Goto, TypeInv, TypeOK, locals
<1>16. ASSUME NEW t \in Thread, FreeCid(t) PROVE CidInv'
  <2>1. /\ InFlight(t) /\ ~InFlight(t)' /\ cid' = cid /\ usedCids' = usedCids \ {cid[t]}
        /\ \A u \in Thread \ {t} : InFlight(u)' = InFlight(u)
    BY <1>16 DEF FreeCid, CidInv, InFlight, Goto, TypeInv, TypeOK
  <2>2. CidsUnique'
    BY <2>1 DEF CidInv, CidsUnique
  <2>3. CidsOwned'
    BY <2>1 DEF CidInv, CidsOwned
  <2>4. \A u \in Thread : pc'[u] # "bail"
    BY <1>16 DEF FreeCid, CidInv, Goto, TypeInv, TypeOK
  <2> QED BY <2>2, <2>3, <2>4 DEF CidInv
<1>17. ASSUME NEW t \in Thread, FreePage(t) PROVE CidInv'
  <2>1. /\ ~InFlight(t) /\ ~InFlight(t)' /\ usedCids' = usedCids
        /\ \A u \in Thread \ {t} : cid'[u] = cid[u] /\ InFlight(u)' = InFlight(u)
    BY <1>17 DEF FreePage, InFlight, Goto, TypeInv, TypeOK
  <2>2. CidsUnique' /\ CidsOwned'
    BY <2>1 DEF CidInv, CidsUnique, CidsOwned
  <2>3. \A u \in Thread : pc'[u] # "bail"
    BY <1>17 DEF FreePage, CidInv, Goto, TypeInv, TypeOK
  <2> QED BY <2>2, <2>3 DEF CidInv
<1>18. ASSUME NEW t \in Thread, Killed(t) PROVE CidInv'
  BY <1>18 DEF Killed, CidInv, CidsUnique, CidsOwned, InFlight, Goto, TypeInv, TypeOK, locals
<1>19. ASSUME NEW t \in Thread, Expire(t) PROVE CidInv'
  BY <1>19 DEF Expire, CidInv, CidsUnique, CidsOwned, InFlight, locals
<1>20. ASSUME NEW t \in Thread, CompleteCommand(t) PROVE CidInv'
  BY <1>20 DEF CompleteCommand, CidInv, CidsUnique, CidsOwned, InFlight, locals
<1>21. ASSUME NEW t \in Thread, SignalTimeout(t) PROVE CidInv'
  BY <1>21 DEF SignalTimeout, CidInv, CidsUnique, CidsOwned, InFlight, locals
<1>22. ASSUME NEW t \in Thread, MarkTimedOut(t) PROVE CidInv'
  BY <1>22 DEF MarkTimedOut, CidInv, CidsUnique, CidsOwned, InFlight, locals
<1>23. ASSUME NEW r \in pending, FwAnswer(r) PROVE CidInv'
  BY <1>23 DEF FwAnswer, CidInv, CidsUnique, CidsOwned, InFlight, locals
<1>24. CASE ReadCompletion
  BY <1>24 DEF ReadCompletion, CidInv, CidsUnique, CidsOwned, InFlight, locals
<1>25. CASE DropCompletion
  BY <1>25 DEF DropCompletion, CidInv, CidsUnique, CidsOwned, InFlight, locals
<1>26. CASE CheckTimeouts
  BY <1>26 DEF CheckTimeouts, CidInv, CidsUnique, CidsOwned, InFlight, locals
<1>27. CASE StopServices
  BY <1>27 DEF StopServices, CidInv, CidsUnique, CidsOwned, InFlight, locals
<1>28. CASE Drain
  BY <1>28 DEF Drain, CidInv, CidsUnique, CidsOwned, InFlight, locals
<1>29. CASE Drained
  BY <1>29 DEF Drained, CidInv, CidsUnique, CidsOwned, InFlight, locals
<1>30. CASE CloseInstance
  BY <1>30 DEF CloseInstance, CidInv, CidsUnique, CidsOwned, InFlight, locals
<1>31. CASE UNCHANGED vars
  BY <1>31 DEF vars, CidInv, CidsUnique, CidsOwned, InFlight
<1> QED BY <1>1, <1>2, <1>3, <1>4, <1>5, <1>6, <1>7, <1>8, <1>9, <1>10, <1>11, <1>12, <1>13,
          <1>14, <1>15, <1>16, <1>17, <1>18, <1>19, <1>20, <1>21, <1>22, <1>23, <1>24, <1>25,
          <1>26, <1>27, <1>28, <1>29, <1>30, <1>31
      DEF Next, Before, Send, Finish, Respond, Close

THEOREM CidsInductive ==
  ASSUME IdsSuffice
  PROVE  Spec => []CidInv
<1>1. Init => TypeInv /\ CidInv
  BY InitType, InitCids
<1>2. TypeInv /\ CidInv /\ [Next]_vars => TypeInv' /\ CidInv'
  BY NextType, NextCids
<1> QED BY <1>1, <1>2, PTL DEF Spec

(* Callers may be killed, timed out and refused: as long as none is        *)
(* interrupted and ids suffice, a command's id is its own until it gives   *)
(* it back.                                                                *)
THEOREM UniqueCids ==
  ASSUME IdsSuffice
  PROVE  Spec => []CidsUnique
<1>1. CidInv => CidsUnique
  BY DEF CidInv
<1> QED BY <1>1, CidsInductive, PTL

------------------------------------------------------------------------------
(* The pages.                                                              *)

HoldsPage(t) == pc[t] = "cid" \/ InFlight(t)
Paged == \A t \in Thread :
  HoldsPage(t) /\ PageOf(kind[t]) # None => pageOwner[PageOf(kind[t])] = t

LEMMA InitPaged == Init => Paged
BY DEF Init, Paged, HoldsPage, InFlight

LEMMA NextPaged == TypeInv /\ Paged /\ [Next]_vars => Paged'
<1> SUFFICES ASSUME TypeInv, Paged, [Next]_vars PROVE Paged'
  OBVIOUS
<1>1. ASSUME NEW t \in Thread, NEW k \in KindsOf(t), Submit(t, k) PROVE Paged'
  <2>1. \A u \in Thread \ {t} : kind'[u] = kind[u] /\ HoldsPage(u)' = HoldsPage(u)
    BY <1>1 DEF Submit, HoldsPage, InFlight, Goto, TypeInv, TypeOK
  <2>2. PageOf(kind'[t]) # None => ~HoldsPage(t)'
    BY <1>1 DEF Submit, HoldsPage, InFlight, Goto, TypeInv, TypeOK
  <2> QED BY <1>1, <2>1, <2>2 DEF Submit, Paged
<1>2. ASSUME NEW t \in Thread, AcquirePage(t) PROVE Paged'
  <2>1. PageOf(kind[t]) \in Page \cup {None}
    BY DEF PageOf, Page
  <2>2. \A u \in Thread \ {t} : HoldsPage(u)' = HoldsPage(u)
    BY <1>2 DEF AcquirePage, HoldsPage, InFlight, Goto, TypeInv, TypeOK
  <2>3. \A u \in Thread \ {t} : HoldsPage(u) /\ PageOf(kind[u]) # None
           => PageOf(kind[u]) # PageOf(kind[t])
    BY <1>2, HostCommandAssumption DEF AcquirePage, Paged
  <2>4. ASSUME NEW u \in Thread, HoldsPage(u)', PageOf(kind[u]) # None
        PROVE  pageOwner'[PageOf(kind[u])] = u
    <3>1. CASE u = t
      BY <1>2, <2>1, <2>4, <3>1 DEF AcquirePage, TypeInv, TypeOK
    <3>2. CASE u # t
      <4>1. HoldsPage(u) /\ pageOwner[PageOf(kind[u])] = u
        BY <2>2, <2>4, <3>2 DEF Paged
      <4>2. PageOf(kind[u]) # PageOf(kind[t])
        BY <2>3, <2>4, <3>2, <4>1
      <4> QED BY <1>2, <4>1, <4>2 DEF AcquirePage, TypeInv, TypeOK
    <3> QED BY <3>1, <3>2
  <2> QED BY <1>2, <2>4 DEF AcquirePage, Paged
<1>3. ASSUME NEW t \in Thread, AcquireInterrupted(t) PROVE Paged'
  BY <1>3 DEF AcquireInterrupted, Paged, HoldsPage, InFlight, Goto, TypeInv, TypeOK, locals
<1>4. ASSUME NEW t \in Thread, AllocCid(t) PROVE Paged'
  BY <1>4 DEF AllocCid, Paged, HoldsPage, InFlight, Goto, TypeInv, TypeOK, locals
<1>5. ASSUME NEW t \in Thread, NoFreeCid(t) PROVE Paged'
  BY <1>5 DEF NoFreeCid, Paged, HoldsPage, InFlight, Goto, TypeInv, TypeOK, locals
<1>6. ASSUME NEW t \in Thread, TakeCmdLock(t) PROVE Paged'
  BY <1>6 DEF TakeCmdLock, Paged, HoldsPage, InFlight, Goto, TypeInv, TypeOK, locals
<1>7. ASSUME NEW t \in Thread, WriteRequest(t) PROVE Paged'
  BY <1>7 DEF WriteRequest, Paged, HoldsPage, InFlight, Goto, TypeInv, TypeOK, locals
<1>8. ASSUME NEW t \in Thread, WriteFails(t) PROVE Paged'
  BY <1>8 DEF WriteFails, Paged, HoldsPage, InFlight, Goto, TypeInv, TypeOK, locals
<1>9. ASSUME NEW t \in Thread, Enlist(t) PROVE Paged'
  BY <1>9 DEF Enlist, Paged, HoldsPage, InFlight, Goto, TypeInv, TypeOK, locals
<1>10. ASSUME NEW t \in Thread, ReleaseCmdLock(t) PROVE Paged'
  BY <1>10 DEF ReleaseCmdLock, Paged, HoldsPage, InFlight, Goto, TypeInv, TypeOK, locals
<1>11. ASSUME NEW t \in Thread, Wake(t) PROVE Paged'
  BY <1>11 DEF Wake, Paged, HoldsPage, InFlight, Goto, TypeInv, TypeOK, locals
<1>12. ASSUME NEW t \in Thread, CheckResult(t) PROVE Paged'
  BY <1>12 DEF CheckResult, Paged, HoldsPage, InFlight, Goto, TypeInv, TypeOK, locals
<1>13. ASSUME NEW t \in Thread, FindInstance(t) PROVE Paged'
  BY <1>13 DEF FindInstance, Paged, HoldsPage, InFlight, Goto, TypeInv, TypeOK, locals
<1>14. ASSUME NEW t \in Thread, RemoveSubmitted(t) PROVE Paged'
  BY <1>14 DEF RemoveSubmitted, Paged, HoldsPage, InFlight, Goto, TypeInv, TypeOK, locals
<1>15. ASSUME NEW t \in Thread, Fetch(t) PROVE Paged'
  BY <1>15 DEF Fetch, Paged, HoldsPage, InFlight, Goto, TypeInv, TypeOK, locals
<1>16. ASSUME NEW t \in Thread, FreeCid(t) PROVE Paged'
  BY <1>16 DEF FreeCid, Paged, HoldsPage, InFlight, Goto, TypeInv, TypeOK, locals
<1>17. ASSUME NEW t \in Thread, FreePage(t) PROVE Paged'
  <2>1. \A u \in Thread \ {t} : kind'[u] = kind[u] /\ HoldsPage(u)' = HoldsPage(u)
    BY <1>17 DEF FreePage, HoldsPage, InFlight, Goto, TypeInv, TypeOK
  <2>2. ~HoldsPage(t)'
    BY <1>17 DEF FreePage, HoldsPage, InFlight, Goto, TypeInv, TypeOK
  <2>3. \A u \in Thread : PageOf(kind[u]) \in Page \cup {None}
    BY DEF PageOf, Page
  <2> QED BY <1>17, <2>1, <2>2, <2>3 DEF FreePage, Paged
<1>18. ASSUME NEW t \in Thread, Killed(t) PROVE Paged'
  BY <1>18 DEF Killed, Paged, HoldsPage, InFlight, Goto, TypeInv, TypeOK, locals
<1>19. ASSUME NEW t \in Thread, Expire(t) PROVE Paged'
  BY <1>19 DEF Expire, Paged, HoldsPage, InFlight, locals
<1>20. ASSUME NEW t \in Thread, CompleteCommand(t) PROVE Paged'
  BY <1>20 DEF CompleteCommand, Paged, HoldsPage, InFlight, locals
<1>21. ASSUME NEW t \in Thread, SignalTimeout(t) PROVE Paged'
  BY <1>21 DEF SignalTimeout, Paged, HoldsPage, InFlight, locals
<1>22. ASSUME NEW t \in Thread, MarkTimedOut(t) PROVE Paged'
  BY <1>22 DEF MarkTimedOut, Paged, HoldsPage, InFlight, locals
<1>23. ASSUME NEW r \in pending, FwAnswer(r) PROVE Paged'
  BY <1>23 DEF FwAnswer, Paged, HoldsPage, InFlight, locals
<1>24. CASE ReadCompletion
  BY <1>24 DEF ReadCompletion, Paged, HoldsPage, InFlight, locals
<1>25. CASE DropCompletion
  BY <1>25 DEF DropCompletion, Paged, HoldsPage, InFlight, locals
<1>26. CASE CheckTimeouts
  BY <1>26 DEF CheckTimeouts, Paged, HoldsPage, InFlight, locals
<1>27. CASE StopServices
  BY <1>27 DEF StopServices, Paged, HoldsPage, InFlight, locals
<1>28. CASE Drain
  BY <1>28 DEF Drain, Paged, HoldsPage, InFlight, locals
<1>29. CASE Drained
  BY <1>29 DEF Drained, Paged, HoldsPage, InFlight, locals
<1>30. CASE CloseInstance
  BY <1>30 DEF CloseInstance, Paged, HoldsPage, InFlight, locals
<1>31. CASE UNCHANGED vars
  BY <1>31 DEF vars, Paged, HoldsPage, InFlight
<1> QED BY <1>1, <1>2, <1>3, <1>4, <1>5, <1>6, <1>7, <1>8, <1>9, <1>10, <1>11, <1>12, <1>13,
          <1>14, <1>15, <1>16, <1>17, <1>18, <1>19, <1>20, <1>21, <1>22, <1>23, <1>24, <1>25,
          <1>26, <1>27, <1>28, <1>29, <1>30, <1>31
      DEF Next, Before, Send, Finish, Respond, Close

------------------------------------------------------------------------------
(* Requests and answers, when no caller leaves early: none is interrupted  *)
(* or killed, ids suffice, and the firmware is never so late that a        *)
(* deadline passes while it works on the request.                          *)

Prompt == Fault \subseteq {"writeFails"} /\ IdsSuffice /\ QuietClose

(* A request the firmware works on, or whose answer is on its way, is that *)
(* of a caller that waits for it; it is in one place.                      *)
OnWay(r) == r \in pending \/ r \in ToSet(completions) \/ (r = ccmd /\ r # NoRequest)
WayOwn == \A r \in Request : OnWay(r) =>
  /\ pc[r.thread] \in {"enlist", "unlock", "wait"} /\ r = RequestOf(r.thread)
  /\ r.thread \notin dropped /\ signal[r.thread] = None
WayOnce ==
  /\ pending \cap ToSet(completions) = {} /\ Distinct(completions)
  /\ ccmd \notin pending /\ ccmd \notin ToSet(completions)
  /\ rt = "complete" => ccmd \in Request
WayInv == WayOwn /\ WayOnce

(* Only a command whose answer came too soon times out.                    *)
Late ==
  /\ scanning \subseteq overdue /\ overdue \subseteq dropped
  /\ \A t \in dropped : pc[t] \notin {"idle", "page", "cid", "lock", "write"}

Answered == \A t \in Thread :
  /\ signal[t] = "answered" => answer[t] = RequestOf(t)
  /\ pc[t] = "fetch" => signal[t] = "answered"

Matched == TypeInv /\ ListInv /\ CidInv /\ Paged /\ WayInv /\ Late /\ Answered

LEMMA RequestNotNone == NoRequest \notin Request
BY HostCommandAssumption DEF NoRequest, Request

LEMMA NoRequestOnWay ==
  ASSUME TypeInv
  PROVE  NoRequest \notin pending /\ NoRequest \notin ToSet(completions)
<1>1. \A i \in DOMAIN completions : completions[i] \in Request
  BY LenProperties DEF TypeInv, TypeOK
<1> QED BY <1>1, RequestNotNone DEF ToSet, TypeInv, TypeOK

LEMMA TailDistinct ==
  ASSUME NEW S, NEW s \in Seq(S), s # <<>>, Distinct(s)
  PROVE  /\ Head(s) \in S /\ ToSet(s) = ToSet(Tail(s)) \cup {Head(s)}
         /\ Head(s) \notin ToSet(Tail(s)) /\ Distinct(Tail(s))
<1> DEFINE r == Tail(s)
           n == Len(s)
<1>1. /\ n \in Nat \ {0} /\ DOMAIN s = 1 .. n /\ DOMAIN r = 1 .. n - 1
      /\ Head(s) = s[1] /\ Head(s) \in S /\ \A i \in 1 .. n - 1 : r[i] = s[i + 1]
  BY HeadTailProperties, LenProperties, EmptySeq
<1> HIDE DEF r, n
<1>2. Head(s) \notin ToSet(r)
  BY <1>1 DEF ToSet, Distinct
<1>3. Distinct(r)
  BY <1>1 DEF Distinct
<1>4. ToSet(r) \cup {Head(s)} \subseteq ToSet(s)
  BY <1>1 DEF ToSet
<1>5. ASSUME NEW i \in 1 .. n PROVE s[i] \in ToSet(r) \cup {Head(s)}
  <2>1. CASE i = 1
    BY <2>1, <1>1
  <2>2. CASE i # 1
    <3>1. i - 1 \in 1 .. n - 1 /\ s[i] = r[i - 1]
      BY <2>2, <1>1
    <3> QED BY <3>1, <1>1 DEF ToSet
  <2> QED BY <2>1, <2>2
<1>6. ToSet(s) \subseteq ToSet(r) \cup {Head(s)}
  BY <1>1, <1>5 DEF ToSet
<1> QED BY <1>1, <1>2, <1>3, <1>4, <1>6 DEF r

(* Ids tell the waiting commands apart.                                    *)
LEMMA MatchIsOwn ==
  ASSUME Matched, NEW t \in Thread, rt = "complete", FirstMatch(t)
  PROVE  ccmd = RequestOf(t) /\ signal[t] = None
<1>1. ccmd \in Request /\ ccmd # NoRequest
  BY RequestNotNone DEF Matched, WayInv, WayOnce
<1>2. /\ ccmd.thread \in Thread /\ ccmd = RequestOf(ccmd.thread) /\ signal[ccmd.thread] = None
      /\ InFlight(ccmd.thread)
  BY <1>1 DEF Matched, WayInv, WayOwn, OnWay, InFlight, Request
<1>3. cid[ccmd.thread] = ccmd.cid
  BY <1>2 DEF RequestOf
<1>4. t \in ToSet(submitted) /\ cid[t] = ccmd.cid
  BY DEF FirstMatch, First, Matches, ToSet
<1>5. InFlight(t)
  BY <1>4 DEF Matched, ListInv, CommandsAllocated, InFlight
<1>6. t = ccmd.thread
  BY <1>2, <1>3, <1>4, <1>5 DEF Matched, CidInv, CidsUnique
<1> QED BY <1>2, <1>6

LEMMA InitMatched == Init => Matched
<1> SUFFICES ASSUME Init PROVE Matched
  OBVIOUS
<1>1. WayInv
  BY NothingListed, EmptySeq DEF Init, WayInv, WayOwn, WayOnce, OnWay, Distinct
<1>2. Late /\ Answered
  BY DEF Init, Late, Answered, None
<1> QED BY <1>1, <1>2, InitType, InitList, InitCids, InitPaged DEF Matched

LEMMA NextLate ==
  ASSUME Prompt
  PROVE  Matched /\ [Next]_vars => Late'
<1> SUFFICES ASSUME Matched, [Next]_vars PROVE Late'
  OBVIOUS
<1> TypeInv /\ ListInv /\ Late /\ WayOwn /\ WayOnce
  BY DEF Matched, WayInv
<1>1. ASSUME NEW t \in Thread, NEW k \in KindsOf(t), Submit(t, k) PROVE Late'
  BY <1>1 DEF Submit, Late, ListInv, CommandsAllocated, Goto, TypeInv, TypeOK
<1>2. ASSUME NEW t \in Thread, AcquirePage(t) PROVE Late'
  BY <1>2 DEF AcquirePage, Late, Goto, TypeInv, TypeOK, locals, proxy
<1>3. ASSUME NEW t \in Thread, AcquireInterrupted(t) PROVE Late'
  BY <1>3 DEF AcquireInterrupted, Prompt
<1>4. ASSUME NEW t \in Thread, AllocCid(t) PROVE Late'
  BY <1>4 DEF AllocCid, Late, Goto, TypeInv, TypeOK, locals, proxy
<1>5. ASSUME NEW t \in Thread, NoFreeCid(t) PROVE Late'
  BY <1>5 DEF NoFreeCid, Late, Goto, TypeInv, TypeOK, locals, proxy
<1>6. ASSUME NEW t \in Thread, TakeCmdLock(t) PROVE Late'
  BY <1>6 DEF TakeCmdLock, Late, Goto, TypeInv, TypeOK, locals, proxy
<1>7. ASSUME NEW t \in Thread, WriteRequest(t) PROVE Late'
  BY <1>7 DEF WriteRequest, Late, Goto, TypeInv, TypeOK, locals, proxy
<1>8. ASSUME NEW t \in Thread, WriteFails(t) PROVE Late'
  BY <1>8 DEF WriteFails, Late, Goto, TypeInv, TypeOK, locals, proxy
<1>9. ASSUME NEW t \in Thread, Enlist(t) PROVE Late'
  BY <1>9 DEF Enlist, Late, Goto, TypeInv, TypeOK, locals, proxy
<1>10. ASSUME NEW t \in Thread, ReleaseCmdLock(t) PROVE Late'
  BY <1>10 DEF ReleaseCmdLock, Late, Goto, TypeInv, TypeOK, locals, proxy
<1>11. ASSUME NEW t \in Thread, Wake(t) PROVE Late'
  BY <1>11 DEF Wake, Late, Goto, TypeInv, TypeOK, locals, proxy
<1>12. ASSUME NEW t \in Thread, CheckResult(t) PROVE Late'
  BY <1>12 DEF CheckResult, Late, Goto, TypeInv, TypeOK, locals, proxy
<1>13. ASSUME NEW t \in Thread, FindInstance(t) PROVE Late'
  BY <1>13 DEF FindInstance, Late, Goto, TypeInv, TypeOK, locals, proxy
<1>14. ASSUME NEW t \in Thread, RemoveSubmitted(t) PROVE Late'
  BY <1>14 DEF RemoveSubmitted, Late, Goto, TypeInv, TypeOK, locals, proxy
<1>15. ASSUME NEW t \in Thread, Fetch(t) PROVE Late'
  BY <1>15 DEF Fetch, Late, Goto, TypeInv, TypeOK, locals, proxy
<1>16. ASSUME NEW t \in Thread, FreeCid(t) PROVE Late'
  BY <1>16 DEF FreeCid, Late, Goto, TypeInv, TypeOK, locals, proxy
<1>17. ASSUME NEW t \in Thread, FreePage(t) PROVE Late'
  BY <1>17 DEF FreePage, Late, ListInv, CommandsAllocated, Goto, TypeInv, TypeOK
<1>18. ASSUME NEW t \in Thread, Killed(t) PROVE Late'
  BY <1>18 DEF Killed, Prompt
<1>19. ASSUME NEW t \in Thread, Expire(t) PROVE Late'
  BY <1>19 DEF Expire, Late, Prompt, Goto, TypeInv, TypeOK, locals
<1>20. ASSUME NEW t \in Thread, CompleteCommand(t) PROVE Late'
  BY <1>20 DEF CompleteCommand, Late, Goto, TypeInv, TypeOK, locals, proxy
<1>21. ASSUME NEW t \in Thread, SignalTimeout(t) PROVE Late'
  BY <1>21 DEF SignalTimeout, Late, Goto, TypeInv, TypeOK, locals, proxy
<1>22. ASSUME NEW t \in Thread, MarkTimedOut(t) PROVE Late'
  BY <1>22 DEF MarkTimedOut, Late, Goto, TypeInv, TypeOK, locals, proxy
<1>23. ASSUME NEW r \in pending, FwAnswer(r) PROVE Late'
  BY <1>23 DEF FwAnswer, Late, Goto, TypeInv, TypeOK, locals, proxy
<1>24. CASE ReadCompletion
  BY <1>24 DEF ReadCompletion, Late, Goto, TypeInv, TypeOK, locals, proxy
<1>25. CASE DropCompletion
  <2>1. ASSUME NEW t \in Thread, ccmd = RequestOf(t)
        PROVE  pc[t] \in {"enlist", "unlock", "wait"}
    <3>1. ccmd \in Request /\ ccmd # NoRequest
      BY <1>25, RequestNotNone DEF DropCompletion, WayOnce
    <3>2. ccmd.thread = t
      BY <2>1 DEF RequestOf
    <3> QED BY <3>1, <3>2 DEF WayOwn, OnWay
  <2> QED BY <1>25, <2>1 DEF DropCompletion, Late, proxy
<1>26. CASE CheckTimeouts
  BY <1>26 DEF CheckTimeouts, Late, Goto, TypeInv, TypeOK, locals, proxy
<1>27. CASE StopServices
  BY <1>27 DEF StopServices, Late, Goto, TypeInv, TypeOK, locals, proxy
<1>28. CASE Drain
  BY <1>28 DEF Drain, Late, Goto, TypeInv, TypeOK, locals, proxy
<1>29. CASE Drained
  BY <1>29 DEF Drained, Late, Goto, TypeInv, TypeOK, locals, proxy
<1>30. CASE CloseInstance
  BY <1>30 DEF CloseInstance, Late, Goto, TypeInv, TypeOK, locals, proxy
<1>31. CASE UNCHANGED vars
  BY <1>31 DEF vars, Late
<1> QED BY <1>1, <1>2, <1>3, <1>4, <1>5, <1>6, <1>7, <1>8, <1>9, <1>10, <1>11, <1>12, <1>13,
          <1>14, <1>15, <1>16, <1>17, <1>18, <1>19, <1>20, <1>21, <1>22, <1>23, <1>24, <1>25,
          <1>26, <1>27, <1>28, <1>29, <1>30, <1>31
      DEF Next, Before, Send, Finish, Respond, Close

LEMMA NextAnswered == Matched /\ [Next]_vars => Answered'
<1> SUFFICES ASSUME Matched, [Next]_vars PROVE Answered'
  OBVIOUS
<1> TypeInv /\ ListInv /\ Answered
  BY DEF Matched
<1>1. ASSUME NEW t \in Thread, NEW k \in KindsOf(t), Submit(t, k) PROVE Answered'
  BY <1>1 DEF Submit, None, Answered, RequestOf, Goto, TypeInv, TypeOK, locals, proxy
<1>2. ASSUME NEW t \in Thread, AcquirePage(t) PROVE Answered'
  BY <1>2 DEF AcquirePage, Answered, RequestOf, Goto, TypeInv, TypeOK, locals, proxy
<1>3. ASSUME NEW t \in Thread, AcquireInterrupted(t) PROVE Answered'
  BY <1>3 DEF AcquireInterrupted, Answered, RequestOf, Goto, TypeInv, TypeOK, locals, proxy
<1>4. ASSUME NEW t \in Thread, AllocCid(t) PROVE Answered'
  <2>1. signal[t] # "answered"
    BY <1>4 DEF AllocCid, ListInv, Unsignalled, Sending, None
  <2> QED BY <1>4, <2>1 DEF AllocCid, Answered, RequestOf, Goto, TypeInv, TypeOK, locals, proxy
<1>5. ASSUME NEW t \in Thread, NoFreeCid(t) PROVE Answered'
  BY <1>5 DEF NoFreeCid, Answered, RequestOf, Goto, TypeInv, TypeOK, locals, proxy
<1>6. ASSUME NEW t \in Thread, TakeCmdLock(t) PROVE Answered'
  BY <1>6 DEF TakeCmdLock, Answered, RequestOf, Goto, TypeInv, TypeOK, locals, proxy
<1>7. ASSUME NEW t \in Thread, WriteRequest(t) PROVE Answered'
  BY <1>7 DEF WriteRequest, Answered, RequestOf, Goto, TypeInv, TypeOK, locals, proxy
<1>8. ASSUME NEW t \in Thread, WriteFails(t) PROVE Answered'
  BY <1>8 DEF WriteFails, Answered, RequestOf, Goto, TypeInv, TypeOK, locals, proxy
<1>9. ASSUME NEW t \in Thread, Enlist(t) PROVE Answered'
  BY <1>9 DEF Enlist, Answered, RequestOf, Goto, TypeInv, TypeOK, locals, proxy
<1>10. ASSUME NEW t \in Thread, ReleaseCmdLock(t) PROVE Answered'
  BY <1>10 DEF ReleaseCmdLock, Answered, RequestOf, Goto, TypeInv, TypeOK, locals, proxy
<1>11. ASSUME NEW t \in Thread, Wake(t) PROVE Answered'
  BY <1>11 DEF Wake, Answered, RequestOf, Goto, TypeInv, TypeOK, locals, proxy
<1>12. ASSUME NEW t \in Thread, CheckResult(t) PROVE Answered'
  BY <1>12 DEF CheckResult, Answered, RequestOf, Goto, TypeInv, TypeOK, locals, proxy
<1>13. ASSUME NEW t \in Thread, FindInstance(t) PROVE Answered'
  BY <1>13 DEF FindInstance, Answered, RequestOf, Goto, TypeInv, TypeOK, locals, proxy
<1>14. ASSUME NEW t \in Thread, RemoveSubmitted(t) PROVE Answered'
  BY <1>14 DEF RemoveSubmitted, Answered, RequestOf, Goto, TypeInv, TypeOK, locals, proxy
<1>15. ASSUME NEW t \in Thread, Fetch(t) PROVE Answered'
  BY <1>15 DEF Fetch, Answered, RequestOf, Goto, TypeInv, TypeOK, locals, proxy
<1>16. ASSUME NEW t \in Thread, FreeCid(t) PROVE Answered'
  BY <1>16 DEF FreeCid, Answered, RequestOf, Goto, TypeInv, TypeOK, locals, proxy
<1>17. ASSUME NEW t \in Thread, FreePage(t) PROVE Answered'
  BY <1>17 DEF FreePage, None, Answered, RequestOf, Goto, TypeInv, TypeOK, locals, proxy
<1>18. ASSUME NEW t \in Thread, Killed(t) PROVE Answered'
  BY <1>18 DEF Killed, Answered, RequestOf, Goto, TypeInv, TypeOK, locals, proxy
<1>19. ASSUME NEW t \in Thread, Expire(t) PROVE Answered'
  BY <1>19 DEF Expire, Answered, RequestOf, Goto, TypeInv, TypeOK, locals, proxy
<1>20. ASSUME NEW t \in Thread, CompleteCommand(t) PROVE Answered'
  <2>1. ccmd = RequestOf(t) /\ signal[t] = None
    BY <1>20, MatchIsOwn DEF CompleteCommand
  <2>2. pc[t] # "fetch"
    BY <1>20 DEF CompleteCommand, FirstMatch, First, ListInv, CommandsAllocated, ToSet
  <2> QED BY <1>20, <2>1, <2>2 DEF CompleteCommand, Answered, RequestOf, Goto, TypeInv, TypeOK, locals, proxy
<1>21. ASSUME NEW t \in Thread, SignalTimeout(t) PROVE Answered'
  <2>1. pc[t] # "fetch"
    BY <1>21 DEF SignalTimeout, First, ListInv, CommandsAllocated, ToSet
  <2> QED BY <1>21, <2>1 DEF SignalTimeout, Answered, RequestOf, Goto, TypeInv, TypeOK, locals, proxy
<1>22. ASSUME NEW t \in Thread, MarkTimedOut(t) PROVE Answered'
  <2>1. pc[t] # "fetch"
    BY <1>22 DEF MarkTimedOut, First, ListInv, CommandsAllocated, ToSet
  <2> QED BY <1>22, <2>1 DEF MarkTimedOut, Answered, RequestOf, Goto, TypeInv, TypeOK, locals, proxy
<1>23. ASSUME NEW r \in pending, FwAnswer(r) PROVE Answered'
  BY <1>23 DEF FwAnswer, Answered, RequestOf, Goto, TypeInv, TypeOK, locals, proxy
<1>24. CASE ReadCompletion
  BY <1>24 DEF ReadCompletion, Answered, RequestOf, Goto, TypeInv, TypeOK, locals, proxy
<1>25. CASE DropCompletion
  BY <1>25 DEF DropCompletion, Answered, RequestOf, Goto, TypeInv, TypeOK, locals, proxy
<1>26. CASE CheckTimeouts
  BY <1>26 DEF CheckTimeouts, Answered, RequestOf, Goto, TypeInv, TypeOK, locals, proxy
<1>27. CASE StopServices
  BY <1>27 DEF StopServices, Answered, RequestOf, Goto, TypeInv, TypeOK, locals, proxy
<1>28. CASE Drain
  BY <1>28 DEF Drain, Answered, RequestOf, Goto, TypeInv, TypeOK, locals, proxy
<1>29. CASE Drained
  BY <1>29 DEF Drained, Answered, RequestOf, Goto, TypeInv, TypeOK, locals, proxy
<1>30. CASE CloseInstance
  BY <1>30 DEF CloseInstance, Answered, RequestOf, Goto, TypeInv, TypeOK, locals, proxy
<1>31. CASE UNCHANGED vars
  BY <1>31 DEF vars, Answered, RequestOf
<1> QED BY <1>1, <1>2, <1>3, <1>4, <1>5, <1>6, <1>7, <1>8, <1>9, <1>10, <1>11, <1>12, <1>13,
          <1>14, <1>15, <1>16, <1>17, <1>18, <1>19, <1>20, <1>21, <1>22, <1>23, <1>24, <1>25,
          <1>26, <1>27, <1>28, <1>29, <1>30, <1>31
      DEF Next, Before, Send, Finish, Respond, Close

LEMMA NextWay ==
  ASSUME Prompt
  PROVE  Matched /\ [Next]_vars => WayInv'
<1> SUFFICES ASSUME Matched, [Next]_vars PROVE WayInv'
  OBVIOUS
<1> TypeInv /\ ListInv /\ WayInv /\ Late
  BY DEF Matched
<1>1. ASSUME NEW t \in Thread, NEW k \in KindsOf(t), Submit(t, k) PROVE WayInv'
  BY <1>1 DEF Submit, WayInv, WayOwn, WayOnce, OnWay, RequestOf, Goto, TypeInv, TypeOK, locals, proxy, channel
<1>2. ASSUME NEW t \in Thread, AcquirePage(t) PROVE WayInv'
  BY <1>2 DEF AcquirePage, WayInv, WayOwn, WayOnce, OnWay, RequestOf, Goto, TypeInv, TypeOK, locals, proxy, channel
<1>3. ASSUME NEW t \in Thread, AcquireInterrupted(t) PROVE WayInv'
  BY <1>3 DEF AcquireInterrupted, Prompt
<1>4. ASSUME NEW t \in Thread, AllocCid(t) PROVE WayInv'
  BY <1>4 DEF AllocCid, WayInv, WayOwn, WayOnce, OnWay, RequestOf, Goto, TypeInv, TypeOK, locals, proxy, channel
<1>5. ASSUME NEW t \in Thread, NoFreeCid(t) PROVE WayInv'
  BY <1>5 DEF NoFreeCid, WayInv, WayOwn, WayOnce, OnWay, RequestOf, Goto, TypeInv, TypeOK, locals, proxy, channel
<1>6. ASSUME NEW t \in Thread, TakeCmdLock(t) PROVE WayInv'
  BY <1>6 DEF TakeCmdLock, WayInv, WayOwn, WayOnce, OnWay, RequestOf, Goto, TypeInv, TypeOK, locals, proxy, channel
<1>7. ASSUME NEW t \in Thread, WriteRequest(t) PROVE WayInv'
  <2>1. \A r \in Request : OnWay(r) => r.thread # t
    BY <1>7 DEF WriteRequest, WayInv, WayOwn
  <2>2. RequestOf(t) \in Request /\ RequestOf(t).thread = t
    BY <1>7, RequestTyped DEF WriteRequest, RequestOf
  <2>3. t \notin dropped /\ signal[t] = None
    BY <1>7 DEF WriteRequest, Late, ListInv, Unsignalled, Sending
  <2>4. ~OnWay(RequestOf(t))
    BY <2>1, <2>2
  <2>5. WayOnce'
    BY <1>7, <2>2, <2>4, RequestNotNone DEF WriteRequest, WayInv, WayOnce, OnWay
  <2>6. \A r \in Request : OnWay(r)' => OnWay(r) \/ r = RequestOf(t)
    BY <1>7 DEF WriteRequest, OnWay
  <2>7. /\ pc'[t] = "enlist" /\ (\A u \in Thread \ {t} : pc'[u] = pc[u])
        /\ \A u \in Thread : RequestOf(u)' = RequestOf(u)
        /\ dropped' = dropped /\ signal' = signal
    BY <1>7 DEF WriteRequest, RequestOf, locals, proxy, Goto, TypeInv, TypeOK
  <2>8. WayOwn'
    <3> SUFFICES ASSUME NEW r \in Request, OnWay(r)'
                 PROVE  /\ pc'[r.thread] \in {"enlist", "unlock", "wait"}
                        /\ r = RequestOf(r.thread)' /\ r.thread \notin dropped'
                        /\ signal'[r.thread] = None
      BY DEF WayOwn
    <3>1. CASE r = RequestOf(t)
      BY <3>1, <2>2, <2>3, <2>7
    <3>2. CASE OnWay(r)
      BY <3>2, <2>1, <2>7 DEF WayInv, WayOwn, Request
    <3> QED BY <2>6, <3>1, <3>2
  <2> QED BY <2>5, <2>8 DEF WayInv
<1>8. ASSUME NEW t \in Thread, WriteFails(t) PROVE WayInv'
  BY <1>8 DEF WriteFails, WayInv, WayOwn, WayOnce, OnWay, RequestOf, Goto, TypeInv, TypeOK, locals, proxy, channel
<1>9. ASSUME NEW t \in Thread, Enlist(t) PROVE WayInv'
  BY <1>9 DEF Enlist, WayInv, WayOwn, WayOnce, OnWay, RequestOf, Goto, TypeInv, TypeOK, locals, proxy, channel
<1>10. ASSUME NEW t \in Thread, ReleaseCmdLock(t) PROVE WayInv'
  BY <1>10 DEF ReleaseCmdLock, WayInv, WayOwn, WayOnce, OnWay, RequestOf, Goto, TypeInv, TypeOK, locals, proxy, channel
<1>11. ASSUME NEW t \in Thread, Wake(t) PROVE WayInv'
  BY <1>11 DEF Wake, WayInv, WayOwn, WayOnce, OnWay, RequestOf, Goto, TypeInv, TypeOK, locals, proxy, channel
<1>12. ASSUME NEW t \in Thread, CheckResult(t) PROVE WayInv'
  BY <1>12 DEF CheckResult, WayInv, WayOwn, WayOnce, OnWay, RequestOf, Goto, TypeInv, TypeOK, locals, proxy, channel
<1>13. ASSUME NEW t \in Thread, FindInstance(t) PROVE WayInv'
  BY <1>13 DEF FindInstance, WayInv, WayOwn, WayOnce, OnWay, RequestOf, Goto, TypeInv, TypeOK, locals, proxy, channel
<1>14. ASSUME NEW t \in Thread, RemoveSubmitted(t) PROVE WayInv'
  BY <1>14 DEF RemoveSubmitted, WayInv, WayOwn, WayOnce, OnWay, RequestOf, Goto, TypeInv, TypeOK, locals, proxy, channel
<1>15. ASSUME NEW t \in Thread, Fetch(t) PROVE WayInv'
  BY <1>15 DEF Fetch, WayInv, WayOwn, WayOnce, OnWay, RequestOf, Goto, TypeInv, TypeOK, locals, proxy, channel
<1>16. ASSUME NEW t \in Thread, FreeCid(t) PROVE WayInv'
  BY <1>16 DEF FreeCid, WayInv, WayOwn, WayOnce, OnWay, RequestOf, Goto, TypeInv, TypeOK, locals, proxy, channel
<1>17. ASSUME NEW t \in Thread, FreePage(t) PROVE WayInv'
  BY <1>17 DEF FreePage, WayInv, WayOwn, WayOnce, OnWay, RequestOf, Goto, TypeInv, TypeOK, locals, proxy, channel
<1>18. ASSUME NEW t \in Thread, Killed(t) PROVE WayInv'
  BY <1>18 DEF Killed, Prompt
<1>19. ASSUME NEW t \in Thread, Expire(t) PROVE WayInv'
  BY <1>19 DEF Expire, WayInv, WayOwn, WayOnce, OnWay, RequestOf, Goto, TypeInv, TypeOK, locals, proxy, channel
<1>20. ASSUME NEW t \in Thread, CompleteCommand(t) PROVE WayInv'
  <2>1. ccmd = RequestOf(t) /\ ccmd \in Request
    BY <1>20, MatchIsOwn DEF CompleteCommand, WayInv, WayOnce
  <2>2. WayOnce'
    BY <1>20, NoRequestOnWay DEF CompleteCommand, WayInv, WayOnce, channel
  <2>3. \A r \in Request : OnWay(r)' => OnWay(r) /\ r # ccmd
    BY <1>20 DEF CompleteCommand, OnWay, channel, WayInv, WayOnce
  <2>4. \A r \in Request : OnWay(r)' => r.thread # t
    BY <2>1, <2>3 DEF WayInv, WayOwn
  <2>5. /\ pc' = pc /\ dropped' = dropped /\ \A u \in Thread : RequestOf(u)' = RequestOf(u)
        /\ \A u \in Thread \ {t} : signal'[u] = signal[u]
    BY <1>20 DEF CompleteCommand, RequestOf, locals, TypeInv, TypeOK
  <2>6. WayOwn'
    BY <2>3, <2>4, <2>5 DEF WayInv, WayOwn, Request
  <2> QED BY <2>2, <2>6 DEF WayInv
<1>21. ASSUME NEW t \in Thread, SignalTimeout(t) PROVE WayInv'
  <2>1. t \in dropped
    BY <1>21 DEF SignalTimeout, First, Late
  <2> QED BY <1>21, <2>1 DEF SignalTimeout, WayInv, WayOwn, WayOnce, OnWay, RequestOf, Goto, TypeInv, TypeOK, locals, proxy, channel
<1>22. ASSUME NEW t \in Thread, MarkTimedOut(t) PROVE WayInv'
  <2>1. t \in dropped
    BY <1>22 DEF MarkTimedOut, First, Late
  <2> QED BY <1>22, <2>1 DEF MarkTimedOut, WayInv, WayOwn, WayOnce, OnWay, RequestOf, Goto, TypeInv, TypeOK, locals, proxy, channel
<1>23. ASSUME NEW r \in pending, FwAnswer(r) PROVE WayInv'
  <2>1. /\ r \in Request /\ completions \in Seq(Request) /\ completions' = Append(completions, r)
        /\ r \notin ToSet(completions) /\ Distinct(completions)
    BY <1>23 DEF FwAnswer, TypeInv, TypeOK, WayInv, WayOnce
  <2>2. ToSet(completions') = ToSet(completions) \cup {r} /\ Distinct(completions')
    BY <2>1, Appended
  <2>3. WayOnce'
    BY <1>23, <2>1, <2>2 DEF FwAnswer, WayInv, WayOnce
  <2>4. WayOwn'
    BY <1>23, <2>1, <2>2 DEF FwAnswer, WayInv, WayOwn, OnWay, RequestOf, locals, proxy
  <2> QED BY <2>3, <2>4 DEF WayInv
<1>24. CASE ReadCompletion
  <2>1. CASE completions = <<>>
    BY <1>24, <2>1 DEF ReadCompletion, WayInv, WayOwn, WayOnce, OnWay, RequestOf, Goto, TypeInv, TypeOK, locals, proxy, channel
  <2>2. CASE completions # <<>>
    <3> DEFINE h == Head(completions)
    <3>1. /\ ccmd' = h /\ completions' = Tail(completions) /\ pending' = pending
          /\ UNCHANGED <<pc, kind, call, cid, dropped, signal>>
      BY <1>24, <2>2 DEF ReadCompletion, locals, proxy
    <3>2. /\ h \in Request /\ ToSet(completions) = ToSet(completions') \cup {h}
          /\ h \notin ToSet(completions') /\ Distinct(completions')
      BY <2>2, <3>1, TailDistinct DEF TypeInv, TypeOK, WayInv, WayOnce
    <3> HIDE DEF h
    <3>3. WayOnce'
      BY <3>1, <3>2 DEF WayInv, WayOnce
    <3>4. WayOwn'
      BY <3>1, <3>2 DEF WayInv, WayOwn, OnWay, RequestOf
    <3> QED BY <3>3, <3>4 DEF WayInv
  <2> QED BY <2>1, <2>2
<1>25. CASE DropCompletion
  <2>1. WayOnce'
    BY <1>25, NoRequestOnWay DEF DropCompletion, WayInv, WayOnce, channel
  <2>2. \A r \in Request : OnWay(r)' => OnWay(r) /\ r # ccmd
    BY <1>25 DEF DropCompletion, OnWay, channel, WayInv, WayOnce
  <2>3. /\ pc' = pc /\ signal' = signal /\ \A u \in Thread : RequestOf(u)' = RequestOf(u)
        /\ \A u \in dropped' : u \in dropped \/ ccmd = RequestOf(u)
    BY <1>25 DEF DropCompletion, RequestOf, locals, proxy
  <2>4. WayOwn'
    BY <2>2, <2>3 DEF WayInv, WayOwn, Request
  <2> QED BY <2>1, <2>4 DEF WayInv
<1>26. CASE CheckTimeouts
  BY <1>26 DEF CheckTimeouts, WayInv, WayOwn, WayOnce, OnWay, RequestOf, Goto, TypeInv, TypeOK, locals, proxy, channel
<1>27. CASE StopServices
  BY <1>27 DEF StopServices, WayInv, WayOwn, WayOnce, OnWay, RequestOf, Goto, TypeInv, TypeOK, locals, proxy, channel
<1>28. CASE Drain
  BY <1>28 DEF Drain, WayInv, WayOwn, WayOnce, OnWay, RequestOf, Goto, TypeInv, TypeOK, locals, proxy, channel
<1>29. CASE Drained
  BY <1>29 DEF Drained, WayInv, WayOwn, WayOnce, OnWay, RequestOf, Goto, TypeInv, TypeOK, locals, proxy, channel
<1>30. CASE CloseInstance
  BY <1>30 DEF CloseInstance, WayInv, WayOwn, WayOnce, OnWay, RequestOf, Goto, TypeInv, TypeOK, locals, proxy, channel
<1>31. CASE UNCHANGED vars
  BY <1>31 DEF vars, WayInv, WayOwn, WayOnce, OnWay, RequestOf
<1> QED BY <1>1, <1>2, <1>3, <1>4, <1>5, <1>6, <1>7, <1>8, <1>9, <1>10, <1>11, <1>12, <1>13,
          <1>14, <1>15, <1>16, <1>17, <1>18, <1>19, <1>20, <1>21, <1>22, <1>23, <1>24, <1>25,
          <1>26, <1>27, <1>28, <1>29, <1>30, <1>31
      DEF Next, Before, Send, Finish, Respond, Close

THEOREM MatchedInductive ==
  ASSUME Prompt
  PROVE  Spec => []Matched
<1>1. IdsSuffice /\ QuietClose
  BY DEF Prompt
<1>2. Matched /\ [Next]_vars => Matched'
  BY <1>1, NextType, NextList, NextCids, NextPaged, NextLate, NextAnswered, NextWay DEF Matched
<1> QED BY <1>2, InitMatched, PTL DEF Spec

(* The caller that is told of success got the answer to its own command.   *)
THEOREM OwnAnswers ==
  ASSUME Prompt
  PROVE  Spec => []OwnAnswer
<1>1. Matched => OwnAnswer
  BY DEF Matched, Answered, OwnAnswer
<1> QED BY <1>1, MatchedInductive, PTL

(* The firmware works on a page only for the caller that holds it.         *)
THEOREM PagesStay ==
  ASSUME Prompt
  PROVE  Spec => []PageStaysWithRequest
<1>1. ASSUME Matched PROVE PageStaysWithRequest
  <2> SUFFICES ASSUME NEW r \in pending, r.page # None
               PROVE  pageOwner[r.page] = r.thread /\ RequestOf(r.thread) = r
    BY DEF PageStaysWithRequest
  <2>1. /\ r.thread \in Thread /\ r = RequestOf(r.thread)
        /\ pc[r.thread] \in {"enlist", "unlock", "wait"}
    BY <1>1 DEF Matched, WayInv, WayOwn, OnWay, Request, TypeInv, TypeOK
  <2>2. r.page = PageOf(kind[r.thread])
    BY <2>1 DEF RequestOf
  <2> QED BY <1>1, <2>1, <2>2 DEF Matched, Paged, HoldsPage, InFlight
<1> QED BY <1>1, MatchedInductive, PTL
=============================================================================
