-------------------------- MODULE AmcRequests_proofs --------------------------
(***************************************************************************)
(* For any number of requests, slots and places in the queues: each slot   *)
(* in use is named by exactly one message or task, which was made for the  *)
(* request in the slot; an answer always fits the mailbox of the AMI task; *)
(* and the host gets at most one answer to a request.                      *)
(***************************************************************************)
EXTENDS AmcRequests, FiniteSetTheorems, FunctionTheorems, SequenceTheorems, TLAPS

------------------------------------------------------------------------------
(* Counting the entries of a sequence that lie in a set.                   *)

Places(s, T) == {k \in DOMAIN s : s[k] \in T}

LEMMA PlacesFinite ==
  ASSUME NEW S, NEW s \in Seq(S), NEW T
  PROVE  IsFiniteSet(Places(s, T)) /\ Cardinality(Places(s, T)) \in Nat
<1>1. IsFiniteSet(1 .. Len(s))
  BY LenProperties, FS_Interval
<1>2. Places(s, T) \in SUBSET (1 .. Len(s))
  BY LenProperties DEF Places
<1> QED BY <1>1, <1>2, FS_Subset, FS_CardinalityType

LEMMA PlacesAppend ==
  ASSUME NEW S, NEW s \in Seq(S), NEW e \in S, NEW T
  PROVE  Cardinality(Places(Append(s, e), T)) = Cardinality(Places(s, T)) + Count(e \in T)
<1>1. /\ Append(s, e) \in Seq(S) /\ DOMAIN s = 1 .. Len(s) /\ Len(s) \in Nat
      /\ DOMAIN Append(s, e) = 1 .. Len(s) + 1
      /\ \A k \in 1 .. Len(s) : Append(s, e)[k] = s[k]
      /\ Append(s, e)[Len(s) + 1] = e
  BY AppendProperties, LenProperties
<1>2. CASE e \in T
  <2>1. Places(Append(s, e), T) = Places(s, T) \cup {Len(s) + 1}
    BY <1>1, <1>2 DEF Places
  <2>2. Len(s) + 1 \notin Places(s, T)
    BY <1>1 DEF Places
  <2> QED BY <1>2, <2>1, <2>2, PlacesFinite, FS_AddElement DEF Count
<1>3. CASE e \notin T
  <2>1. Places(Append(s, e), T) = Places(s, T)
    BY <1>1, <1>3 DEF Places
  <2> QED BY <1>3, <2>1, PlacesFinite DEF Count
<1> QED BY <1>2, <1>3

LEMMA PlacesTail ==
  ASSUME NEW S, NEW s \in Seq(S), s # <<>>, NEW T
  PROVE  Cardinality(Places(s, T)) = Cardinality(Places(Tail(s), T)) + Count(Head(s) \in T)
<1> DEFINE F == [k \in Places(Tail(s), T) |-> k + 1]
           Rest == Places(s, T) \ {1}
<1>1. /\ Tail(s) \in Seq(S) /\ DOMAIN s = 1 .. Len(s) /\ Len(s) \in Nat \ {0}
      /\ DOMAIN Tail(s) = 1 .. Len(s) - 1
      /\ \A k \in 1 .. Len(s) - 1 : Tail(s)[k] = s[k + 1]
      /\ Head(s) = s[1]
  BY HeadTailProperties, LenProperties, EmptySeq
<1>2. F \in Bijection(Places(Tail(s), T), Rest)
  <2>1. \A k \in Places(Tail(s), T) : k \in Nat /\ k + 1 \in Rest
    BY <1>1 DEF Places
  <2>2. F \in [Places(Tail(s), T) -> Rest]
    BY <2>1
  <2>3. \A j, k \in Places(Tail(s), T) : F[j] = F[k] => j = k
    BY <2>1
  <2>4. \A n \in Rest : n - 1 \in Places(Tail(s), T) /\ F[n - 1] = n
    BY <1>1 DEF Places
  <2> QED BY <2>2, <2>3, <2>4, Fun_IsBij
<1>3. Cardinality(Rest) = Cardinality(Places(Tail(s), T))
  <2>1. IsFiniteSet(Places(Tail(s), T))
    BY <1>1, PlacesFinite
  <2>2. ExistsBijection(Places(Tail(s), T), Rest)
    BY <1>2 DEF ExistsBijection
  <2> QED BY <2>1, <2>2, FS_Bijection
<1>4. CASE Head(s) \in T
  <2>1. 1 \in Places(s, T)
    BY <1>1, <1>4 DEF Places
  <2>2. IsFiniteSet(Places(s, T)) /\ Cardinality(Places(s, T)) \in Nat
    BY PlacesFinite
  <2>3. Cardinality(Rest) = Cardinality(Places(s, T)) - 1
    BY <2>1, <2>2, FS_RemoveElement
  <2> QED BY <2>2, <2>3, <1>3, <1>4 DEF Count
<1>5. CASE Head(s) \notin T
  <2>1. Rest = Places(s, T)
    BY <1>1, <1>5 DEF Places
  <2>2. Cardinality(Places(s, T)) \in Nat
    BY PlacesFinite
  <2>3. Cardinality(Places(s, T)) = Cardinality(Places(Tail(s), T))
    BY <2>1, <1>3
  <2>4. Count(Head(s) \in T) = 0
    BY <1>5 DEF Count
  <2> QED BY <2>2, <2>3, <2>4
<1> QED BY <1>4, <1>5

------------------------------------------------------------------------------
(* What names a slot, counted.                                             *)

InUseHolds == \A i \in Slot : rxData[i].inUse => rxData[i].req \in Request
IInv == TypeOK /\ InUseHolds /\ SlotCarriedOnce

AnswersOf(i) == {a \in Answer : a.index = i}
WorkOf(i)    == {w \in Work : w.index = i /\ w.type \in Flash}

LEMMA Places0 ==
  ASSUME TypeOK, NEW i \in Slot
  PROVE  /\ Answers(i) = Places(amiMbox, AnswersOf(i))
         /\ WorkToDo(i) = Places(apcMbox, WorkOf(i))
         /\ Cardinality(Answers(i)) \in Nat /\ Cardinality(WorkToDo(i)) \in Nat
<1>1. Answers(i) = Places(amiMbox, AnswersOf(i))
  BY DEF TypeOK, Answers, Places, AnswersOf
<1>2. WorkToDo(i) = Places(apcMbox, WorkOf(i))
  BY DEF TypeOK, WorkToDo, Places, WorkOf
<1>3. Cardinality(Places(amiMbox, AnswersOf(i))) \in Nat
  BY PlacesFinite DEF TypeOK
<1>4. Cardinality(Places(apcMbox, WorkOf(i))) \in Nat
  BY PlacesFinite DEF TypeOK
<1> QED BY <1>1, <1>2, <1>3, <1>4

LEMMA AnswersAppend ==
  ASSUME TypeOK, NEW a \in Answer, amiMbox' = Append(amiMbox, a), NEW i \in Slot
  PROVE  Cardinality(Answers(i)') = Cardinality(Answers(i)) + Count(a.index = i)
<1>1. amiMbox' \in Seq(Answer)
  BY DEF TypeOK
<1>2. Answers(i)' = Places(amiMbox', AnswersOf(i))
  BY <1>1 DEF Answers, Places, AnswersOf
<1>3. Cardinality(Places(amiMbox', AnswersOf(i)))
        = Cardinality(Places(amiMbox, AnswersOf(i))) + Count(a \in AnswersOf(i))
  BY PlacesAppend DEF TypeOK
<1>4. (a \in AnswersOf(i)) = (a.index = i)
  BY DEF AnswersOf
<1> QED BY <1>2, <1>3, <1>4, Places0

LEMMA AnswersTail ==
  ASSUME TypeOK, amiMbox # <<>>, amiMbox' = Tail(amiMbox), NEW i \in Slot
  PROVE  /\ Cardinality(Answers(i)) = Cardinality(Answers(i)') + Count(Head(amiMbox).index = i)
         /\ Cardinality(Answers(i)') \in Nat
<1>1. amiMbox' \in Seq(Answer) /\ Head(amiMbox) \in Answer
  BY HeadTailProperties DEF TypeOK
<1>2. Answers(i)' = Places(amiMbox', AnswersOf(i))
  BY <1>1 DEF Answers, Places, AnswersOf
<1>3. Cardinality(Places(amiMbox, AnswersOf(i)))
        = Cardinality(Places(amiMbox', AnswersOf(i))) + Count(Head(amiMbox) \in AnswersOf(i))
  BY PlacesTail DEF TypeOK
<1>4. (Head(amiMbox) \in AnswersOf(i)) = (Head(amiMbox).index = i)
  BY <1>1 DEF AnswersOf
<1>5. Cardinality(Places(amiMbox', AnswersOf(i))) \in Nat
  BY <1>1, PlacesFinite
<1> QED BY <1>2, <1>3, <1>4, <1>5, Places0

LEMMA WorkAppend ==
  ASSUME TypeOK, NEW w \in Work, apcMbox' = Append(apcMbox, w), NEW i \in Slot
  PROVE  Cardinality(WorkToDo(i)')
           = Cardinality(WorkToDo(i)) + Count(w.index = i /\ w.type \in Flash)
<1>1. apcMbox' \in Seq(Work)
  BY DEF TypeOK
<1>2. WorkToDo(i)' = Places(apcMbox', WorkOf(i))
  BY <1>1 DEF WorkToDo, Places, WorkOf
<1>3. Cardinality(Places(apcMbox', WorkOf(i)))
        = Cardinality(Places(apcMbox, WorkOf(i))) + Count(w \in WorkOf(i))
  BY PlacesAppend DEF TypeOK
<1>4. (w \in WorkOf(i)) = (w.index = i /\ w.type \in Flash)
  BY DEF WorkOf
<1> QED BY <1>2, <1>3, <1>4, Places0

LEMMA WorkTail ==
  ASSUME TypeOK, apcMbox # <<>>, apcMbox' = Tail(apcMbox), NEW i \in Slot
  PROVE  /\ Cardinality(WorkToDo(i)) = Cardinality(WorkToDo(i)')
               + Count(Head(apcMbox).index = i /\ Head(apcMbox).type \in Flash)
         /\ Cardinality(WorkToDo(i)') \in Nat
<1>1. apcMbox' \in Seq(Work) /\ Head(apcMbox) \in Work
  BY HeadTailProperties DEF TypeOK
<1>2. WorkToDo(i)' = Places(apcMbox', WorkOf(i))
  BY <1>1 DEF WorkToDo, Places, WorkOf
<1>3. Cardinality(Places(apcMbox, WorkOf(i)))
        = Cardinality(Places(apcMbox', WorkOf(i))) + Count(Head(apcMbox) \in WorkOf(i))
  BY PlacesTail DEF TypeOK
<1>4. (Head(apcMbox) \in WorkOf(i)) = (Head(apcMbox).index = i /\ Head(apcMbox).type \in Flash)
  BY <1>1 DEF WorkOf
<1>5. Cardinality(Places(apcMbox', WorkOf(i))) \in Nat
  BY <1>1, PlacesFinite
<1> QED BY <1>2, <1>3, <1>4, <1>5, Places0

(* An answer to the request of a slot that a task still holds fits: no     *)
(* answer for that slot waits, and at most one for each of the others.     *)
LEMMA AnswerFits ==
  ASSUME TypeOK, SlotCarriedOnce, NEW i \in Slot, InAmiTask(i) \/ InApcTask(i)
  PROVE  Len(amiMbox) < AmiMboxSize
<1> DEFINE N == Len(amiMbox)
           F == [k \in 1 .. N |-> amiMbox[k].index]
<1>1. \A j \in Slot : Cardinality(Answers(j)) <= 1
  BY Places0 DEF SlotCarriedOnce, Carriers, Count
<1>2. Cardinality(Answers(i)) = 0
  BY Places0 DEF SlotCarriedOnce, Carriers, Count
<1>3. N \in Nat /\ DOMAIN amiMbox = 1 .. N /\ \A k \in 1 .. N : amiMbox[k] \in Answer
  BY LenProperties DEF TypeOK
<1>4. \A j \in Slot : IsFiniteSet(Answers(j))
  BY Places0, PlacesFinite DEF TypeOK
<1>5. \A k \in 1 .. N : F[k] \in Slot \ {i}
  <2> SUFFICES ASSUME NEW k \in 1 .. N, amiMbox[k].index = i PROVE FALSE
    BY <1>3 DEF Answer
  <2>1. k \in Answers(i)
    BY <1>3 DEF Answers
  <2> QED BY <2>1, <1>2, <1>4, FS_EmptySet
<1>6. \A j, k \in 1 .. N : F[j] = F[k] => j = k
  <2> SUFFICES ASSUME NEW j \in 1 .. N, NEW k \in 1 .. N,
                      amiMbox[j].index = amiMbox[k].index, j # k
               PROVE  FALSE
    OBVIOUS
  <2> DEFINE s == amiMbox[j].index
  <2>1. s \in Slot /\ {j, k} \in SUBSET Answers(s)
    BY <1>3 DEF Answers, Answer
  <2>2. Cardinality({j, k}) = 2
    <3>1. IsFiniteSet({j}) /\ Cardinality({j}) = 1
      BY FS_Singleton
    <3>2. {j, k} = {j} \cup {k} /\ k \notin {j}
      OBVIOUS
    <3>3. Cardinality({j} \cup {k}) = Cardinality({j}) + 1
      BY <3>1, <3>2, FS_AddElement
    <3>4. Cardinality({j, k}) = Cardinality({j}) + 1
      BY <3>2, <3>3, Zenon
    <3> QED BY <3>1, <3>4
  <2>3. Cardinality({j, k}) <= Cardinality(Answers(s))
    BY <2>1, <1>4, FS_Subset
  <2> QED BY <2>1, <2>2, <2>3, <1>1, Places0
<1>7. F \in Injection(1 .. N, Slot \ {i})
  <2>1. F \in [1 .. N -> Slot \ {i}]
    BY <1>5
  <2> QED BY <2>1, <1>6, Fun_IsInj
<1>8. IsFiniteSet(Slot) /\ Cardinality(Slot) = RxDataSize
  BY FS_Interval, RequestsAssumption, SMTT(30) DEF Slot
<1>9. IsFiniteSet(Slot \ {i}) /\ Cardinality(Slot \ {i}) = RxDataSize - 1
  BY <1>8, FS_RemoveElement
<1>10. Cardinality(1 .. N) <= Cardinality(Slot \ {i})
  BY <1>7, <1>9, FS_Injection
<1>11. Cardinality(1 .. N) = N
  BY SMTT(30), <1>3, FS_Interval
<1> QED BY <1>3, <1>9, <1>10, <1>11, RequestsAssumption

------------------------------------------------------------------------------
(* The parts of SlotCarriedOnce, to take it apart by.                      *)

Counted    == \A i \in Slot : Carriers(i) = Count(rxData[i].inUse)
AnswersFit == \A k \in DOMAIN amiMbox : amiMbox[k].for = rxData[amiMbox[k].index].req
WorkFits   == \A k \in DOMAIN apcMbox :
                apcMbox[k].type \in Flash => apcMbox[k].for = rxData[apcMbox[k].index].req
ApcFits    == apc.type \in Flash => apc.for = rxData[apc.index].req

LEMMA CarriedOnceParts == SlotCarriedOnce <=> Counted /\ AnswersFit /\ WorkFits /\ ApcFits
BY DEF SlotCarriedOnce, Counted, AnswersFit, WorkFits, ApcFits

LEMMA CarriedOnceParts1 == SlotCarriedOnce' <=> Counted' /\ AnswersFit' /\ WorkFits' /\ ApcFits'
BY CarriedOnceParts, PTL

LEMMA CountNat == \A b \in BOOLEAN : Count(b) \in Nat
BY DEF Count

(* What of a slot is counted by tasks and lost answers.                    *)
Held(i) == Count(InAmiTask(i)) + Count(InApcTask(i)) + Count(i \in unsent)

LEMMA CarriersParts ==
  ASSUME IInv, NEW i \in Slot
  PROVE  /\ Cardinality(Answers(i)) + Cardinality(WorkToDo(i)) + Held(i) = Count(rxData[i].inUse)
         /\ Cardinality(Answers(i)) \in Nat /\ Cardinality(WorkToDo(i)) \in Nat /\ Held(i) \in Nat
         /\ Count(rxData[i].inUse) \in Nat
<1>1. Carriers(i) = Count(rxData[i].inUse)
  BY DEF IInv, SlotCarriedOnce
<1>2. Cardinality(Answers(i)) \in Nat /\ Cardinality(WorkToDo(i)) \in Nat
  BY Places0 DEF IInv
<1>3. Count(InAmiTask(i)) \in Nat /\ Count(InApcTask(i)) \in Nat /\ Count(i \in unsent) \in Nat
  BY DEF Count
<1>4. Count(rxData[i].inUse) \in Nat
  BY DEF Count
<1> QED BY <1>1, <1>2, <1>3, <1>4 DEF Carriers, Held

LEMMA CountedBy ==
  ASSUME \A i \in Slot :
           Cardinality(Answers(i)') + Cardinality(WorkToDo(i)') + Held(i)' = Count(rxData'[i].inUse),
         \A i \in Slot : Cardinality(Answers(i)') \in Nat /\ Cardinality(WorkToDo(i)') \in Nat
  PROVE  Counted'
<1> SUFFICES ASSUME NEW i \in Slot PROVE Carriers(i)' = Count(rxData[i].inUse)'
  BY DEF Counted
<1>1. Count(InAmiTask(i)') \in Nat /\ Count(InApcTask(i)') \in Nat /\ Count((i \in unsent)') \in Nat
  BY DEF Count
<1>2. Cardinality(Answers(i)') \in Nat /\ Cardinality(WorkToDo(i)') \in Nat
  OBVIOUS
<1>3. Cardinality(Answers(i)') + Cardinality(WorkToDo(i)') + Held(i)' = Count(rxData'[i].inUse)
  OBVIOUS
<1> QED BY <1>1, <1>2, <1>3 DEF Carriers, Held

(* Whoever names a slot finds it in use.                                   *)
LEMMA Named ==
  ASSUME IInv, NEW i \in Slot,
         InAmiTask(i) \/ InApcTask(i) \/ i \in unsent \/ Answers(i) # {} \/ WorkToDo(i) # {}
  PROVE  rxData[i].inUse /\ rxData[i].req \in Request
<1>1. IsFiniteSet(Answers(i)) /\ IsFiniteSet(WorkToDo(i))
  BY Places0, PlacesFinite DEF IInv, TypeOK
<1>2. Cardinality(Answers(i)) \in Nat /\ Cardinality(WorkToDo(i)) \in Nat
  BY Places0 DEF IInv
<1>3. /\ Answers(i) # {} => Cardinality(Answers(i)) # 0
      /\ WorkToDo(i) # {} => Cardinality(WorkToDo(i)) # 0
  BY <1>1, FS_EmptySet
<1>4. Count(rxData[i].inUse) # 0
  BY <1>2, <1>3 DEF IInv, SlotCarriedOnce, Carriers, Count
<1> QED BY <1>4 DEF Count, IInv, InUseHolds

(* The task that holds a slot posts its answer.                            *)
LEMMA Posted ==
  ASSUME IInv, NEW i \in Slot, InAmiTask(i) \/ InApcTask(i),
         PostAnswer(i, rxData[i].req), rxData' = rxData
  PROVE  /\ amiMbox' \in Seq(Answer) /\ Len(amiMbox') <= AmiMboxSize
         /\ \A j \in Slot : Cardinality(Answers(j)') = Cardinality(Answers(j)) + Count(i = j)
         /\ AnswersFit'
<1> DEFINE a == AnswerFor(i, rxData[i].req)
<1>1. a \in Answer /\ a.index = i /\ a.for = rxData[i].req
  BY Named DEF AnswerFor, Answer
<1>2. Len(amiMbox) < AmiMboxSize
  BY AnswerFits DEF IInv
<1>3. amiMbox' = Append(amiMbox, a)
  BY <1>2 DEF PostAnswer
<1>4. /\ amiMbox \in Seq(Answer) /\ Len(amiMbox) \in Nat /\ DOMAIN amiMbox = 1 .. Len(amiMbox)
      /\ amiMbox' \in Seq(Answer) /\ Len(amiMbox') = Len(amiMbox) + 1
      /\ DOMAIN amiMbox' = 1 .. Len(amiMbox) + 1
      /\ \A k \in 1 .. Len(amiMbox) : amiMbox'[k] = amiMbox[k]
      /\ amiMbox'[Len(amiMbox) + 1] = a
  BY <1>1, <1>3, AppendProperties, LenProperties DEF IInv, TypeOK
<1>5. \A j \in Slot : Cardinality(Answers(j)') = Cardinality(Answers(j)) + Count(i = j)
  BY <1>1, <1>3, AnswersAppend DEF IInv
<1>6. AnswersFit'
  <2>1. AnswersFit
    BY CarriedOnceParts DEF IInv
  <2> QED BY <2>1, <1>1, <1>4 DEF AnswersFit
<1>7. Len(amiMbox') <= AmiMboxSize
  BY <1>2, <1>4, RequestsAssumption
<1> QED BY <1>4, <1>5, <1>6, <1>7

(* The slot a task holds is given to the APC task.                         *)
LEMMA PassedOn ==
  ASSUME IInv, NEW w \in Work, Len(apcMbox) < ApcMboxSize, apcMbox' = Append(apcMbox, w),
         rxData' = rxData, w.type \in Flash => w.for = rxData[w.index].req
  PROVE  /\ apcMbox' \in Seq(Work) /\ Len(apcMbox') <= ApcMboxSize
         /\ \A j \in Slot : Cardinality(WorkToDo(j)')
              = Cardinality(WorkToDo(j)) + Count(w.index = j /\ w.type \in Flash)
         /\ WorkFits'
<1>1. /\ apcMbox \in Seq(Work) /\ Len(apcMbox) \in Nat /\ DOMAIN apcMbox = 1 .. Len(apcMbox)
      /\ apcMbox' \in Seq(Work) /\ Len(apcMbox') = Len(apcMbox) + 1
      /\ DOMAIN apcMbox' = 1 .. Len(apcMbox) + 1
      /\ \A k \in 1 .. Len(apcMbox) : apcMbox'[k] = apcMbox[k]
      /\ apcMbox'[Len(apcMbox) + 1] = w
  BY AppendProperties, LenProperties DEF IInv, TypeOK
<1>2. \A j \in Slot : Cardinality(WorkToDo(j)')
              = Cardinality(WorkToDo(j)) + Count(w.index = j /\ w.type \in Flash)
  BY WorkAppend DEF IInv
<1>3. WorkFits'
  <2>1. WorkFits
    BY CarriedOnceParts DEF IInv
  <2> QED BY <2>1, <1>1 DEF WorkFits
<1>4. Len(apcMbox') <= ApcMboxSize
  BY <1>1, RequestsAssumption
<1> QED BY <1>1, <1>2, <1>3, <1>4

(* The AMI task takes the first answer from its mailbox.                   *)
LEMMA AnswerTaken ==
  ASSUME IInv, amiMbox # <<>>, amiMbox' = Tail(amiMbox), rxData' = rxData
  PROVE  /\ Head(amiMbox) \in Answer /\ Head(amiMbox).index \in Slot
         /\ rxData[Head(amiMbox).index].inUse /\ rxData[Head(amiMbox).index].req \in Request
         /\ amiMbox' \in Seq(Answer) /\ Len(amiMbox') <= AmiMboxSize
         /\ \A j \in Slot :
              /\ Cardinality(Answers(j)) = Cardinality(Answers(j)') + Count(Head(amiMbox).index = j)
              /\ Cardinality(Answers(j)') \in Nat
         /\ AnswersFit'
<1>1. /\ amiMbox \in Seq(Answer) /\ Len(amiMbox) \in Nat \ {0} /\ DOMAIN amiMbox = 1 .. Len(amiMbox)
      /\ Head(amiMbox) \in Answer /\ Head(amiMbox) = amiMbox[1]
      /\ amiMbox' \in Seq(Answer) /\ Len(amiMbox') = Len(amiMbox) - 1
      /\ DOMAIN amiMbox' = 1 .. Len(amiMbox) - 1
      /\ \A k \in 1 .. Len(amiMbox) - 1 : amiMbox'[k] = amiMbox[k + 1]
  BY HeadTailProperties, LenProperties, EmptySeq DEF IInv, TypeOK
<1>2. Head(amiMbox).index \in Slot
  BY <1>1 DEF Answer
<1>3. Answers(Head(amiMbox).index) # {}
  BY <1>1 DEF Answers
<1>4. AnswersFit'
  <2>1. AnswersFit
    BY CarriedOnceParts DEF IInv
  <2> QED BY <2>1, <1>1 DEF AnswersFit
<1>5. Len(amiMbox') <= AmiMboxSize
  BY <1>1, RequestsAssumption DEF IInv, TypeOK
<1>6. \A j \in Slot :
        /\ Cardinality(Answers(j)) = Cardinality(Answers(j)') + Count(Head(amiMbox).index = j)
        /\ Cardinality(Answers(j)') \in Nat
  BY AnswersTail DEF IInv
<1>7. rxData[Head(amiMbox).index].inUse /\ rxData[Head(amiMbox).index].req \in Request
  BY <1>2, <1>3, Named
<1> QED BY <1>1, <1>2, <1>4, <1>5, <1>6, <1>7

(* The APC task takes the first message from its mailbox.                  *)
LEMMA WorkTaken ==
  ASSUME IInv, apcMbox # <<>>, apcMbox' = Tail(apcMbox), rxData' = rxData
  PROVE  /\ Head(apcMbox) \in Work
         /\ Head(apcMbox).type \in Flash
              => Head(apcMbox).for = rxData[Head(apcMbox).index].req
         /\ apcMbox' \in Seq(Work) /\ Len(apcMbox') <= ApcMboxSize
         /\ \A j \in Slot :
              /\ Cardinality(WorkToDo(j)) = Cardinality(WorkToDo(j)')
                   + Count(Head(apcMbox).index = j /\ Head(apcMbox).type \in Flash)
              /\ Cardinality(WorkToDo(j)') \in Nat
         /\ WorkFits'
<1>1. /\ apcMbox \in Seq(Work) /\ Len(apcMbox) \in Nat \ {0} /\ DOMAIN apcMbox = 1 .. Len(apcMbox)
      /\ Head(apcMbox) \in Work /\ Head(apcMbox) = apcMbox[1]
      /\ apcMbox' \in Seq(Work) /\ Len(apcMbox') = Len(apcMbox) - 1
      /\ DOMAIN apcMbox' = 1 .. Len(apcMbox) - 1
      /\ \A k \in 1 .. Len(apcMbox) - 1 : apcMbox'[k] = apcMbox[k + 1]
  BY HeadTailProperties, LenProperties, EmptySeq DEF IInv, TypeOK
<1>2. WorkFits
  BY CarriedOnceParts DEF IInv
<1>3. WorkFits'
  BY <1>1, <1>2 DEF WorkFits
<1>4. Head(apcMbox).type \in Flash => Head(apcMbox).for = rxData[Head(apcMbox).index].req
  BY <1>1, <1>2 DEF WorkFits
<1>5. Len(apcMbox') <= ApcMboxSize
  BY <1>1, RequestsAssumption DEF IInv, TypeOK
<1>6. \A j \in Slot :
        /\ Cardinality(WorkToDo(j)) = Cardinality(WorkToDo(j)')
             + Count(Head(apcMbox).index = j /\ Head(apcMbox).type \in Flash)
        /\ Cardinality(WorkToDo(j)') \in Nat
  BY WorkTail DEF IInv
<1> QED BY <1>1, <1>3, <1>4, <1>5, <1>6

LEMMA AnswersKept ==
  ASSUME UNCHANGED amiMbox, rxData' = rxData \/ (\A j \in Slot : rxData'[j].req = rxData[j].req),
         IInv
  PROVE  (\A j \in Slot : Answers(j)' = Answers(j)) /\ AnswersFit'
<1>1. AnswersFit /\ \A k \in DOMAIN amiMbox : amiMbox[k].index \in Slot
  <2>1. \A k \in DOMAIN amiMbox : amiMbox[k] \in Answer
    BY LenProperties DEF IInv, TypeOK
  <2> QED BY <2>1, CarriedOnceParts DEF IInv, Answer
<1> QED BY <1>1 DEF Answers, AnswersFit

LEMMA WorkKept ==
  ASSUME UNCHANGED apcMbox, rxData' = rxData \/ (\A j \in Slot : rxData'[j].req = rxData[j].req),
         IInv
  PROVE  (\A j \in Slot : WorkToDo(j)' = WorkToDo(j)) /\ WorkFits'
<1>1. WorkFits /\ \A k \in DOMAIN apcMbox : apcMbox[k].index \in Slot
  <2>1. \A k \in DOMAIN apcMbox : apcMbox[k] \in Work
    BY LenProperties DEF IInv, TypeOK
  <2> QED BY <2>1, CarriedOnceParts DEF IInv, Work
<1> QED BY <1>1 DEF WorkToDo, WorkFits

LEMMA ApcKept ==
  ASSUME UNCHANGED apc, rxData' = rxData \/ (\A j \in Slot : rxData'[j].req = rxData[j].req),
         IInv
  PROVE  ApcFits'
<1>1. ApcFits /\ (apc.type \in Flash => apc.index \in Slot)
  BY CarriedOnceParts DEF IInv, TypeOK, Work, Idle, Flash
<1> QED BY <1>1 DEF ApcFits

------------------------------------------------------------------------------
(* One lemma per action.                                                   *)

LEMMA InitIInv == Init => IInv
<1> SUFFICES ASSUME Init PROVE IInv
  OBVIOUS
<1>1. TypeOK
  <2>1. /\ \A S : <<>> \in Seq(S)
        /\ Len(<<>>) = 0 /\ 0 \in Slot /\ 0 <= QueueSize /\ 0 <= AmiMboxSize /\ 0 <= ApcMboxSize
    BY RequestsAssumption, EmptySeq DEF Slot
  <2>2. rxData \in [Slot -> [inUse : BOOLEAN, req : Request \cup {NoRequest}]]
    BY DEF Init
  <2>3. ami \in [at : {"read", "raise", "pend", "free"}, index : Slot]
    BY <2>1 DEF Init
  <2> QED BY <2>1, <2>2, <2>3 DEF Init, TypeOK
<1>2. InUseHolds
  BY DEF Init, InUseHolds
<1>3. \A i \in Slot : Answers(i) = {} /\ WorkToDo(i) = {}
  BY EmptySeq DEF Init, Answers, WorkToDo
<1>4. Cardinality({}) = 0
  BY FS_EmptySet
<1>5. Counted
  <2> SUFFICES ASSUME NEW i \in Slot PROVE Carriers(i) = Count(rxData[i].inUse)
    BY DEF Counted
  <2>1. ~InAmiTask(i) /\ ~InApcTask(i) /\ i \notin unsent /\ ~rxData[i].inUse
    BY DEF Init, InAmiTask, InApcTask, Idle, Flash
  <2>2. Cardinality(Answers(i)) = 0 /\ Cardinality(WorkToDo(i)) = 0
    BY <1>3, <1>4
  <2> QED BY <2>1, <2>2 DEF Carriers, Count
<1>6. AnswersFit /\ WorkFits /\ ApcFits
  BY EmptySeq DEF Init, AnswersFit, WorkFits, ApcFits, Idle, Flash
<1> QED BY <1>1, <1>2, <1>5, <1>6, CarriedOnceParts DEF IInv

(* The queues to and from the host, or nothing, moved.                     *)
LEMMA QueuesMoved ==
  ASSUME IInv, TypeOK', UNCHANGED <<rxData, amiMbox, apc, apcMbox, unsent>>,
         \A i \in Slot : InAmiTask(i)' = InAmiTask(i)
  PROVE  IInv'
<1>1. InUseHolds'
  BY DEF IInv, InUseHolds
<1>2. (\A j \in Slot : Answers(j)' = Answers(j) /\ WorkToDo(j)' = WorkToDo(j))
      /\ AnswersFit' /\ WorkFits' /\ ApcFits'
  BY AnswersKept, WorkKept, ApcKept
<1>3. Counted'
  <2>1. Counted
    BY CarriedOnceParts DEF IInv
  <2> SUFFICES ASSUME NEW j \in Slot PROVE Carriers(j)' = Count(rxData[j].inUse)'
    BY DEF Counted
  <2>2. Carriers(j)' = Carriers(j)
    BY <1>2 DEF Carriers, Count, InApcTask
  <2> QED BY <2>1, <2>2 DEF Counted, Count
<1> QED BY <1>1, <1>2, <1>3, CarriedOnceParts1 DEF IInv

LEMMA HostSendIInv ==
  ASSUME IInv, NEW r \in Request, HostSend(r)
  PROVE  IInv'
<1>1. TypeOK'
  BY AppendProperties, LenProperties, RequestsAssumption DEF IInv, TypeOK, HostSend
<1> QED BY <1>1, QueuesMoved DEF HostSend, InAmiTask

LEMMA HostReceiveIInv ==
  ASSUME IInv, HostReceive
  PROVE  IInv'
<1>1. TypeOK'
  BY AppendProperties, HeadTailProperties, LenProperties, RequestsAssumption
     DEF IInv, TypeOK, HostReceive
<1> QED BY <1>1, QueuesMoved DEF HostReceive, InAmiTask

LEMMA NoRequestToReadIInv ==
  ASSUME IInv, NoRequestToRead
  PROVE  IInv'
<1>1. TypeOK'
  BY RequestsAssumption DEF IInv, TypeOK, NoRequestToRead, GotoAmi, Slot, host
<1> QED BY <1>1, QueuesMoved DEF NoRequestToRead, GotoAmi, InAmiTask

LEMMA RefuseRequestIInv ==
  ASSUME IInv, RefuseRequest
  PROVE  IInv'
<1>1. TypeOK'
  BY SMTT(30), HeadTailProperties, LenProperties, RequestsAssumption
     DEF IInv, TypeOK, RefuseRequest, GotoAmi, Slot, host
<1> QED BY <1>1, QueuesMoved DEF RefuseRequest, GotoAmi, InAmiTask

LEMMA NoAnswerToSendIInv ==
  ASSUME IInv, NoAnswerToSend
  PROVE  IInv'
<1>1. TypeOK'
  BY RequestsAssumption DEF IInv, TypeOK, NoAnswerToSend, GotoAmi, Slot, host
<1> QED BY <1>1, QueuesMoved DEF NoAnswerToSend, GotoAmi, InAmiTask

(* Nothing names the slot that the next request is put in.                 *)
LEMMA ReadRequestIInv ==
  ASSUME IInv, NEW i \in Slot, ReadRequest(i)
  PROVE  IInv'
<1>1. ~rxData[i].inUse
  BY DEF ReadRequest, FirstFree, Free
<1>2. Head(sq) \in Request /\ sq' \in Seq(Request) /\ Len(sq') <= QueueSize
  BY HeadTailProperties, LenProperties, RequestsAssumption DEF IInv, TypeOK, ReadRequest
<1>3. /\ rxData' \in [Slot -> [inUse : BOOLEAN, req : Request \cup {NoRequest}]]
      /\ rxData'[i].inUse /\ rxData'[i].req = Head(sq)
      /\ \A j \in Slot : j # i => rxData'[j] = rxData[j]
  BY <1>2 DEF IInv, TypeOK, ReadRequest
<1>4. TypeOK'
  BY <1>2, <1>3 DEF IInv, TypeOK, ReadRequest, GotoAmi, host
<1>5. InUseHolds'
  BY <1>2, <1>3 DEF IInv, InUseHolds
<1>6. ~InAmiTask(i) /\ ~InApcTask(i) /\ i \notin unsent /\ Answers(i) = {} /\ WorkToDo(i) = {}
  BY <1>1, Named
<1>7. \A j \in Slot : Answers(j)' = Answers(j) /\ WorkToDo(j)' = WorkToDo(j)
  BY DEF ReadRequest, Answers, WorkToDo
<1>8. Counted'
  <2>1. \A j \in Slot : Held(j)' = Held(j) + Count(j = i)
    BY DEF ReadRequest, GotoAmi, InAmiTask, InApcTask, Held, Count
  <2>2. \A j \in Slot : Count(rxData'[j].inUse) = Count(rxData[j].inUse) + Count(j = i)
    BY <1>1, <1>3 DEF Count
  <2>3. \A j \in Slot : Count(j = i) \in Nat
    BY DEF Count
  <2> QED BY <1>7, <2>1, <2>2, <2>3, CarriersParts, CountedBy
<1>9. AnswersFit'
  <2>1. \A k \in DOMAIN amiMbox : amiMbox[k].index \in Slot \ {i}
    <3>1. \A k \in DOMAIN amiMbox : amiMbox[k] \in Answer
      BY LenProperties DEF IInv, TypeOK
    <3> QED BY <3>1, <1>6 DEF Answers, Answer
  <2>2. AnswersFit
    BY CarriedOnceParts DEF IInv
  <2> QED BY <2>1, <2>2, <1>3 DEF AnswersFit, ReadRequest
<1>10. WorkFits'
  <2>1. \A k \in DOMAIN apcMbox :
          apcMbox[k].type \in Flash => apcMbox[k].index \in Slot \ {i}
    <3>1. \A k \in DOMAIN apcMbox : apcMbox[k] \in Work
      BY LenProperties DEF IInv, TypeOK
    <3> QED BY <3>1, <1>6 DEF WorkToDo, Work
  <2>2. WorkFits
    BY CarriedOnceParts DEF IInv
  <2> QED BY <2>1, <2>2, <1>3 DEF WorkFits, ReadRequest
<1>11. ApcFits'
  <2>1. apc.type \in Flash => apc.index \in Slot \ {i}
    BY <1>6 DEF IInv, TypeOK, Work, Idle, Flash, InApcTask
  <2>2. ApcFits
    BY CarriedOnceParts DEF IInv
  <2> QED BY <2>1, <2>2, <1>3 DEF ApcFits, ReadRequest
<1> QED BY <1>4, <1>5, <1>8, <1>9, <1>10, <1>11, CarriedOnceParts1 DEF IInv

(* The event of a slot is handled: the AMI task lets go of the slot, and   *)
(* its answer or its work takes it over.                                   *)
LEMMA RaisedSlot ==
  ASSUME IInv, NEW i \in Slot, NEW ops, Raised(i, ops)
  PROVE  /\ InAmiTask(i) /\ (\A j \in Slot : InAmiTask(j) = (j = i) /\ ~InAmiTask(j)')
         /\ rxData[i].inUse /\ rxData[i].req \in Request /\ opcode[rxData[i].req] \in ops
         /\ ami' \in [at : {"read", "raise", "pend", "free"}, index : Slot]
<1>1. InAmiTask(i) /\ opcode[rxData[i].req] \in ops
  BY DEF Raised, InAmiTask
<1>2. \A j \in Slot : InAmiTask(j) = (j = i) /\ ~InAmiTask(j)'
  BY DEF Raised, InAmiTask, GotoAmi
<1>3. ami' \in [at : {"read", "raise", "pend", "free"}, index : Slot]
  BY RequestsAssumption DEF Raised, GotoAmi, Slot
<1> QED BY <1>1, <1>2, <1>3, Named

LEMMA RaisedHeld ==
  ASSUME NEW i \in Slot, NEW ops, Raised(i, ops), UNCHANGED <<apc, unsent>>
  PROVE  \A j \in Slot :
           Held(j) = Held(j)' + Count(i = j) /\ Held(j)' \in Nat /\ Count(i = j) \in Nat
BY DEF Raised, InAmiTask, InApcTask, GotoAmi, Held, Count

LEMMA AnsweredIInv ==
  ASSUME IInv, NEW i \in Slot, NEW ops, Raised(i, ops), PostAnswer(i, rxData[i].req),
         UNCHANGED <<host, sq, cq, rxData, apc, apcMbox, reset, refused, unsent>>
  PROVE  IInv'
<1>1. /\ amiMbox' \in Seq(Answer) /\ Len(amiMbox') <= AmiMboxSize
      /\ \A j \in Slot : Cardinality(Answers(j)') = Cardinality(Answers(j)) + Count(i = j)
      /\ AnswersFit'
  BY RaisedSlot, Posted
<1>2. TypeOK'
  BY <1>1, RaisedSlot DEF IInv, TypeOK, host
<1>3. InUseHolds'
  BY DEF IInv, InUseHolds
<1>4. (\A j \in Slot : WorkToDo(j)' = WorkToDo(j)) /\ WorkFits' /\ ApcFits'
  BY WorkKept, ApcKept
<1>5. Counted'
  <2>1. \A j \in Slot : Held(j) = Held(j)' + Count(i = j) /\ Held(j)' \in Nat /\ Count(i = j) \in Nat
    BY RaisedHeld
  <2>2. \A j \in Slot :
          /\ Cardinality(Answers(j)') + Cardinality(WorkToDo(j)') + Held(j)' = Count(rxData[j].inUse)
          /\ Cardinality(Answers(j)') \in Nat /\ Cardinality(WorkToDo(j)') \in Nat
    <3> TAKE j \in Slot
    <3>1. Cardinality(Answers(j)') = Cardinality(Answers(j)) + Count(i = j)
      BY <1>1
    <3>2. Cardinality(WorkToDo(j)') = Cardinality(WorkToDo(j))
      BY <1>4
    <3> QED BY <2>1, <3>1, <3>2, CarriersParts
  <2> QED BY <2>2, CountedBy
<1> QED BY <1>1, <1>2, <1>3, <1>4, <1>5, CarriedOnceParts1 DEF IInv

LEMMA PassToApcIInv ==
  ASSUME IInv, NEW i \in Slot, PassToApc(i)
  PROVE  IInv'
<1>1. Raised(i, Flash) /\ UNCHANGED <<host, sq, cq, rxData, amiMbox, apc, reset, refused, unsent>>
  BY DEF PassToApc
<1>2. WorkOn(i) \in Work /\ WorkOn(i).type \in Flash /\ WorkOn(i).index = i
      /\ WorkOn(i).for = rxData[i].req
  BY <1>1, RaisedSlot DEF WorkOn, Work
<1>3. /\ apcMbox' \in Seq(Work) /\ Len(apcMbox') <= ApcMboxSize
      /\ \A j \in Slot : Cardinality(WorkToDo(j)') = Cardinality(WorkToDo(j))
           + Count(WorkOn(i).index = j /\ WorkOn(i).type \in Flash)
      /\ WorkFits'
  BY <1>1, <1>2, PassedOn DEF PassToApc
<1>4. TypeOK'
  BY <1>1, <1>3, RaisedSlot DEF IInv, TypeOK, host
<1>5. InUseHolds'
  BY <1>1 DEF IInv, InUseHolds
<1>6. (\A j \in Slot : Answers(j)' = Answers(j)) /\ AnswersFit' /\ ApcFits'
  BY <1>1, AnswersKept, ApcKept
<1>7. Counted'
  <2>1. \A j \in Slot : Held(j) = Held(j)' + Count(i = j) /\ Held(j)' \in Nat /\ Count(i = j) \in Nat
    BY <1>1, RaisedHeld
  <2>2. \A j \in Slot : Cardinality(WorkToDo(j)') = Cardinality(WorkToDo(j)) + Count(i = j)
    BY <1>2, <1>3
  <2> QED BY <1>1, <1>6, <2>1, <2>2, CarriersParts, CountedBy
<1> QED BY <1>3, <1>4, <1>5, <1>6, <1>7, CarriedOnceParts1 DEF IInv

(* A write of the flags that is passed on is not to be answered.           *)
LEMMA FptFlagsIInv ==
  ASSUME IInv, NEW i \in Slot, FptFlags(i)
  PROVE  IInv'
<1>1. /\ Raised(i, {"fptFlags"}) /\ PostAnswer(i, rxData[i].req)
      /\ UNCHANGED <<host, sq, cq, rxData, apc, reset, refused, unsent>>
  BY DEF FptFlags
<1>2. CASE UNCHANGED apcMbox
  BY <1>1, <1>2, AnsweredIInv
<1>3. CASE Len(apcMbox) < ApcMboxSize /\ apcMbox' = Append(apcMbox, WorkOn(i))
  <2>1. WorkOn(i) \in Work /\ WorkOn(i).type \notin Flash
    BY <1>1, RaisedSlot DEF WorkOn, Work, Flash
  <2>2. /\ apcMbox' \in Seq(Work) /\ Len(apcMbox') <= ApcMboxSize
        /\ \A j \in Slot : Cardinality(WorkToDo(j)') = Cardinality(WorkToDo(j))
             + Count(WorkOn(i).index = j /\ WorkOn(i).type \in Flash)
        /\ WorkFits'
    BY <1>1, <1>3, <2>1, PassedOn
  <2>3. /\ amiMbox' \in Seq(Answer) /\ Len(amiMbox') <= AmiMboxSize
        /\ \A j \in Slot : Cardinality(Answers(j)') = Cardinality(Answers(j)) + Count(i = j)
        /\ AnswersFit'
    BY <1>1, RaisedSlot, Posted
  <2>4. TypeOK'
    BY <1>1, <2>2, <2>3, RaisedSlot DEF IInv, TypeOK, host
  <2>5. InUseHolds'
    BY <1>1 DEF IInv, InUseHolds
  <2>6. ApcFits'
    BY <1>1, ApcKept
  <2>7. Counted'
    <3>1. \A j \in Slot : Held(j) = Held(j)' + Count(i = j) /\ Held(j)' \in Nat /\ Count(i = j) \in Nat
      BY <1>1, RaisedHeld
    <3>2. \A j \in Slot : Cardinality(WorkToDo(j)') = Cardinality(WorkToDo(j))
      BY <2>1, <2>2, CarriersParts DEF Count
    <3>3. \A j \in Slot :
            /\ Cardinality(Answers(j)') + Cardinality(WorkToDo(j)') + Held(j)' = Count(rxData[j].inUse)
            /\ Cardinality(Answers(j)') \in Nat /\ Cardinality(WorkToDo(j)') \in Nat
      <4> TAKE j \in Slot
      <4>1. Cardinality(Answers(j)') = Cardinality(Answers(j)) + Count(i = j)
        BY <2>3
      <4> QED BY <3>1, <3>2, <4>1, CarriersParts
    <3> QED BY <3>3, <1>1, CountedBy
  <2> QED BY <2>2, <2>3, <2>4, <2>5, <2>6, <2>7, CarriedOnceParts1 DEF IInv
<1> QED BY <1>2, <1>3 DEF FptFlags

(* The answer leaves its mailbox; the task still holds its slot.           *)
LEMMA SendAnswerIInv ==
  ASSUME IInv, SendAnswer
  PROVE  IInv'
<1> DEFINE h == Head(amiMbox).index
<1>1. /\ h \in Slot /\ rxData[h].req \in Request
      /\ amiMbox' \in Seq(Answer) /\ Len(amiMbox') <= AmiMboxSize
      /\ \A j \in Slot : /\ Cardinality(Answers(j)) = Cardinality(Answers(j)') + Count(h = j)
                        /\ Cardinality(Answers(j)') \in Nat
      /\ AnswersFit'
  BY AnswerTaken DEF SendAnswer
<1>2. cq' \in Seq(Request) /\ Len(cq') <= QueueSize
  BY <1>1, AppendProperties, LenProperties, RequestsAssumption DEF IInv, TypeOK, SendAnswer
<1>3. TypeOK'
  BY <1>1, <1>2 DEF IInv, TypeOK, SendAnswer, GotoAmi, host
<1>4. InUseHolds'
  BY DEF IInv, InUseHolds, SendAnswer
<1>5. (\A j \in Slot : WorkToDo(j)' = WorkToDo(j)) /\ WorkFits' /\ ApcFits'
  BY WorkKept, ApcKept DEF SendAnswer
<1>6. Counted'
  <2>1. \A j \in Slot : Held(j)' = Held(j) + Count(h = j) /\ Held(j) \in Nat /\ Count(h = j) \in Nat
    BY DEF SendAnswer, GotoAmi, InAmiTask, InApcTask, Held, Count
  <2>2. \A j \in Slot :
          /\ Cardinality(Answers(j)') + Cardinality(WorkToDo(j)') + Held(j)' = Count(rxData'[j].inUse)
          /\ Cardinality(Answers(j)') \in Nat /\ Cardinality(WorkToDo(j)') \in Nat
    <3> TAKE j \in Slot
    <3>1. Cardinality(Answers(j)) = Cardinality(Answers(j)') + Count(h = j)
      BY <1>1
    <3>2. Cardinality(Answers(j)') \in Nat
      BY <1>1
    <3>3. rxData' = rxData
      BY DEF SendAnswer
    <3> QED BY <1>5, <2>1, <3>1, <3>2, <3>3, CarriersParts
  <2> QED BY <2>2, CountedBy
<1> QED BY <1>1, <1>3, <1>4, <1>5, <1>6, CarriedOnceParts1 DEF IInv

(* The answer is lost, and its slot stays in use.                          *)
LEMMA AnswerUnsentIInv ==
  ASSUME IInv, AnswerUnsent
  PROVE  IInv'
<1> DEFINE h == Head(amiMbox).index
<1>1. /\ h \in Slot /\ Head(amiMbox) \in Answer
      /\ amiMbox' \in Seq(Answer) /\ Len(amiMbox') <= AmiMboxSize
      /\ \A j \in Slot : /\ Cardinality(Answers(j)) = Cardinality(Answers(j)') + Count(h = j)
                        /\ Cardinality(Answers(j)') \in Nat
      /\ AnswersFit'
  BY AnswerTaken DEF AnswerUnsent
<1>2. TypeOK'
  <2>1. ami' \in [at : {"read", "raise", "pend", "free"}, index : Slot]
    BY RequestsAssumption DEF AnswerUnsent, GotoAmi, Slot
  <2>2. unsent' \subseteq Slot
    BY <1>1 DEF IInv, TypeOK, AnswerUnsent
  <2> QED BY <1>1, <2>1, <2>2 DEF IInv, TypeOK, AnswerUnsent, host
<1>3. InUseHolds'
  BY DEF IInv, InUseHolds, AnswerUnsent
<1>4. (\A j \in Slot : WorkToDo(j)' = WorkToDo(j)) /\ WorkFits' /\ ApcFits'
  BY WorkKept, ApcKept DEF AnswerUnsent
<1>5. h \notin unsent
  <2>2. Cardinality(Answers(h)) # 0
    <3> HIDE DEF h
    <3>1. \A j \in Slot : j = h => Cardinality(Answers(j)) = Cardinality(Answers(j)') + 1
                                   /\ Cardinality(Answers(j)') \in Nat
      BY <1>1 DEF Count
    <3>2. h \in Slot
      BY <1>1
    <3> QED BY <3>1, <3>2
  <2>3. Held(h) = 0
    BY <1>1, <2>2, CarriersParts DEF Count
  <2> QED BY <2>3 DEF Held, Count
<1>6. Counted'
  <2>1. \A j \in Slot : Held(j)' = Held(j) + Count(h = j) /\ Held(j) \in Nat /\ Count(h = j) \in Nat
    BY <1>5 DEF AnswerUnsent, GotoAmi, InAmiTask, InApcTask, Held, Count
  <2>2. \A j \in Slot :
          /\ Cardinality(Answers(j)') + Cardinality(WorkToDo(j)') + Held(j)' = Count(rxData'[j].inUse)
          /\ Cardinality(Answers(j)') \in Nat /\ Cardinality(WorkToDo(j)') \in Nat
    <3> TAKE j \in Slot
    <3>1. Cardinality(Answers(j)) = Cardinality(Answers(j)') + Count(h = j)
      BY <1>1
    <3>2. Cardinality(Answers(j)') \in Nat
      BY <1>1
    <3>3. rxData' = rxData
      BY DEF AnswerUnsent
    <3> QED BY <1>4, <2>1, <3>1, <3>2, <3>3, CarriersParts
  <2> QED BY <2>2, CountedBy
<1> QED BY <1>1, <1>2, <1>3, <1>4, <1>6, CarriedOnceParts1 DEF IInv

(* The slot the AMI task holds is free, and nothing else names it.         *)
LEMMA FreeSlotIInv ==
  ASSUME IInv, FreeSlot
  PROVE  IInv'
<1> DEFINE h == ami.index
<1>1. h \in Slot /\ InAmiTask(h)
  BY DEF FreeSlot, InAmiTask, IInv, TypeOK
<1>2. /\ rxData' \in [Slot -> [inUse : BOOLEAN, req : Request \cup {NoRequest}]]
      /\ ~rxData'[h].inUse
      /\ \A j \in Slot : rxData'[j].req = rxData[j].req
      /\ \A j \in Slot : j # h => rxData'[j].inUse = rxData[j].inUse
  BY <1>1, ZenonT(30) DEF FreeSlot, IInv, TypeOK
<1>3. TypeOK'
  BY <1>2, RequestsAssumption DEF IInv, TypeOK, FreeSlot, GotoAmi, host, Slot
<1>4. InUseHolds'
  BY <1>2 DEF IInv, InUseHolds
<1>5. (\A j \in Slot : Answers(j)' = Answers(j) /\ WorkToDo(j)' = WorkToDo(j))
      /\ AnswersFit' /\ WorkFits' /\ ApcFits'
  BY <1>2, AnswersKept, WorkKept, ApcKept DEF FreeSlot
<1>6. Counted'
  <2>1. \A j \in Slot : Held(j) = Held(j)' + Count(h = j) /\ Held(j)' \in Nat /\ Count(h = j) \in Nat
    BY DEF FreeSlot, GotoAmi, InAmiTask, InApcTask, Held, Count
  <2>2. \A j \in Slot : Count(rxData[j].inUse) = Count(rxData'[j].inUse) + Count(h = j)
    BY <1>1, <1>2, Named DEF Count
  <2>3. \A j \in Slot : Count(rxData'[j].inUse) \in Nat
    BY DEF Count
  <2> QED BY <1>5, <2>1, <2>2, <2>3, CarriersParts, CountedBy
<1> QED BY <1>3, <1>4, <1>5, <1>6, CarriedOnceParts1 DEF IInv

(* The work leaves its mailbox; the APC task holds its slot.               *)
LEMMA TakeWorkIInv ==
  ASSUME IInv, TakeWork
  PROVE  IInv'
<1> DEFINE w == Head(apcMbox)
<1>1. UNCHANGED <<host, amiTask, amiMbox, reset>> /\ apc' = w /\ rxData' = rxData
  BY DEF TakeWork, amiTask
<1>2. /\ w \in Work /\ (w.type \in Flash => w.for = rxData[w.index].req)
      /\ apcMbox' \in Seq(Work) /\ Len(apcMbox') <= ApcMboxSize
      /\ \A j \in Slot :
           /\ Cardinality(WorkToDo(j))
                = Cardinality(WorkToDo(j)') + Count(w.index = j /\ w.type \in Flash)
           /\ Cardinality(WorkToDo(j)') \in Nat
      /\ WorkFits'
  BY <1>1, WorkTaken DEF TakeWork
<1>3. TypeOK'
  BY <1>1, <1>2 DEF IInv, TypeOK, host, amiTask
<1>4. InUseHolds'
  BY <1>1 DEF IInv, InUseHolds
<1>5. (\A j \in Slot : Answers(j)' = Answers(j)) /\ AnswersFit'
  BY <1>1, AnswersKept
<1>6. ApcFits'
  BY <1>1, <1>2 DEF ApcFits
<1>7. Counted'
  <2>1. \A j \in Slot : Held(j)' = Held(j) + Count(w.index = j /\ w.type \in Flash)
                      /\ Held(j) \in Nat /\ Count(w.index = j /\ w.type \in Flash) \in Nat
    BY <1>1 DEF TakeWork, amiTask, InAmiTask, InApcTask, Held, Count, Idle, Flash
  <2>2. \A j \in Slot :
          /\ Cardinality(Answers(j)') + Cardinality(WorkToDo(j)') + Held(j)' = Count(rxData'[j].inUse)
          /\ Cardinality(Answers(j)') \in Nat /\ Cardinality(WorkToDo(j)') \in Nat
    <3> TAKE j \in Slot
    <3>1. Cardinality(WorkToDo(j))
            = Cardinality(WorkToDo(j)') + Count(w.index = j /\ w.type \in Flash)
      BY <1>2
    <3>2. Cardinality(WorkToDo(j)') \in Nat
      BY <1>2
    <3> QED BY <1>1, <1>5, <2>1, <3>1, <3>2, CarriersParts
  <2> QED BY <2>2, CountedBy
<1> QED BY <1>2, <1>3, <1>4, <1>5, <1>6, <1>7, CarriedOnceParts1 DEF IInv

(* The work of the APC task is done; its answer takes the slot over.       *)
LEMMA FlashSlot ==
  ASSUME IInv, apc.type \in Flash
  PROVE  /\ apc \in Work /\ apc.index \in Slot /\ InApcTask(apc.index)
         /\ apc.for = rxData[apc.index].req
BY CarriedOnceParts DEF IInv, TypeOK, Idle, Flash, Work, InApcTask, ApcFits

LEMMA ApcAnsweredHeld ==
  ASSUME apc.type \in Flash, apc' = Idle, UNCHANGED <<ami, unsent>>
  PROVE  \A j \in Slot : /\ Held(j) = Held(j)' + Count(apc.index = j)
                        /\ Held(j)' \in Nat /\ Count(apc.index = j) \in Nat
BY DEF InAmiTask, InApcTask, Held, Count, Idle, Flash

LEMMA ApcAnswered ==
  ASSUME IInv, apc.type \in Flash, apc' = Idle, PostAnswer(apc.index, apc.for),
         UNCHANGED amiTask, UNCHANGED host,
         \A j \in Slot : Cardinality(WorkToDo(j)') = Cardinality(WorkToDo(j))
  PROVE  amiMbox' \in Seq(Answer) /\ Len(amiMbox') <= AmiMboxSize /\ AnswersFit' /\ Counted'
<1>1. UNCHANGED <<rxData, ami, unsent>>
  BY DEF amiTask
<1>2. /\ amiMbox' \in Seq(Answer) /\ Len(amiMbox') <= AmiMboxSize
      /\ \A j \in Slot : Cardinality(Answers(j)') = Cardinality(Answers(j)) + Count(apc.index = j)
      /\ AnswersFit'
  <2>1. PostAnswer(apc.index, rxData[apc.index].req) /\ apc.index \in Slot /\ InApcTask(apc.index)
    BY FlashSlot
  <2> QED BY <2>1, <1>1, Posted
<1>3. Counted'
  <2>1. \A j \in Slot : /\ Held(j) = Held(j)' + Count(apc.index = j)
                       /\ Held(j)' \in Nat /\ Count(apc.index = j) \in Nat
    BY <1>1, ApcAnsweredHeld
  <2>2. \A j \in Slot :
          /\ Cardinality(Answers(j)') + Cardinality(WorkToDo(j)') + Held(j)' = Count(rxData'[j].inUse)
          /\ Cardinality(Answers(j)') \in Nat /\ Cardinality(WorkToDo(j)') \in Nat
    <3> TAKE j \in Slot
    <3>1. Cardinality(Answers(j)') = Cardinality(Answers(j)) + Count(apc.index = j)
      BY <1>2
    <3> QED BY <1>1, <2>1, <3>1, CarriersParts
  <2> QED BY <2>2, CountedBy
<1> QED BY <1>2, <1>3

LEMMA FlashDoneIInv ==
  ASSUME IInv, FlashDone
  PROVE  IInv'
<1>1. /\ apc.type \in Flash /\ apc' = Idle /\ PostAnswer(apc.index, apc.for)
      /\ UNCHANGED amiTask /\ UNCHANGED host /\ UNCHANGED <<apcMbox, reset, rxData>>
  BY DEF FlashDone, Done, amiTask
<1>2. (\A j \in Slot : WorkToDo(j)' = WorkToDo(j)) /\ WorkFits'
  BY <1>1, WorkKept
<1>3. amiMbox' \in Seq(Answer) /\ Len(amiMbox') <= AmiMboxSize /\ AnswersFit' /\ Counted'
  BY <1>1, <1>2, ApcAnswered
<1>4. TypeOK'
  BY <1>1, <1>3 DEF IInv, TypeOK, host, amiTask
<1>5. InUseHolds' /\ ApcFits'
  BY <1>1 DEF IInv, InUseHolds, ApcFits, Idle, Flash
<1> QED BY <1>2, <1>3, <1>4, <1>5, CarriedOnceParts1 DEF IInv

LEMMA PartitionSelectedIInv ==
  ASSUME IInv, PartitionSelected
  PROVE  IInv'
<1> DEFINE w == [apc EXCEPT !.type = "por"]
<1>1. /\ apc.type \in Flash /\ apc' = Idle /\ PostAnswer(apc.index, apc.for)
      /\ Len(apcMbox) < ApcMboxSize /\ apcMbox' = Append(apcMbox, w)
      /\ UNCHANGED amiTask /\ UNCHANGED host /\ UNCHANGED <<reset, rxData>>
  BY DEF PartitionSelected, Done, amiTask, Flash
<1>2. w \in Work /\ w.type \notin Flash
  BY <1>1, FlashSlot DEF Work, Flash
<1>3. /\ apcMbox' \in Seq(Work) /\ Len(apcMbox') <= ApcMboxSize
      /\ \A j \in Slot : Cardinality(WorkToDo(j)')
           = Cardinality(WorkToDo(j)) + Count(w.index = j /\ w.type \in Flash)
      /\ WorkFits'
  BY <1>1, <1>2, PassedOn
<1>4. \A j \in Slot : Cardinality(WorkToDo(j)') = Cardinality(WorkToDo(j))
  BY <1>2, <1>3, CarriersParts DEF Count
<1>5. amiMbox' \in Seq(Answer) /\ Len(amiMbox') <= AmiMboxSize /\ AnswersFit' /\ Counted'
  BY <1>1, <1>4, ApcAnswered
<1>6. TypeOK'
  BY <1>1, <1>3, <1>5 DEF IInv, TypeOK, host, amiTask
<1>7. InUseHolds' /\ ApcFits'
  BY <1>1 DEF IInv, InUseHolds, ApcFits, Idle, Flash
<1> QED BY <1>3, <1>5, <1>6, <1>7, CarriedOnceParts1 DEF IInv

(* Work that nobody waits for is done.                                     *)
LEMMA ApcFinished ==
  ASSUME IInv, apc.type \notin Flash, apc' = Idle, reset' \in BOOLEAN,
         UNCHANGED <<host, amiTask, amiMbox, apcMbox>>
  PROVE  IInv'
<1>1. UNCHANGED <<rxData, ami, unsent>>
  BY DEF amiTask
<1>2. TypeOK'
  BY DEF IInv, TypeOK, host, amiTask
<1>3. InUseHolds' /\ ApcFits'
  BY <1>1 DEF IInv, InUseHolds, ApcFits, Idle, Flash
<1>4. (\A j \in Slot : Answers(j)' = Answers(j) /\ WorkToDo(j)' = WorkToDo(j))
      /\ AnswersFit' /\ WorkFits'
  BY <1>1, AnswersKept, WorkKept
<1>5. \A j \in Slot : Held(j)' = Held(j)
  BY <1>1 DEF Held, InAmiTask, InApcTask, Count, Idle, Flash
<1>6. Counted'
  BY <1>1, <1>4, <1>5, CarriersParts, CountedBy
<1> QED BY <1>2, <1>3, <1>4, <1>6, CarriedOnceParts1 DEF IInv

LEMMA NextIInv == IInv /\ [Next]_vars => IInv'
<1> SUFFICES ASSUME IInv, [Next]_vars PROVE IInv'
  OBVIOUS
<1>1. ASSUME NEW r \in Request, HostSend(r) PROVE IInv'
  BY <1>1, HostSendIInv
<1>2. CASE HostReceive
  BY <1>2, HostReceiveIInv
<1>3. CASE AmiStep
  <2>1. CASE NoRequestToRead
    BY <2>1, NoRequestToReadIInv
  <2>2. CASE RefuseRequest
    BY <2>2, RefuseRequestIInv
  <2>3. ASSUME NEW i \in Slot, ReadRequest(i) PROVE IInv'
    BY <2>3, ReadRequestIInv
  <2>4. ASSUME NEW i \in Slot, AnswerAtOnce(i) PROVE IInv'
    BY <2>4, AnsweredIInv DEF AnswerAtOnce
  <2>5. ASSUME NEW i \in Slot, PassToApc(i) PROVE IInv'
    BY <2>5, PassToApcIInv
  <2>6. ASSUME NEW i \in Slot, FlashRefused(i) PROVE IInv'
    BY <2>6, AnsweredIInv DEF FlashRefused
  <2>7. ASSUME NEW i \in Slot, FptFlags(i) PROVE IInv'
    BY <2>7, FptFlagsIInv
  <2>8. CASE NoAnswerToSend
    BY <2>8, NoAnswerToSendIInv
  <2>9. CASE SendAnswer
    BY <2>9, SendAnswerIInv
  <2>10. CASE AnswerUnsent
    BY <2>10, AnswerUnsentIInv
  <2>11. CASE FreeSlot
    BY <2>11, FreeSlotIInv
  <2> QED BY <1>3, <2>1, <2>2, <2>3, <2>4, <2>5, <2>6, <2>7, <2>8, <2>9, <2>10, <2>11
          DEF AmiStep, Raise
<1>4. CASE ApcStep
  <2>1. CASE TakeWork
    BY <2>1, TakeWorkIInv
  <2>2. CASE FlashDone
    BY <2>2, FlashDoneIInv
  <2>3. CASE PartitionSelected
    BY <2>3, PartitionSelectedIInv
  <2>4. CASE FptFlagsDone
    BY <2>4, ApcFinished DEF FptFlagsDone, Done, Flash, IInv, TypeOK
  <2>5. CASE PowerOnReset
    BY <2>5, ApcFinished DEF PowerOnReset, Done, Flash
  <2> QED BY <1>4, <2>1, <2>2, <2>3, <2>4, <2>5 DEF ApcStep
<1>5. CASE UNCHANGED vars
  <2>1. TypeOK'
    BY <1>5 DEF IInv, TypeOK, vars
  <2> QED BY <1>5, <2>1, QueuesMoved DEF vars, InAmiTask
<1> QED BY <1>1, <1>2, <1>3, <1>4, <1>5 DEF Next

------------------------------------------------------------------------------
THEOREM Inductive == Spec => []IInv
BY InitIInv, NextIInv, PTL DEF Spec

(* Each variable stays in its type: no slot, no queue and no mailbox is    *)
(* ever overrun.                                                           *)
THEOREM Types == Spec => []TypeOK
<1>1. IInv => TypeOK
  BY DEF IInv
<1> QED BY <1>1, Inductive, PTL

(* Each slot in use is named by one message or task alone, which was made  *)
(* for the request the slot holds: a slot is never given away under an     *)
(* answer that is still to come, nor freed twice, nor forgotten.           *)
THEOREM CarriedOnce == Spec => []SlotCarriedOnce
<1>1. IInv => SlotCarriedOnce
  BY DEF IInv
<1> QED BY <1>1, Inductive, PTL

(* No answer is lost for want of room in the mailbox of the AMI task,      *)
(* whoever posts it: a post does not wait, and an answer that did not fit  *)
(* would leave its request and its slot taken for ever.                    *)
MailboxRoom ==
  \A i \in Slot : InAmiTask(i) \/ InApcTask(i) => Len(amiMbox) < AmiMboxSize

THEOREM AnswersAlwaysFit == Spec => []MailboxRoom
<1>1. IInv => MailboxRoom
  BY AnswerFits DEF IInv, MailboxRoom
<1> QED BY <1>1, Inductive, PTL

------------------------------------------------------------------------------
(* Where a request is: it waits to be read, or holds a slot until its      *)
(* answer is sent, or its answer waits or was read, or it was refused.     *)

Waiting(i) == rxData[i].inUse /\ ~(ami.at = "free" /\ ami.index = i)
Holders(r) == {i \in Slot : Waiting(i) /\ rxData[i].req = r}

Whereabouts(r) ==
  Cardinality(Places(sq, {r})) + Cardinality(Holders(r)) + Cardinality(Places(cq, {r}))
    + Cardinality(Places(received, {r})) + Count(r \in refused)
Once == \A r \in Request : Whereabouts(r) = Count(r \in sent)

CountsNat(r) ==
  /\ Cardinality(Holders(r)) \in Nat /\ Cardinality(Holders(r)') \in Nat
  /\ Cardinality(Places(sq, {r})) \in Nat /\ Cardinality(Places(cq, {r})) \in Nat
  /\ Cardinality(Places(received, {r})) \in Nat
  /\ Count(r \in refused) \in Nat /\ Count(r \in sent) \in {0, 1}

LEMMA HoldersFinite ==
  \A r : /\ IsFiniteSet(Holders(r)) /\ Cardinality(Holders(r)) \in Nat
         /\ IsFiniteSet(Holders(r)') /\ Cardinality(Holders(r)') \in Nat
<1> TAKE r
<1>1. IsFiniteSet(Slot)
  BY FS_Interval, RequestsAssumption DEF Slot
<1>2. Holders(r) \in SUBSET Slot /\ Holders(r)' \in SUBSET Slot
  BY DEF Holders
<1> QED BY <1>1, <1>2, FS_Subset, FS_CardinalityType

LEMMA OnceAt ==
  ASSUME TypeOK, Once, NEW r \in Request
  PROVE  Whereabouts(r) = Count(r \in sent) /\ CountsNat(r)
<1>1. sq \in Seq(Request) /\ cq \in Seq(Request) /\ received \in Seq(Request)
  BY DEF TypeOK
<1>2. Count(r \in refused) \in Nat /\ Count(r \in sent) \in {0, 1}
  BY DEF Count
<1>3. /\ Cardinality(Places(sq, {r})) \in Nat /\ Cardinality(Places(cq, {r})) \in Nat
      /\ Cardinality(Places(received, {r})) \in Nat
  BY <1>1, PlacesFinite
<1> QED BY <1>2, <1>3, HoldersFinite DEF Once, CountsNat

LEMMA InitOnce == Init => Once
<1> SUFFICES ASSUME Init, NEW r \in Request
             PROVE  Whereabouts(r) = Count(r \in sent)
  BY DEF Once
<1>1. Places(sq, {r}) = {} /\ Places(cq, {r}) = {} /\ Places(received, {r}) = {}
  BY EmptySeq DEF Init, Places
<1>2. Holders(r) = {}
  BY DEF Init, Holders, Waiting
<1>3. Cardinality({}) = 0
  BY FS_EmptySet
<1>4. Count(r \in refused) = 0 /\ Count(r \in sent) = 0
  BY DEF Init, Count
<1> QED BY <1>1, <1>2, <1>3, <1>4 DEF Whereabouts

(* Steps that leave the host, the queues and the slots alone.              *)
LEMMA OnceKept ==
  ASSUME Once, UNCHANGED <<sent, sq, cq, received, refused>>,
         \A i \in Slot : Waiting(i)' = Waiting(i),
         \A i \in Slot : rxData'[i].req = rxData[i].req
  PROVE  Once'
<1>1. \A r \in Request : Holders(r)' = Holders(r)
  BY DEF Holders
<1> QED BY <1>1 DEF Once, Whereabouts

LEMMA HostSendOnce ==
  ASSUME TypeOK, Once, NEW s \in Request, HostSend(s)
  PROVE  Once'
<1> SUFFICES ASSUME NEW r \in Request
             PROVE  Whereabouts(r)' = Count(r \in sent)'
  BY DEF Once
<1>0. Whereabouts(r) = Count(r \in sent) /\ CountsNat(r)
  BY OnceAt
<1>1. Cardinality(Places(sq', {r})) = Cardinality(Places(sq, {r})) + Count(s \in {r})
  <2>1. sq \in Seq(Request) /\ sq' = Append(sq, s)
    BY DEF TypeOK, HostSend
  <2> QED BY <2>1, PlacesAppend
<1>2. Count(r \in sent') = Count(r \in sent) + Count(s \in {r}) /\ Count(s \in {r}) \in Nat
  BY DEF HostSend, Count
<1>3. Holders(r)' = Holders(r) /\ UNCHANGED <<cq, received, refused>>
  BY DEF HostSend, Holders, Waiting
<1>4. /\ Cardinality(Holders(r)') = Cardinality(Holders(r))
      /\ Cardinality(Places(cq', {r})) = Cardinality(Places(cq, {r}))
      /\ Cardinality(Places(received', {r})) = Cardinality(Places(received, {r}))
      /\ Count(r \in refused') = Count(r \in refused)
  BY <1>3
<1> QED BY <1>0, <1>1, <1>2, <1>4 DEF Whereabouts, CountsNat

LEMMA HostReceiveOnce ==
  ASSUME TypeOK, Once, HostReceive
  PROVE  Once'
<1> SUFFICES ASSUME NEW r \in Request
             PROVE  Whereabouts(r)' = Count(r \in sent)'
  BY DEF Once
<1>0. Whereabouts(r) = Count(r \in sent) /\ CountsNat(r)
  BY OnceAt
<1>1. /\ cq \in Seq(Request) /\ cq # <<>> /\ cq' = Tail(cq) /\ Head(cq) \in Request
      /\ received \in Seq(Request) /\ received' = Append(received, Head(cq))
      /\ cq' \in Seq(Request)
  BY HeadTailProperties DEF TypeOK, HostReceive
<1>2. Cardinality(Places(cq, {r})) = Cardinality(Places(cq', {r})) + Count(Head(cq) \in {r})
  BY <1>1, PlacesTail
<1>3. Cardinality(Places(received', {r}))
        = Cardinality(Places(received, {r})) + Count(Head(cq) \in {r})
  BY <1>1, PlacesAppend
<1>4. Holders(r)' = Holders(r) /\ UNCHANGED <<sq, sent, refused>>
  BY DEF HostReceive, Holders, Waiting
<1>5. Count(Head(cq) \in {r}) \in Nat /\ Cardinality(Places(cq', {r})) \in Nat
  BY <1>1, PlacesFinite DEF Count
<1> QED BY <1>0, <1>2, <1>3, <1>4, <1>5 DEF Whereabouts, CountsNat

(* The request read from the queue is put in a slot that no request held.  *)
LEMMA ReadRequestOnce ==
  ASSUME TypeOK, Once, NEW i \in Slot, ReadRequest(i)
  PROVE  Once'
<1> SUFFICES ASSUME NEW r \in Request
             PROVE  Whereabouts(r)' = Count(r \in sent)'
  BY DEF Once
<1>0. Whereabouts(r) = Count(r \in sent) /\ CountsNat(r)
  BY OnceAt
<1>1. /\ sq \in Seq(Request) /\ sq # <<>> /\ sq' = Tail(sq) /\ sq' \in Seq(Request)
      /\ ~rxData[i].inUse /\ ami.at = "read" /\ ami'.at = "raise"
  BY HeadTailProperties DEF TypeOK, ReadRequest, FirstFree, Free, GotoAmi
<1>2. Cardinality(Places(sq, {r})) = Cardinality(Places(sq', {r})) + Count(Head(sq) \in {r})
  BY <1>1, PlacesTail
<1>3. /\ rxData'[i].inUse /\ rxData'[i].req = Head(sq)
      /\ \A j \in Slot : j # i => rxData'[j] = rxData[j]
  BY DEF ReadRequest, TypeOK
<1>4. Cardinality(Holders(r)') = Cardinality(Holders(r)) + Count(Head(sq) \in {r})
  <2>1. i \notin Holders(r)
    BY <1>1 DEF Holders, Waiting
  <2>2. CASE Head(sq) = r
    <3>1. Holders(r)' = Holders(r) \cup {i}
      BY <1>1, <1>3, <2>2 DEF Holders, Waiting
    <3>2. Cardinality(Holders(r)') = Cardinality(Holders(r)) + 1
      BY <2>1, <3>1, HoldersFinite, FS_AddElement
    <3> QED BY <2>2, <3>2 DEF Count
  <2>3. CASE Head(sq) # r
    <3>1. Holders(r)' = Holders(r)
      BY <1>1, <1>3, <2>3 DEF Holders, Waiting
    <3> QED BY <2>3, <3>1, HoldersFinite DEF Count
  <2> QED BY <2>2, <2>3
<1>5. UNCHANGED <<sent, cq, received, refused>>
  BY DEF ReadRequest, host
<1>6. Count(Head(sq) \in {r}) \in Nat /\ Cardinality(Places(sq', {r})) \in Nat
  BY <1>1, PlacesFinite DEF Count
<1> QED BY <1>0, <1>2, <1>4, <1>5, <1>6 DEF Whereabouts, CountsNat

LEMMA RefuseRequestOnce ==
  ASSUME TypeOK, Once, RefuseRequest
  PROVE  Once'
<1> SUFFICES ASSUME NEW r \in Request
             PROVE  Whereabouts(r)' = Count(r \in sent)'
  BY DEF Once
<1>0. Whereabouts(r) = Count(r \in sent) /\ CountsNat(r)
  BY OnceAt
<1>1. /\ sq \in Seq(Request) /\ sq # <<>> /\ sq' = Tail(sq) /\ sq' \in Seq(Request)
      /\ Head(sq) \in Request
  BY HeadTailProperties DEF TypeOK, RefuseRequest
<1>2. Cardinality(Places(sq, {r})) = Cardinality(Places(sq', {r})) + Count(Head(sq) \in {r})
  BY <1>1, PlacesTail
<1>3. Count(Head(sq) \in {r}) \in Nat /\ Cardinality(Places(sq', {r})) \in Nat
  BY <1>1, PlacesFinite DEF Count
<1>4. Count(r \in refused') = Count(r \in refused) + Count(Head(sq) \in {r})
  <2>1. CASE Head(sq) = r
    <3>1. Count(Head(sq) \in {r}) = 1
      BY <2>1 DEF Count
    <3>2. Cardinality(Places(sq, {r})) >= 1
      BY <1>2, <1>3, <3>1
    <3>3. Count(r \in refused) = 0
      BY <1>0, <3>2 DEF Whereabouts, CountsNat
    <3> QED BY <2>1, <3>1, <3>3 DEF RefuseRequest, Count
  <2>2. CASE Head(sq) # r
    BY <2>2 DEF RefuseRequest, Count
  <2> QED BY <2>1, <2>2
<1>5. Holders(r)' = Holders(r) /\ UNCHANGED <<sent, cq, received>>
  BY DEF RefuseRequest, Holders, Waiting, GotoAmi, host
<1>6. /\ Cardinality(Holders(r)') = Cardinality(Holders(r))
      /\ Cardinality(Places(cq', {r})) = Cardinality(Places(cq, {r}))
      /\ Cardinality(Places(received', {r})) = Cardinality(Places(received, {r}))
      /\ Count(r \in sent') = Count(r \in sent)
  BY <1>5
<1> QED BY <1>0, <1>2, <1>3, <1>4, <1>6 DEF Whereabouts, CountsNat

(* The answer is sent, with the id in the slot it names.                   *)
LEMMA SendAnswerOnce ==
  ASSUME IInv, Once, SendAnswer
  PROVE  Once'
<1> DEFINE h == Head(amiMbox).index
           q == rxData[h].req
<1> SUFFICES ASSUME NEW r \in Request
             PROVE  Whereabouts(r)' = Count(r \in sent)'
  BY DEF Once
<1>0. Whereabouts(r) = Count(r \in sent) /\ CountsNat(r)
  BY OnceAt DEF IInv
<1>1. /\ h \in Slot /\ rxData[h].inUse /\ q \in Request
  BY AnswerTaken DEF SendAnswer
<1>2. /\ cq \in Seq(Request) /\ cq' = Append(cq, q) /\ rxData' = rxData
      /\ ami.at = "pend" /\ ami'.at = "free" /\ ami'.index = h
      /\ UNCHANGED <<sq, sent, received, refused>>
  BY DEF IInv, TypeOK, SendAnswer, GotoAmi, host
<1>3. Cardinality(Places(cq', {r})) = Cardinality(Places(cq, {r})) + Count(q \in {r})
  BY <1>1, <1>2, PlacesAppend
<1>4. Cardinality(Holders(r)) = Cardinality(Holders(r)') + Count(q \in {r})
  <2>1. h \notin Holders(r)'
    BY <1>2 DEF Holders, Waiting
  <2>2. CASE q = r
    <3>1. Holders(r) = Holders(r)' \cup {h}
      BY <1>1, <1>2, <2>2 DEF Holders, Waiting
    <3>2. Cardinality(Holders(r)) = Cardinality(Holders(r)') + 1
      BY <2>1, <3>1, HoldersFinite, FS_AddElement
    <3> QED BY <2>2, <3>2 DEF Count
  <2>3. CASE q # r
    <3>1. Holders(r)' = Holders(r)
      BY <1>1, <1>2, <2>3 DEF Holders, Waiting
    <3> QED BY <2>3, <3>1, HoldersFinite DEF Count
  <2> QED BY <2>2, <2>3
<1>5. Count(q \in {r}) \in Nat
  BY DEF Count
<1> QED BY <1>0, <1>2, <1>3, <1>4, <1>5 DEF Whereabouts, CountsNat

LEMMA NextOnce == IInv /\ Once /\ [Next]_vars => Once'
<1> SUFFICES ASSUME IInv, Once, [Next]_vars PROVE Once'
  OBVIOUS
<1> TypeOK
  BY DEF IInv
<1>1. ASSUME NEW r \in Request, HostSend(r) PROVE Once'
  BY <1>1, HostSendOnce
<1>2. CASE HostReceive
  BY <1>2, HostReceiveOnce
<1>3. CASE AmiStep
  <2>1. CASE NoRequestToRead
    BY <2>1, OnceKept DEF NoRequestToRead, GotoAmi, host, Waiting
  <2>2. CASE RefuseRequest
    BY <2>2, RefuseRequestOnce
  <2>3. ASSUME NEW i \in Slot, ReadRequest(i) PROVE Once'
    BY <2>3, ReadRequestOnce
  <2>4. ASSUME NEW i \in Slot, Raise(i) PROVE Once'
    BY <2>4, OnceKept
       DEF Raise, AnswerAtOnce, PassToApc, FlashRefused, FptFlags, Raised, GotoAmi, host, Waiting
  <2>5. CASE NoAnswerToSend
    BY <2>5, OnceKept DEF NoAnswerToSend, GotoAmi, host, Waiting
  <2>6. CASE SendAnswer
    BY <2>6, SendAnswerOnce
  <2>7. CASE AnswerUnsent
    BY <2>7, OnceKept DEF AnswerUnsent, GotoAmi, host, Waiting
  <2>8. CASE FreeSlot
    <3>1. \A i \in Slot : Waiting(i)' = Waiting(i) /\ rxData'[i].req = rxData[i].req
      BY <2>8 DEF FreeSlot, GotoAmi, Waiting, TypeOK
    <3> QED BY <2>8, <3>1, OnceKept DEF FreeSlot, host
  <2> QED BY <1>3, <2>1, <2>2, <2>3, <2>4, <2>5, <2>6, <2>7, <2>8 DEF AmiStep
<1>4. CASE ApcStep
  <2>1. UNCHANGED <<host, amiTask>>
    BY <1>4 DEF ApcStep, TakeWork, FlashDone, PartitionSelected, FptFlagsDone, PowerOnReset
  <2> QED BY <2>1, OnceKept DEF host, amiTask, Waiting
<1>5. CASE UNCHANGED vars
  BY <1>5, OnceKept DEF vars, Waiting
<1> QED BY <1>1, <1>2, <1>3, <1>4, <1>5 DEF Next

THEOREM InOnePlace == Spec => []Once
<1>1. Init => IInv /\ Once
  BY InitIInv, InitOnce
<1>2. IInv /\ Once /\ [Next]_vars => IInv' /\ Once'
  BY NextIInv, NextOnce
<1> QED BY <1>1, <1>2, PTL DEF Spec

(* What stands in a sequence once, or twice, is counted so.                *)
LEMMA PlaceCounts ==
  ASSUME NEW S, NEW s \in Seq(S), NEW k \in DOMAIN s
  PROVE  Cardinality(Places(s, {s[k]})) >= 1
<1>1. k \in Places(s, {s[k]})
  BY DEF Places
<1>2. IsFiniteSet(Places(s, {s[k]})) /\ Cardinality(Places(s, {s[k]})) \in Nat
  BY PlacesFinite
<1>3. Cardinality(Places(s, {s[k]})) # 0
  BY <1>1, <1>2, FS_EmptySet
<1> QED BY <1>2, <1>3

LEMMA TwoPlacesCount ==
  ASSUME NEW S, NEW s \in Seq(S), NEW j \in DOMAIN s, NEW k \in DOMAIN s, j # k, s[j] = s[k]
  PROVE  Cardinality(Places(s, {s[k]})) >= 2
<1> DEFINE P == Places(s, {s[k]})
<1>1. {j, k} \in SUBSET P
  BY DEF Places
<1>2. IsFiniteSet(P) /\ Cardinality(P) \in Nat
  BY PlacesFinite
<1>3. Cardinality({j, k}) = 2
  <2>1. IsFiniteSet({j}) /\ Cardinality({j}) = 1
    BY FS_Singleton
  <2>2. {j, k} = {j} \cup {k} /\ k \notin {j}
    OBVIOUS
  <2>3. Cardinality({j} \cup {k}) = Cardinality({j}) + 1
    BY <2>1, <2>2, FS_AddElement
  <2>4. Cardinality({j, k}) = Cardinality({j}) + 1
    BY <2>2, <2>3, Zenon
  <2> QED BY <2>1, <2>4
<1>4. Cardinality({j, k}) <= Cardinality(P)
  BY <1>1, <1>2, FS_Subset
<1> QED BY <1>2, <1>3, <1>4

LEMMA OnceAnswers == IInv /\ Once => AnsweredOnce
<1> SUFFICES ASSUME IInv, Once PROVE AnsweredOnce
  OBVIOUS
<1> DEFINE answers == received \o cq
           m == Len(received)
           n == Len(cq)
<1>1. /\ received \in Seq(Request) /\ cq \in Seq(Request) /\ m \in Nat /\ n \in Nat
      /\ DOMAIN received = 1 .. m /\ DOMAIN cq = 1 .. n
  BY LenProperties DEF IInv, TypeOK
<1>2. /\ DOMAIN answers = 1 .. m + n
      /\ \A k \in 1 .. m : answers[k] = received[k] /\ received[k] \in Request
      /\ \A k \in m + 1 .. m + n : k - m \in 1 .. n /\ answers[k] = cq[k - m]
                                  /\ cq[k - m] \in Request
  <2>1. /\ Len(answers) = m + n /\ answers \in Seq(Request)
        /\ \A k \in 1 .. m + n : answers[k] = IF k <= m THEN received[k] ELSE cq[k - m]
    BY <1>1, ConcatProperties
  <2>2. DOMAIN answers = 1 .. m + n
    BY <2>1, LenProperties
  <2> HIDE DEF answers
  <2> QED BY <1>1, <2>1, <2>2
<1>3. \A r \in Request : Whereabouts(r) = Count(r \in sent) /\ CountsNat(r)
  BY OnceAt DEF IInv
<1> HIDE DEF answers, m, n
<1>4. \A k \in DOMAIN answers : answers[k] \in sent \ refused
  <2> SUFFICES ASSUME NEW k \in DOMAIN answers PROVE answers[k] \in sent \ refused
    OBVIOUS
  <2> DEFINE r == answers[k]
  <2>1. r \in Request
    BY <1>1, <1>2
  <2>2. Cardinality(Places(received, {r})) >= 1 \/ Cardinality(Places(cq, {r})) >= 1
    <3>1. CASE k \in 1 .. m
      BY <3>1, <1>1, <1>2, PlaceCounts
    <3>2. CASE k \in m + 1 .. m + n
      BY <3>2, <1>1, <1>2, PlaceCounts
    <3> QED BY <3>1, <3>2, <1>1, <1>2
  <2>3. Whereabouts(r) = Count(r \in sent) /\ CountsNat(r)
    BY <2>1, <1>3
  <2> HIDE DEF r
  <2>4. Count(r \in sent) = 1 /\ Count(r \in refused) = 0
    BY <2>2, <2>3 DEF Whereabouts, CountsNat
  <2>5. r \in sent \ refused
    BY <2>4 DEF Count
  <2> QED BY <2>5 DEF r
<1>5. \A j, k \in DOMAIN answers : answers[j] = answers[k] => j = k
  <2> SUFFICES ASSUME NEW j \in DOMAIN answers, NEW k \in DOMAIN answers,
                      answers[j] = answers[k], j < k
               PROVE  FALSE
    BY <1>1, <1>2
  <2> DEFINE r == answers[k]
  <2>1. r \in Request /\ j \in Int /\ k \in Int
    BY <1>1, <1>2
  <2>2. Cardinality(Places(received, {r})) \in Nat /\ Cardinality(Places(cq, {r})) \in Nat
    BY <1>1, PlacesFinite
  <2>3. Cardinality(Places(received, {r})) + Cardinality(Places(cq, {r})) >= 2
    <3>1. CASE j \in 1 .. m /\ k \in 1 .. m
      <4>1. Cardinality(Places(received, {received[k]})) >= 2
        BY <3>1, <1>1, <1>2, TwoPlacesCount
      <4>2. received[k] = r
        BY <3>1, <1>2
      <4> HIDE DEF r
      <4> QED BY <4>1, <4>2, <2>2
    <3>2. CASE j \in 1 .. m /\ k \in m + 1 .. m + n
      <4>1. Cardinality(Places(received, {received[j]})) >= 1
        BY <3>2, <1>1, PlaceCounts
      <4>2. Cardinality(Places(cq, {cq[k - m]})) >= 1
        BY <3>2, <1>1, <1>2, PlaceCounts
      <4>3. received[j] = r /\ cq[k - m] = r
        BY <3>2, <1>2
      <4> HIDE DEF r
      <4> QED BY <4>1, <4>2, <4>3, <2>2
    <3>3. CASE j \in m + 1 .. m + n /\ k \in m + 1 .. m + n
      <4>1. /\ j - m \in DOMAIN cq /\ k - m \in DOMAIN cq /\ j - m # k - m
            /\ cq[j - m] = r /\ cq[k - m] = r
        BY <3>3, <1>1, <1>2
      <4>2. Cardinality(Places(cq, {cq[k - m]})) >= 2
        BY <4>1, <1>1, TwoPlacesCount
      <4> QED BY <4>1, <4>2, <2>2
    <3> QED BY <3>1, <3>2, <3>3, <1>1, <1>2
  <2>4. Whereabouts(r) = Count(r \in sent) /\ CountsNat(r)
    BY <2>1, <1>3
  <2> HIDE DEF r
  <2> QED BY <2>2, <2>3, <2>4 DEF Whereabouts, CountsNat
<1> QED BY <1>4, <1>5 DEF AnsweredOnce, answers

(* The host gets at most one answer to a request, and none to a request it *)
(* did not send or the firmware had no slot for.                           *)
THEOREM OneAnswer == Spec => []AnsweredOnce
BY Inductive, InOnePlace, OnceAnswers, PTL
=============================================================================
