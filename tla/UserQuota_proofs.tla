---------------------------- MODULE UserQuota_proofs ----------------------------
(***************************************************************************)
(* Proofs about the quota of a user, for any workspaces, jobs, sizes and   *)
(* workers: QuotaInit and the steps of QuotaNext establish and keep the    *)
(* type and the inductive invariant QuotaInv.                              *)
(***************************************************************************)
EXTENDS UserQuota, FiniteSetTheorems, TLAPS

-----------------------------------------------------------------------------
(* Sums.                                                                   *)

LEMMA SumOfZeros ==
  ASSUME NEW S, NEW f, \A x \in S : f[x] = 0
  PROVE  SumOver(f, S) = 0
  <1>1. \A x \in S : {x} \X (1 .. f[x]) = {}
    OBVIOUS
  <1>2. UNION {{x} \X (1 .. f[x]) : x \in S} = {}
    BY <1>1
  <1>. QED
    BY <1>2, FS_EmptySet DEF SumOver

LEMMA SumType ==
  ASSUME NEW S, IsFiniteSet(S), NEW f, \A x \in S : f[x] \in Nat
  PROVE  SumOver(f, S) \in Nat
  <1>. DEFINE Units(x) == {x} \X (1 .. f[x])
              g == [x \in S |-> Units(x)]
              T == {Units(x) : x \in S}
  <1>1. \A x \in S : IsFiniteSet(Units(x))
    <2>1. ASSUME NEW x \in S PROVE IsFiniteSet(Units(x))
      <3>1. IsFiniteSet({x})
        BY FS_Singleton
      <3>2. IsFiniteSet(1 .. f[x])
        BY FS_Interval
      <3>. QED
        BY <3>1, <3>2, FS_Product
    <2>. QED
      BY <2>1
  <1>. HIDE DEF Units
  <1>2. g \in Surjection(S, T)
    BY DEF Surjection
  <1>3. IsFiniteSet(T)
    BY <1>2, FS_Surjection
  <1>4. IsFiniteSet(UNION T)
    BY <1>1, <1>3, FS_UNION
  <1>5. Cardinality(UNION T) \in Nat
    BY <1>4, FS_CardinalityType
  <1>. QED
    BY <1>5 DEF SumOver, Units

LEMMA SumOfType ==
  ASSUME QuotaAssumption, QuotaTypeOK, NEW kind \in QuotaKinds
  PROVE  SumOf(kind) \in Nat
  <1>1. IsFiniteSet(kept) /\ \A s \in kept : disk[s] \in Nat
    BY FS_Subset DEF QuotaAssumption, QuotaTypeOK
  <1>2. /\ IsFiniteSet({j \in QuotaJobs : SpaceOf[j] \in kept})
        /\ \A j \in QuotaJobs : hours[j] \in Nat
    BY FS_Subset DEF QuotaAssumption, QuotaTypeOK
  <1>. QED
    BY <1>1, <1>2, SumType DEF SumOf, Summed

-----------------------------------------------------------------------------
(* Types.                                                                  *)

\* What is owed and what waits goes back to a change each.
Tasks == owing["disk"] + quotaQueue["disk"] + owing["hours"] + quotaQueue["hours"]
QuotaTyped == QuotaTypeOK /\ Tasks <= changes

LEMMA QuotaInitTyped == QuotaAssumption /\ QuotaInit => QuotaTyped
  <1>. SUFFICES ASSUME QuotaAssumption, QuotaInit PROVE QuotaTyped
    OBVIOUS
  <1>. USE DEF QuotaAssumption, QuotaInit
  <1>1. NotCounting \in [pc : {"idle", "sum", "save"}, kind : QuotaKinds, row : Sums]
    BY DEF NotCounting, QuotaKinds, Sums
  <1>2. QuotaTypeOK
    <2>1. losses \in 0 .. MaxLosses /\ changes \in 0 .. MaxChanges
      OBVIOUS
    <2>4. quota \in Sums /\ raced \in BOOLEAN
      BY DEF Sums
    <2>2. /\ owing \in [QuotaKinds -> 0 .. MaxChanges] /\ quotaQueue \in [QuotaKinds -> 0 .. MaxChanges]
      OBVIOUS
    <2>3. /\ kept \subseteq Spaces
          /\ disk \in [Spaces -> Sizes] /\ hours \in [QuotaJobs -> Sizes]
      OBVIOUS
    <2>. QED
      BY <1>1, <2>1, <2>2, <2>3, <2>4 DEF QuotaTypeOK
  <1>3. Tasks = 0
    BY DEF Tasks, QuotaKinds
  <1>. QED
    BY <1>2, <1>3 DEF QuotaTyped

LEMMA ChangeTyped ==
  ASSUME QuotaAssumption, QuotaTyped,
         \/ \E s \in Spaces, size \in Sizes : SpaceSaved(s, size)
         \/ \E s \in Spaces : SpaceDeleted(s)
         \/ \E j \in QuotaJobs, size \in Sizes : HoursSaved(j, size) \/ HoursUnowned(j, size)
  PROVE  QuotaTyped'
  <1>. USE DEF QuotaAssumption, QuotaTyped, QuotaTypeOK, QuotaKinds
  <1>1. changes' = changes + 1 /\ changes' \in 0 .. MaxChanges
    BY DEF SpaceSaved, SpaceDeleted, HoursSaved, HoursUnowned, Change
  <1>2. /\ owing' = owing \/ \E kind \in QuotaKinds : owing' = [owing EXCEPT ![kind] = @ + 1]
        /\ UNCHANGED <<quota, quotaQueue, counting, losses, raced>>
    BY DEF SpaceSaved, SpaceDeleted, HoursSaved, HoursUnowned, Change
  <1>3. owing' \in [QuotaKinds -> 0 .. MaxChanges] /\ Tasks' <= changes'
    BY <1>1, <1>2 DEF Tasks
  <1>4. /\ kept' \subseteq Spaces
        /\ disk' \in [Spaces -> Sizes] /\ hours' \in [QuotaJobs -> Sizes]
    BY DEF SpaceSaved, SpaceDeleted, HoursSaved, HoursUnowned
  <1>. QED
    BY <1>1, <1>2, <1>3, <1>4

LEMMA TaskTyped ==
  ASSUME QuotaAssumption, QuotaTyped,
         \/ \E kind \in QuotaKinds : Notify(kind) \/ NotifyNever(kind)
         \/ \E w \in QuotaWorkers : \/ \E kind \in QuotaKinds : QuotaTake(w, kind)
                                    \/ QuotaSum(w) \/ QuotaSave(w) \/ QuotaKilled(w)
  PROVE  QuotaTyped'
  <1>. USE DEF QuotaAssumption, QuotaTyped, QuotaTypeOK
  <1>1. ASSUME NEW kind \in QuotaKinds, Notify(kind) \/ NotifyNever(kind) PROVE QuotaTyped'
    BY <1>1 DEF Notify, NotifyNever, Tasks, QuotaKinds
  <1>2. ASSUME NEW w \in QuotaWorkers, NEW kind \in QuotaKinds, QuotaTake(w, kind)
        PROVE  QuotaTyped'
    <2>1. [pc |-> "sum", kind |-> kind, row |-> quota]
            \in [pc : {"idle", "sum", "save"}, kind : QuotaKinds, row : Sums]
      OBVIOUS
    <2>2. counting' \in [QuotaWorkers -> [pc : {"idle", "sum", "save"}, kind : QuotaKinds, row : Sums]]
      BY <1>2, <2>1 DEF QuotaTake
    <2>3. quotaQueue' \in [QuotaKinds -> 0 .. MaxChanges] /\ Tasks' <= changes'
      BY <1>2 DEF QuotaTake, Tasks, QuotaKinds
    <2>4. raced' \in BOOLEAN
      BY <1>2 DEF QuotaTake
    <2>. QED
      BY <1>2, <2>2, <2>3, <2>4 DEF QuotaTake
  <1>. DEFINE Records == [pc : {"idle", "sum", "save"}, kind : QuotaKinds, row : Sums]
  <1>3. NotCounting \in Records
    BY DEF NotCounting, QuotaKinds, Sums
  <1>4. ASSUME NEW w \in QuotaWorkers, QuotaSum(w) PROVE QuotaTyped'
    <2>. DEFINE kind == counting[w].kind
    <2>1. kind \in QuotaKinds /\ counting[w].row \in Sums
      OBVIOUS
    <2>2. [counting[w].row EXCEPT ![kind] = SumOf(kind)] \in Sums
      BY <2>1, SumOfType DEF Sums, QuotaKinds
    <2>3. ASSUME NEW sums \in Sums PROVE [counting[w] EXCEPT !.pc = "save", !.row = sums] \in Records
      OBVIOUS
    <2>. DEFINE sums == [counting[w].row EXCEPT ![kind] = SumOf(kind)]
    <2>4. counting'[w] \in Records /\ \A v \in QuotaWorkers : v # w => counting'[v] = counting[v]
      <3>1. \/ counting'[w] = NotCounting
            \/ counting'[w] = [counting[w] EXCEPT !.pc = "save", !.row = sums]
        BY <1>4 DEF QuotaSum
      <3>2. \A v \in QuotaWorkers : v # w => counting'[v] = counting[v]
        BY <1>4 DEF QuotaSum
      <3>3. [counting[w] EXCEPT !.pc = "save", !.row = sums] \in Records
        BY <2>2, <2>3
      <3>. QED
        BY <1>3, <3>1, <3>2, <3>3
    <2>5. counting' = [counting EXCEPT ![w] = counting'[w]]
      BY <1>4 DEF QuotaSum
    <2>6. counting' \in [QuotaWorkers -> Records]
      BY <2>4, <2>5
    <2>. QED
      BY <1>4, <2>6 DEF QuotaSum, Tasks
  <1>5. ASSUME NEW w \in QuotaWorkers, QuotaSave(w) \/ QuotaKilled(w) PROVE QuotaTyped'
    BY <1>3, <1>5 DEF QuotaSave, QuotaKilled, Tasks
  <1>. QED
    BY <1>1, <1>2, <1>4, <1>5

LEMMA QuotaTypedSteps == QuotaAssumption /\ QuotaTyped /\ [QuotaNext]_quotaVars => QuotaTyped'
  <1>1. QuotaTyped /\ UNCHANGED quotaVars => QuotaTyped'
    BY DEF quotaVars, QuotaTyped, QuotaTypeOK, Tasks
  <1>2. QuotaAssumption /\ QuotaTyped /\ QuotaNext => QuotaTyped'
    BY ChangeTyped, TaskTyped DEF QuotaNext
  <1>. QED
    BY <1>1, <1>2

-----------------------------------------------------------------------------
(* The quota settles.                                                      *)

\* QuotaSettles strengthened.  Unless tasks were lost or ran together, one
\* worker at most is counting, and it holds the other sum as it is in the row.
\* Each sum that is claimed is right, or a task that will count it waits or is
\* owed, or the one that is at it has not yet taken the sum, or has it right.
Busy(w) == counting[w].pc # "idle"
Waiting(kind) == owing[kind] + quotaQueue[kind] > 0
OneCounts ==
  /\ \A v, w \in QuotaWorkers : Busy(v) /\ Busy(w) => v = w
  /\ \A w \in QuotaWorkers, kind \in QuotaKinds :
        Busy(w) /\ counting[w].kind # kind => counting[w].row[kind] = quota[kind]
SumIsRight(kind) ==
  /\ \A w \in QuotaWorkers :
        counting[w].pc = "save" /\ counting[w].kind = kind => counting[w].row[kind] = SumOf(kind)
  /\ (\A w \in QuotaWorkers : ~(Busy(w) /\ counting[w].kind = kind)) => quota[kind] = SumOf(kind)
Claimed(kind) == IF kind = "disk" THEN kept # {} ELSE kept = Spaces
NoHours ==
  QuotaJobs = {} => quota.hours = 0 /\ \A w \in QuotaWorkers : counting[w].row.hours = 0
QuotaInv ==
  /\ QuotaTyped /\ NoHours
  /\ losses = 0 /\ ~raced =>
        OneCounts /\ \A kind \in QuotaKinds : Claimed(kind) => Waiting(kind) \/ SumIsRight(kind)

LEMMA QuotaInitInv == QuotaAssumption /\ QuotaInit => QuotaInv
  <1>. SUFFICES ASSUME QuotaAssumption, QuotaInit PROVE QuotaInv
    OBVIOUS
  <1>. USE DEF QuotaInit
  <1>1. NoHours /\ OneCounts
    BY DEF NoHours, OneCounts, Busy, NotCounting
  <1>2. SumOf("disk") = 0 /\ SumOf("hours") = 0
    BY SumOfZeros DEF SumOf, Summed
  <1>3. \A kind \in QuotaKinds : SumIsRight(kind)
    BY <1>2 DEF SumIsRight, Busy, NotCounting, QuotaKinds
  <1>. QED
    BY <1>1, <1>3, QuotaInitTyped DEF QuotaInv

\* The sum changes with the rows only.
LEMMA SumStays ==
  ASSUME UNCHANGED <<kept, disk, hours>>
  PROVE  \A kind \in QuotaKinds : SumOf(kind)' = SumOf(kind) /\ (Claimed(kind)' <=> Claimed(kind))
  BY DEF SumOf, SumOver, Summed, Claimed

\* A change that is not counted is owed, or leaves the sum as it is or unclaimed.
LEMMA ChangeInv ==
  ASSUME QuotaAssumption, QuotaInv, QuotaTyped',
         \/ \E s \in Spaces, size \in Sizes : SpaceSaved(s, size)
         \/ \E s \in Spaces : SpaceDeleted(s)
         \/ \E j \in QuotaJobs, size \in Sizes : HoursSaved(j, size) \/ HoursUnowned(j, size)
  PROVE  QuotaInv'
  <1>1. UNCHANGED <<quota, quotaQueue, counting, losses, raced>>
    BY DEF SpaceSaved, SpaceDeleted, HoursSaved, HoursUnowned, Change
  <1>2. NoHours' /\ (OneCounts => OneCounts')
    BY <1>1 DEF QuotaInv, NoHours, OneCounts, Busy
  <1>3. ASSUME NEW kind \in QuotaKinds, Claimed(kind)'
        PROVE  \/ Waiting(kind)'
               \/ Claimed(kind) /\ (Waiting(kind) => Waiting(kind)') /\ SumOf(kind)' = SumOf(kind)
    <2>. DEFINE Right == \/ Waiting(kind)'
                         \/ /\ Claimed(kind) /\ (Waiting(kind) => Waiting(kind)')
                            /\ SumOf(kind)' = SumOf(kind)
    <2>. USE DEF QuotaInv, QuotaTyped, QuotaTypeOK, QuotaKinds, Waiting, Claimed
    <2>1. ASSUME NEW s \in Spaces, NEW size \in Sizes, SpaceSaved(s, size) PROVE Right
      <3>1. kept' = kept /\ hours' = hours /\ owing' = [owing EXCEPT !["disk"] = @ + 1]
        BY <2>1 DEF SpaceSaved, Change
      <3>2. SumOf("hours")' = SumOf("hours")
        BY <3>1 DEF SumOf, SumOver, Summed
      <3>. QED
        BY <1>1, <1>3, <3>1, <3>2
    <2>2. ASSUME NEW s \in Spaces, SpaceDeleted(s) PROVE Right
      <3>1. kept' # Spaces /\ owing' = [owing EXCEPT !["disk"] = @ + 1]
        BY <2>2 DEF SpaceDeleted, Change
      <3>. QED
        BY <1>1, <1>3, <3>1
    <2>3. ASSUME NEW j \in QuotaJobs, NEW size \in Sizes, HoursSaved(j, size) \/ HoursUnowned(j, size)
          PROVE  Right
      <3>1. kept' = kept /\ disk' = disk
        BY <2>3 DEF HoursSaved, HoursUnowned
      <3>2. SumOf("disk")' = SumOf("disk")
        BY <3>1 DEF SumOf, SumOver, Summed
      <3>3. owing' = [owing EXCEPT !["hours"] = @ + 1] \/ (kept # Spaces /\ owing' = owing)
        BY <2>3 DEF HoursSaved, HoursUnowned, Change, QuotaAssumption
      <3>. QED
        BY <1>1, <1>3, <3>1, <3>2, <3>3
    <2>. QED
      BY <2>1, <2>2, <2>3
  <1>4. \A kind \in QuotaKinds : SumOf(kind)' = SumOf(kind) => (SumIsRight(kind) => SumIsRight(kind)')
    BY <1>1 DEF SumIsRight, Busy
  <1>. QED
    BY <1>1, <1>2, <1>3, <1>4 DEF QuotaInv

LEMMA TaskInv ==
  ASSUME QuotaAssumption, QuotaInv, QuotaTyped',
         \/ \E kind \in QuotaKinds : Notify(kind) \/ NotifyNever(kind)
         \/ \E w \in QuotaWorkers : \/ \E kind \in QuotaKinds : QuotaTake(w, kind)
                                    \/ QuotaSum(w) \/ QuotaSave(w) \/ QuotaKilled(w)
  PROVE  QuotaInv'
  <1>. DEFINE Records == [pc : {"idle", "sum", "save"}, kind : QuotaKinds, row : Sums]
  <1>a. /\ counting \in [QuotaWorkers -> Records] /\ quota \in Sums /\ losses \in Nat
        /\ owing \in [QuotaKinds -> Nat] /\ quotaQueue \in [QuotaKinds -> Nat]
    BY DEF QuotaInv, QuotaTyped, QuotaTypeOK, QuotaAssumption
  <1>b. /\ NoHours
        /\ losses = 0 /\ ~raced =>
              OneCounts /\ \A kind \in QuotaKinds : Claimed(kind) => Waiting(kind) \/ SumIsRight(kind)
    BY DEF QuotaInv
  \* What is to show of each step.
  <1>c. ASSUME NoHours',
               losses' = 0 /\ ~raced' =>
                 /\ OneCounts'
                 /\ \A kind \in QuotaKinds : Claimed(kind)' => Waiting(kind)' \/ SumIsRight(kind)'
        PROVE  QuotaInv'
    BY <1>c DEF QuotaInv
  <1>0. UNCHANGED <<kept, disk, hours>>
    BY DEF Notify, NotifyNever, QuotaTake, QuotaSum, QuotaSave, QuotaKilled
  <1>1. \A kind \in QuotaKinds : SumOf(kind)' = SumOf(kind) /\ (Claimed(kind)' <=> Claimed(kind))
    BY <1>0, SumStays
  <1>2. ASSUME NEW kind \in QuotaKinds, Notify(kind) PROVE QuotaInv'
    <2>1. UNCHANGED <<quota, counting, losses, raced>>
      BY <1>2 DEF Notify
    <2>2. \A k \in QuotaKinds : Waiting(k) => Waiting(k)'
      BY <1>a, <1>2 DEF Notify, Waiting, QuotaKinds
    <2>3. NoHours' /\ (OneCounts => OneCounts')
      BY <1>b, <2>1 DEF NoHours, OneCounts, Busy
    <2>4. \A k \in QuotaKinds : SumIsRight(k) => SumIsRight(k)'
      BY <1>1, <2>1 DEF SumIsRight, Busy
    <2>. QED
      BY <1>1, <1>b, <1>c, <2>1, <2>2, <2>3, <2>4
  <1>3. ASSUME NEW kind \in QuotaKinds, NotifyNever(kind) PROVE QuotaInv'
    <2>1. losses' # 0 /\ UNCHANGED <<quota, counting>>
      BY <1>a, <1>3 DEF NotifyNever
    <2>2. NoHours'
      BY <1>b, <2>1 DEF NoHours
    <2>. QED
      BY <1>c, <2>1, <2>2
  <1>4. ASSUME NEW w \in QuotaWorkers, NEW kind \in QuotaKinds, QuotaTake(w, kind) PROVE QuotaInv'
    <2>1. /\ UNCHANGED <<quota, owing, losses>> /\ ~Busy(w)
          /\ counting'[w] = [pc |-> "sum", kind |-> kind, row |-> quota]
          /\ \A v \in QuotaWorkers : v # w => counting'[v] = counting[v]
          /\ \A k \in QuotaKinds : k # kind => quotaQueue'[k] = quotaQueue[k]
      BY <1>a, <1>4 DEF QuotaTake, Busy
    <2>4. ~raced' => ~raced /\ \A v \in QuotaWorkers : ~Busy(v)
      BY <1>4 DEF QuotaTake, Busy
    <2>2. NoHours'
      BY <1>b, <2>1 DEF NoHours
    <2>3. ASSUME losses' = 0, ~raced'
          PROVE  /\ OneCounts'
                 /\ \A k \in QuotaKinds : Claimed(k)' => Waiting(k)' \/ SumIsRight(k)'
      <3>1. \A v \in QuotaWorkers : v # w => counting'[v] = counting[v] /\ ~Busy(v)
        BY <2>1, <2>3, <2>4
      <3>2. OneCounts'
        BY <2>1, <3>1 DEF OneCounts, Busy
      <3>3. SumIsRight(kind)'
        BY <2>1, <3>1 DEF SumIsRight, Busy
      <3>4. ASSUME NEW k \in QuotaKinds, k # kind, Claimed(k) PROVE Waiting(k)' \/ SumIsRight(k)'
        <4>1. Waiting(k) \/ SumIsRight(k)
          BY <1>b, <2>1, <2>3, <2>4, <3>4
        <4>2. Waiting(k) => Waiting(k)'
          BY <2>1, <3>4 DEF Waiting
        <4>3. SumIsRight(k) => SumIsRight(k)'
          BY <1>1, <2>1, <3>1, <3>4 DEF SumIsRight, Busy
        <4>. QED
          BY <4>1, <4>2, <4>3
      <3>. QED
        BY <1>1, <3>2, <3>3, <3>4
    <2>. QED
      BY <1>c, <2>2, <2>3
  <1>5. ASSUME NEW w \in QuotaWorkers, QuotaSum(w) PROVE QuotaInv'
    <2>0. PICK kind \in QuotaKinds : counting[w].kind = kind /\ counting[w] \in Records
      BY <1>a
    <2>. DEFINE sums == [counting[w].row EXCEPT ![kind] = SumOf(kind)]
    <2>1. /\ UNCHANGED <<quota, owing, quotaQueue, losses, raced>> /\ Busy(w)
          /\ \A v \in QuotaWorkers : v # w => counting'[v] = counting[v]
      BY <1>a, <1>5 DEF QuotaSum, Busy
    <2>2. \A k \in QuotaKinds : Waiting(k)' <=> Waiting(k)
      BY <2>1 DEF Waiting
    \* There is nothing to sum up: it fails, and the quota is right only as
    \* nothing is claimed, or as there are no jobs.
    <2>3. CASE Summed(kind) = {}
      <3>1. counting'[w] = NotCounting
        BY <1>a, <1>5, <2>0, <2>3 DEF QuotaSum
      <3>2. NoHours'
        BY <1>b, <2>1, <3>1 DEF NoHours, NotCounting
      <3>3. ASSUME Claimed(kind) PROVE kind = "hours" /\ quota[kind] = 0 /\ SumOf(kind) = 0
        <4>1. kind = "hours" /\ Summed(kind) = QuotaJobs
          BY <2>0, <2>3, <3>3 DEF Claimed, Summed, QuotaKinds, QuotaAssumption
        <4>2. SumOf(kind) = 0
          BY <2>3, SumOfZeros DEF SumOf
        <4>. QED
          BY <1>b, <2>3, <4>1, <4>2 DEF NoHours
      <3>4. ASSUME losses' = 0, ~raced'
            PROVE  /\ OneCounts'
                   /\ \A k \in QuotaKinds : Claimed(k)' => Waiting(k)' \/ SumIsRight(k)'
        <4>1. OneCounts
          BY <1>b, <2>1, <3>4
        <4>2. \A v \in QuotaWorkers : ~Busy(v)'
          BY <2>1, <3>1, <4>1 DEF OneCounts, Busy, NotCounting
        <4>3. OneCounts'
          BY <4>2 DEF OneCounts, Busy
        <4>4. Claimed(kind) => SumIsRight(kind)'
          BY <1>1, <2>0, <2>1, <3>3, <4>2 DEF SumIsRight, Busy
        <4>5. ASSUME NEW k \in QuotaKinds, k # kind, SumIsRight(k) PROVE SumIsRight(k)'
          <5>1. \A v \in QuotaWorkers : ~(Busy(v) /\ counting[v].kind = k)
            BY <2>0, <2>1, <4>1, <4>5 DEF OneCounts
          <5>2. quota[k] = SumOf(k)
            BY <4>5, <5>1 DEF SumIsRight
          <5>. QED
            BY <1>1, <2>1, <4>2, <5>2 DEF SumIsRight, Busy
        <4>. QED
          BY <1>b, <1>1, <2>1, <2>2, <3>4, <4>3, <4>4, <4>5
      <3>. QED
        BY <1>c, <3>2, <3>4
    <2>4. CASE Summed(kind) # {}
      <3>1. counting'[w] = [counting[w] EXCEPT !.pc = "save", !.row = sums]
        BY <1>a, <1>5, <2>0, <2>4 DEF QuotaSum
      <3>2. /\ counting'[w].pc = "save" /\ counting'[w].kind = kind
            /\ counting'[w].row[kind] = SumOf(kind)
            /\ \A k \in QuotaKinds : k # kind => counting'[w].row[k] = counting[w].row[k]
        BY <2>0, <3>1 DEF Sums, QuotaKinds
      <3>3. NoHours'
        <4>1. QuotaJobs = {} => kind # "hours"
          BY <2>4 DEF Summed
        <4>. QED
          BY <1>b, <2>0, <2>1, <3>2, <4>1 DEF NoHours, QuotaKinds
      <3>4. ASSUME losses' = 0, ~raced'
            PROVE  /\ OneCounts'
                   /\ \A k \in QuotaKinds : Claimed(k)' => Waiting(k)' \/ SumIsRight(k)'
        <4>1. OneCounts
          BY <1>b, <2>1, <3>4
        <4>2. OneCounts'
          BY <2>0, <2>1, <3>2, <4>1 DEF OneCounts, Busy
        <4>3. SumIsRight(kind)'
          <5>1. \A v \in QuotaWorkers : v # w => ~Busy(v)
            BY <2>1, <4>1 DEF OneCounts
          <5>. QED
            BY <1>1, <2>0, <2>1, <3>2, <5>1 DEF SumIsRight, Busy
        <4>4. ASSUME NEW k \in QuotaKinds, k # kind, SumIsRight(k) PROVE SumIsRight(k)'
          BY <1>1, <2>0, <2>1, <3>2, <4>4 DEF SumIsRight, Busy
        <4>. QED
          BY <1>b, <1>1, <2>1, <2>2, <3>4, <4>2, <4>3, <4>4
      <3>. QED
        BY <1>c, <3>3, <3>4
    <2>. QED
      BY <2>3, <2>4
  <1>6. ASSUME NEW w \in QuotaWorkers, QuotaSave(w) PROVE QuotaInv'
    <2>0. PICK kind \in QuotaKinds : counting[w].kind = kind
      BY <1>a
    <2>1. /\ UNCHANGED <<owing, quotaQueue, losses, raced>> /\ counting[w].pc = "save"
          /\ quota' = counting[w].row /\ counting'[w] = NotCounting
          /\ \A v \in QuotaWorkers : v # w => counting'[v] = counting[v]
      BY <1>a, <1>6 DEF QuotaSave
    <2>2. NoHours'
      BY <1>b, <2>1 DEF NoHours, NotCounting
    <2>3. ASSUME losses' = 0, ~raced'
          PROVE  /\ OneCounts'
                 /\ \A k \in QuotaKinds : Claimed(k)' => Waiting(k)' \/ SumIsRight(k)'
      <3>1. OneCounts /\ Busy(w)
        BY <1>b, <2>1, <2>3 DEF Busy
      <3>2. \A v \in QuotaWorkers : ~Busy(v)' /\ (v # w => ~Busy(v))
        BY <2>1, <3>1 DEF OneCounts, Busy, NotCounting
      <3>3. OneCounts'
        BY <3>2 DEF OneCounts, Busy
      <3>4. ASSUME NEW k \in QuotaKinds, SumIsRight(k) PROVE SumIsRight(k)'
        <4>1. counting[w].row[k] = SumOf(k)
          <5>1. CASE k = kind
            BY <2>0, <2>1, <3>4, <5>1 DEF SumIsRight
          <5>2. CASE k # kind
            <6>1. quota[k] = SumOf(k)
              BY <2>0, <3>2, <3>4, <5>2 DEF SumIsRight
            <6>. QED
              BY <2>0, <3>1, <5>2, <6>1 DEF OneCounts
          <5>. QED
            BY <5>1, <5>2
        <4>. QED
          BY <1>1, <2>1, <3>2, <4>1 DEF SumIsRight, Busy
      <3>. QED
        BY <1>b, <1>1, <2>1, <2>3, <3>3, <3>4 DEF Waiting
    <2>. QED
      BY <1>c, <2>2, <2>3
  <1>7. ASSUME NEW w \in QuotaWorkers, QuotaKilled(w) PROVE QuotaInv'
    <2>1. /\ losses' # 0 /\ quota' = quota
          /\ \A v \in QuotaWorkers : counting'[v] \in {counting[v], NotCounting}
      BY <1>a, <1>7 DEF QuotaKilled
    <2>2. NoHours'
      BY <1>b, <2>1 DEF NoHours, NotCounting
    <2>. QED
      BY <1>c, <2>1, <2>2
  <1>. QED
    BY <1>2, <1>3, <1>4, <1>5, <1>6, <1>7

LEMMA QuotaInvSteps == QuotaAssumption /\ QuotaInv /\ [QuotaNext]_quotaVars => QuotaInv'
  <1>. SUFFICES ASSUME QuotaAssumption, QuotaInv, [QuotaNext]_quotaVars PROVE QuotaInv'
    OBVIOUS
  <1>1. QuotaTyped'
    BY QuotaTypedSteps DEF QuotaInv
  <1>2. CASE UNCHANGED quotaVars
    <2>1. \A kind \in QuotaKinds : SumOf(kind)' = SumOf(kind) /\ (Claimed(kind)' <=> Claimed(kind))
      BY <1>2, SumStays DEF quotaVars
    <2>2. \A kind \in QuotaKinds : /\ (Waiting(kind)' <=> Waiting(kind))
                                   /\ SumIsRight(kind) => SumIsRight(kind)'
      BY <1>2, <2>1 DEF quotaVars, Waiting, SumIsRight, Busy
    <2>3. NoHours' /\ (OneCounts => OneCounts') /\ losses' = losses /\ raced' = raced
      BY <1>2 DEF quotaVars, QuotaInv, NoHours, OneCounts, Busy
    <2>. QED
      BY <1>1, <2>1, <2>2, <2>3 DEF QuotaInv
  <1>3. CASE QuotaNext
    BY <1>1, <1>3, ChangeInv, TaskInv DEF QuotaNext
  <1>. QED
    BY <1>2, <1>3

LEMMA QuotaInvImplies == QuotaInv => QuotaSettles
  <1>. SUFFICES ASSUME QuotaInv, QuotaQuiet, losses = 0, ~raced
                PROVE  \A kind \in QuotaKinds : Claimed(kind) => quota[kind] = SumOf(kind)
    BY DEF QuotaSettles, Claimed, QuotaKinds
  <1>. QED
    BY DEF QuotaInv, QuotaQuiet, SumIsRight, Waiting, Busy
=============================================================================
