-------------------------- MODULE ScanMirrorProofs --------------------------
(***************************************************************************)
(* Proofs about ScanMirror for any number of scans and reconcilers and any *)
(* size of a pass.                                                         *)
(***************************************************************************)
EXTENDS ScanMirror, SequenceTheorems, TLAPS

Listed(seq, s) == \E i \in DOMAIN seq : seq[i] = s

Once(seq) == \A i, j \in DOMAIN seq : seq[i] = seq[j] => i = j

(* Taking a scan out of a list takes out that scan alone.                  *)
LEMMA WithoutKeepsOthers ==
  ASSUME NEW seq \in Seq(Scans), Once(seq), NEW s \in Scans
  PROVE  /\ WithoutScan(seq, s) \in Seq(Scans)
         /\ Once(WithoutScan(seq, s))
         /\ \A t \in Scans : Listed(WithoutScan(seq, s), t) <=> Listed(seq, t) /\ t # s
<1>1. CASE ~ Listed(seq, s)
  BY <1>1 DEF Listed, WithoutScan
<1>2. CASE Listed(seq, s)
  <2> DEFINE k == CHOOSE i \in DOMAIN seq : seq[i] = s
             low == SubSeq(seq, 1, k - 1)
             high == SubSeq(seq, k + 1, Len(seq))
  <2>1. k \in DOMAIN seq /\ seq[k] = s
    BY <1>2 DEF Listed
  <2>2. /\ DOMAIN seq = 1 .. Len(seq) /\ Len(seq) \in Nat /\ k \in 1 .. Len(seq)
        /\ \A i \in 1 .. Len(seq) : seq[i] \in Scans
    BY <2>1, LenProperties, ElementOfSeq
  <2>3. WithoutScan(seq, s) = low \o high
    BY <1>2 DEF Listed, WithoutScan
  <2> HIDE DEF k
  <2>4. /\ low \in Seq(Scans) /\ Len(low) = k - 1
        /\ \A i \in 1 .. k - 1 : low[i] = seq[i]
    BY <2>2, SubSeqProperties
  <2>5. /\ high \in Seq(Scans) /\ Len(high) = Len(seq) - k
        /\ \A i \in 1 .. Len(seq) - k : high[i] = seq[k + i]
    <3>1. k + 1 \in Int /\ Len(seq) \in Int /\ \A i \in k + 1 .. Len(seq) : seq[i] \in Scans
      BY <2>2
    <3>2. /\ high \in Seq(Scans)
          /\ Len(high) = IF k + 1 <= Len(seq) THEN Len(seq) - (k + 1) + 1 ELSE 0
          /\ \A i \in 1 .. Len(seq) - (k + 1) + 1 : high[i] = seq[(k + 1) + i - 1]
      BY <3>1, SubSeqProperties
    <3> HIDE DEF high
    <3>3. Len(high) = Len(seq) - k
      <4>1. k \in Nat /\ Len(seq) \in Nat /\ k <= Len(seq)
        BY <2>2
      <4>2. Len(high) = IF k + 1 <= Len(seq) THEN Len(seq) - (k + 1) + 1 ELSE 0
        BY <3>2
      <4> QED
        BY <4>1, <4>2
    <3>4. ASSUME NEW i \in 1 .. Len(seq) - k PROVE high[i] = seq[k + i]
      <4>1. i \in 1 .. Len(seq) - (k + 1) + 1 /\ (k + 1) + i - 1 = k + i
        BY <2>2
      <4> QED
        BY <3>2, <4>1
    <3> QED
      BY <3>2, <3>3, <3>4
  <2> HIDE DEF low, high
  <2> DEFINE rest == low \o high
  <2>6. /\ rest \in Seq(Scans) /\ Len(rest) = Len(seq) - 1
        /\ \A i \in 1 .. Len(seq) - 1 :
              rest[i] = IF i <= k - 1 THEN low[i] ELSE high[i - (k - 1)]
    <3>1. /\ rest \in Seq(Scans) /\ Len(rest) = Len(low) + Len(high)
          /\ \A i \in 1 .. Len(low) + Len(high) :
                rest[i] = IF i <= Len(low) THEN low[i] ELSE high[i - Len(low)]
      BY <2>4, <2>5, ConcatProperties
    <3> HIDE DEF rest
    <3>2. Len(low) + Len(high) = Len(seq) - 1
      BY <2>2, <2>4, <2>5
    <3> QED
      BY <2>4, <3>1, <3>2
  <2>7. DOMAIN rest = 1 .. Len(seq) - 1
    BY <2>6, LenProperties
  <2> HIDE DEF rest
  <2>8. \A i \in 1 .. Len(seq) - 1 : rest[i] = IF i < k THEN seq[i] ELSE seq[i + 1]
    <3> TAKE i \in 1 .. Len(seq) - 1
    <3>1. CASE i < k
      <4>1. i \in 1 .. k - 1 /\ i <= k - 1
        BY <2>2, <3>1
      <4> QED
        BY <2>4, <2>6, <3>1, <4>1
    <3>2. CASE ~ i < k
      <4>1. i - (k - 1) \in 1 .. Len(seq) - k /\ k + (i - (k - 1)) = i + 1
        BY <2>2, <3>2
      <4>2. rest[i] = high[i - (k - 1)]
        BY <2>2, <2>6, <3>2
      <4> QED
        BY <2>5, <3>2, <4>1, <4>2
    <3> QED
      BY <3>1, <3>2
  <2>9. Once(rest)
    BY <2>2, <2>7, <2>8 DEF Once
  <2>10. ASSUME NEW t \in Scans
         PROVE  Listed(rest, t) <=> Listed(seq, t) /\ t # s
    <3>1. ASSUME Listed(rest, t) PROVE Listed(seq, t) /\ t # s
      <4>1. PICK i \in 1 .. Len(seq) - 1 : rest[i] = t
        BY <2>7, <3>1 DEF Listed
      <4>2. PICK j \in 1 .. Len(seq) : j # k /\ seq[j] = t
        BY <2>2, <2>8, <4>1
      <4> QED
        BY <2>1, <2>2, <4>2 DEF Listed, Once
    <3>2. ASSUME Listed(seq, t), t # s PROVE Listed(rest, t)
      <4>1. PICK j \in 1 .. Len(seq) : seq[j] = t
        BY <2>2, <3>2 DEF Listed
      <4>2. j # k
        BY <2>1, <3>2, <4>1
      <4>3. CASE j < k
        <5>1. j \in 1 .. Len(seq) - 1 /\ rest[j] = t
          BY <2>2, <2>8, <4>1, <4>3
        <5> QED
          BY <2>7, <5>1 DEF Listed
      <4>4. CASE j > k
        <5>1. j - 1 \in 1 .. Len(seq) - 1 /\ ~ (j - 1 < k) /\ (j - 1) + 1 = j
          BY <2>2, <4>4
        <5>2. rest[j - 1] = t
          BY <2>8, <4>1, <5>1
        <5> QED
          BY <2>7, <5>1, <5>2 DEF Listed
      <4> QED
        BY <2>2, <4>2, <4>3, <4>4
    <3> QED
      BY <3>1, <3>2
  <2> QED
    BY <2>3, <2>6, <2>9, <2>10 DEF rest
<1> QED
  BY <1>1, <1>2

(* What Append does to a list.                                             *)
LEMMA AppendAdds ==
  ASSUME NEW seq \in Seq(Scans), Once(seq), NEW s \in Scans, ~ Listed(seq, s)
  PROVE  /\ Append(seq, s) \in Seq(Scans)
         /\ Once(Append(seq, s))
         /\ \A t \in Scans : Listed(Append(seq, s), t) <=> Listed(seq, t) \/ t = s
<1> DEFINE longer == Append(seq, s)
<1>1. /\ DOMAIN seq = 1 .. Len(seq) /\ Len(seq) \in Nat
      /\ longer \in Seq(Scans) /\ DOMAIN longer = 1 .. Len(seq) + 1
      /\ \A i \in 1 .. Len(seq) : longer[i] = seq[i]
      /\ longer[Len(seq) + 1] = s
  BY LenProperties, AppendProperties
<1> HIDE DEF longer
<1>2. Once(longer)
  BY <1>1 DEF Once, Listed
<1>3. ASSUME NEW t \in Scans PROVE Listed(longer, t) <=> Listed(seq, t) \/ t = s
  BY <1>1 DEF Listed
<1> QED
  BY <1>1, <1>2, <1>3 DEF longer

-----------------------------------------------------------------------------
(* The inductive invariant *)

(* A request goes through its states once: a scan exists from the moment   *)
(* its request is there, and its entry from the moment the request is done.*)
RequestGoesOnce ==
    \A s \in Scans : /\ scan[s] = "none" <=> dispatch[s] = "none"
                     /\ mirror[s] # "none" => dispatch[s] = "done"

(* A reconciler works on entries that exist or have existed.               *)
BatchHasEntries == \A r \in Reconcilers : \A s \in Scans :
                      Listed(batch[r], s) => mirror[s] # "none"

(* What a reconciler is about to write is the end of the scan, or the      *)
(* entry is gone.                                                          *)
ReadIsTheEnd ==
    \A r \in Reconcilers :
      pc[r] = "write" /\ read[r] \in Terminal =>
        \/ scan[Head(batch[r])] = read[r]
        \/ mirror[Head(batch[r])] = "deleted"

(* The entry is gone with the scan, unless the scan was deleted before its *)
(* request was done.                                                       *)
GoneTogether ==
    \A s \in Scans \ early :
      scan[s] = "deleted" => dispatch[s] = "done" /\ mirror[s] \notin Active \cup Ended

(* The entry of a scan that was deleted before is created at most, and no  *)
(* reconciler has a status of it to write.                                 *)
LeftAlone ==
    /\ \A s \in early : scan[s] = "deleted" /\ mirror[s] \in {"none", "queued"}
    /\ \A r \in Reconcilers : pc[r] = "write" => Head(batch[r]) \notin early

MirrorInv ==
    MirrorTypeOK /\ EndMatchesScan /\ RequestGoesOnce /\ BatchHasEntries /\ ReadIsTheEnd
    /\ GoneTogether /\ LeftAlone

LEMMA MirrorStarts == MirrorInit => MirrorInv
<1> SUFFICES ASSUME MirrorInit PROVE MirrorInv
  OBVIOUS
<1>1. <<>> \in Seq(Scans) /\ DOMAIN <<>> = {}
  BY EmptySeq, LenProperties
<1>2. MirrorTypeOK
  BY <1>1, MirrorConstants DEF MirrorInit, MirrorTypeOK, Active, Ended, Terminal
<1>3. EndMatchesScan /\ RequestGoesOnce /\ BatchHasEntries /\ ReadIsTheEnd /\ GoneTogether
      /\ LeftAlone
  BY <1>1 DEF MirrorInit, EndMatchesScan, RequestGoesOnce, BatchHasEntries, ReadIsTheEnd,
              GoneTogether, LeftAlone, Listed, Active, Ended, Terminal
<1> QED
  BY <1>2, <1>3 DEF MirrorInv

(* The first scan of a batch is in it, and what remains was in it.         *)
LEMMA FirstOfBatch ==
  ASSUME MirrorTypeOK, NEW r \in Reconcilers, pc[r] # "idle"
  PROVE  /\ batch[r] \in Seq(Scans) /\ batch[r] # <<>>
         /\ Head(batch[r]) \in Scans /\ Listed(batch[r], Head(batch[r]))
         /\ Tail(batch[r]) \in Seq(Scans)
         /\ \A s \in Scans : Listed(Tail(batch[r]), s) => Listed(batch[r], s)
         /\ Tail(batch[r]) = <<>> <=> Len(batch[r]) = 1
<1>1. batch[r] \in Seq(Scans) /\ batch[r] # <<>>
  BY DEF MirrorTypeOK
<1> DEFINE b == batch[r]
<1> HIDE DEF b
<1>2. b \in Seq(Scans) /\ b # <<>>
  BY <1>1 DEF b
<1>3. Len(b) \in Nat \ {0} /\ DOMAIN b = 1 .. Len(b)
  BY <1>2, EmptySeq, LenProperties
<1>4. /\ Head(b) \in Scans /\ Tail(b) \in Seq(Scans) /\ Len(Tail(b)) = Len(b) - 1
      /\ \A i \in 1 .. Len(Tail(b)) : Tail(b)[i] = b[i + 1]
  BY <1>2, HeadTailProperties
<1>5. Head(b) = b[1]
  BY <1>2
<1>6. Listed(b, Head(b))
  BY <1>3, <1>5 DEF Listed
<1>7. ASSUME NEW s \in Scans, Listed(Tail(b), s) PROVE Listed(b, s)
  <2>1. DOMAIN Tail(b) = 1 .. Len(b) - 1
    BY <1>4, LenProperties
  <2>2. PICK i \in 1 .. Len(b) - 1 : Tail(b)[i] = s
    BY <1>7, <2>1 DEF Listed
  <2>3. i + 1 \in 1 .. Len(b) /\ b[i + 1] = s
    BY <1>3, <1>4, <2>2
  <2> QED
    BY <1>3, <2>3 DEF Listed
<1>8. Tail(b) = <<>> <=> Len(b) = 1
  <2>1. ASSUME Tail(b) = <<>> PROVE Len(b) = 1
    BY <1>3, <1>4, <2>1, EmptySeq
  <2>2. ASSUME Len(b) = 1 PROVE Tail(b) = <<>>
    <3>1. Len(Tail(b)) = 0
      BY <1>3, <1>4, <2>2
    <3>2. Tail(b) # <<>> => Len(Tail(b)) \in Nat \ {0}
      BY <1>4, EmptySeq
    <3> QED
      BY <3>1, <3>2
  <2> QED
    BY <2>1, <2>2
<1> QED
  BY <1>2, <1>4, <1>6, <1>7, <1>8 DEF b

(* The list of active entries after CreateMirror and after a write.        *)
LEMMA OrderKept ==
  ASSUME MirrorTypeOK, NEW s \in Scans,
         \/ /\ mirror[s] \notin Active
            /\ order' = Append(order, s)
            /\ mirror' = [mirror EXCEPT ![s] = "queued"]
         \/ /\ order' = WithoutScan(order, s)
            /\ \E e \in {"none", "deleted"} \cup Ended : mirror' = [mirror EXCEPT ![s] = e]
         \/ /\ mirror[s] \in Active
            /\ order' = Append(WithoutScan(order, s), s)
            /\ \E e \in Active : mirror' = [mirror EXCEPT ![s] = e]
  PROVE  /\ order' \in Seq(Scans) /\ Once(order')
         /\ \A t \in Scans : mirror'[t] \in Active <=> Listed(order', t)
<1>1. /\ order \in Seq(Scans) /\ Once(order)
      /\ \A t \in Scans : mirror[t] \in Active <=> Listed(order, t)
      /\ mirror \in [Scans -> {"none", "deleted"} \cup Active \cup Ended]
  BY DEF MirrorTypeOK, Once, Listed
<1> DEFINE others == WithoutScan(order, s)
<1>2. /\ others \in Seq(Scans) /\ Once(others)
      /\ \A t \in Scans : Listed(others, t) <=> Listed(order, t) /\ t # s
  BY <1>1, WithoutKeepsOthers
<1> HIDE DEF others
<1>3. CASE /\ mirror[s] \notin Active
           /\ order' = Append(order, s)
           /\ mirror' = [mirror EXCEPT ![s] = "queued"]
  <2>1. ~ Listed(order, s)
    BY <1>1, <1>3
  <2>2. /\ order' \in Seq(Scans) /\ Once(order')
        /\ \A t \in Scans : Listed(order', t) <=> Listed(order, t) \/ t = s
    BY <1>1, <1>3, <2>1, AppendAdds
  <2> QED
    BY <1>1, <1>3, <2>2 DEF Active
<1>4. CASE /\ order' = others
           /\ \E e \in {"none", "deleted"} \cup Ended : mirror' = [mirror EXCEPT ![s] = e]
  <2>1. \A t \in Scans : mirror'[t] \in Active <=> mirror[t] \in Active /\ t # s
    BY <1>1, <1>4 DEF Active, Ended
  <2> QED
    BY <1>1, <1>2, <1>4, <2>1
<1>5. CASE /\ mirror[s] \in Active
           /\ order' = Append(others, s)
           /\ \E e \in Active : mirror' = [mirror EXCEPT ![s] = e]
  <2>1. ~ Listed(others, s)
    BY <1>2
  <2>2. /\ order' \in Seq(Scans) /\ Once(order')
        /\ \A t \in Scans : Listed(order', t) <=> Listed(others, t) \/ t = s
    BY <1>2, <1>5, <2>1, AppendAdds
  <2>3. \A t \in Scans : mirror'[t] \in Active <=> mirror[t] \in Active
    BY <1>1, <1>5
  <2> QED
    BY <1>1, <1>2, <1>5, <2>2, <2>3
<1> QED
  BY <1>3, <1>4, <1>5 DEF others

(* What the invariant says, the list of active entries aside. *)
LEMMA MirrorTypes ==
  ASSUME MirrorTypeOK
  PROVE  /\ scan \in [Scans -> {"none", "pending", "running", "deleted"} \cup Terminal]
         /\ mirror \in [Scans -> {"none", "deleted"} \cup Active \cup Ended]
         /\ dispatch \in [Scans -> {"none", "mirror", "failing", "done"}]
         /\ pc \in [Reconcilers -> {"idle", "next", "write"}]
         /\ batch \in [Reconcilers -> Seq(Scans)]
         /\ read \in [Reconcilers -> {"pending", "running"} \cup Terminal]
         /\ \A r \in Reconcilers : pc[r] = "idle" <=> batch[r] = <<>>
         /\ early \subseteq Scans
  BY MirrorConstants DEF MirrorTypeOK

(* A step of a scan or of its request that leaves the entries alone: the   *)
(* scan did not exist, or had not ended, or its request gives up.          *)
LEMMA ScanStepKeeps ==
  ASSUME MirrorInv, NEW s \in Scans,
         UNCHANGED <<mirrorVars, early, reconVars>>,
         mirrorFaults' \in 0 .. MaxMirrorFaults,
         \/ Submit(s) \/ CreateMirrorError(s) \/ MarkScanFailed(s) \/ Run(s)
         \/ \E t \in Endings : Finish(s, t)
  PROVE  MirrorInv'
<1> USE DEF Terminal, Active, Ended, mirrorVars, reconVars
<1>1. MirrorTypeOK /\ EndMatchesScan /\ RequestGoesOnce /\ BatchHasEntries /\ ReadIsTheEnd
      /\ GoneTogether /\ LeftAlone
  BY DEF MirrorInv
<1>2. /\ scan' \in [Scans -> {"none", "pending", "running", "deleted"} \cup Terminal]
      /\ dispatch' \in [Scans -> {"none", "mirror", "failing", "done"}]
      /\ \A t \in Scans : scan[t] \in {"deleted"} \cup Terminal => scan'[t] = scan[t]
      /\ \A t \in Scans : scan'[t] = "deleted" => scan[t] = "deleted"
      /\ \A t \in Scans : scan'[t] = "none" <=> dispatch'[t] = "none"
      /\ \A t \in Scans : dispatch[t] = "done" => dispatch'[t] = "done"
  <2>1. CASE Submit(s)
    BY <1>1, <2>1, MirrorTypes DEF Submit, RequestGoesOnce
  <2>2. CASE CreateMirrorError(s)
    BY <1>1, <2>2, MirrorTypes DEF CreateMirrorError, RequestGoesOnce
  <2>3. CASE MarkScanFailed(s)
    <3>1. /\ dispatch[s] = "failing" /\ dispatch' = [dispatch EXCEPT ![s] = "done"]
          /\ scan' = IF scan[s] \in {"pending", "running"}
                     THEN [scan EXCEPT ![s] = "failed"] ELSE scan
      BY <2>3 DEF MarkScanFailed
    <3> QED
      BY <1>1, <3>1, MirrorTypes DEF RequestGoesOnce
  <2>4. CASE Run(s)
    BY <1>1, <2>4, MirrorTypes DEF Run, RequestGoesOnce
  <2>5. CASE \E t \in Endings : Finish(s, t)
    <3>1. PICK t \in Endings : Finish(s, t)
      BY <2>5
    <3>2. /\ scan[s] \in {"pending", "running"} /\ scan' = [scan EXCEPT ![s] = t]
          /\ dispatch' = dispatch /\ t \in Terminal
      BY <3>1, MirrorConstants DEF Finish
    <3> QED
      BY <1>1, <3>2, MirrorTypes DEF RequestGoesOnce
  <2> QED
    BY <2>1, <2>2, <2>3, <2>4, <2>5
<1>3. MirrorTypeOK'
  BY <1>1, <1>2 DEF MirrorTypeOK
<1>4. EndMatchesScan'
  BY <1>1, <1>2 DEF EndMatchesScan
<1>5. RequestGoesOnce'
  BY <1>1, <1>2 DEF RequestGoesOnce
<1>6. BatchHasEntries'
  BY <1>1 DEF BatchHasEntries, Listed
<1>7. ReadIsTheEnd'
  <2>1. ASSUME NEW r \in Reconcilers, pc[r] = "write" PROVE Head(batch[r]) \in Scans
    BY <1>1, <2>1, FirstOfBatch
  <2> QED
    BY <1>1, <1>2, <2>1 DEF ReadIsTheEnd
<1>8. GoneTogether' /\ LeftAlone'
  BY <1>1, <1>2, MirrorTypes DEF GoneTogether, LeftAlone
<1> QED
  BY <1>3, <1>4, <1>5, <1>6, <1>7, <1>8 DEF MirrorInv

LEMMA CreateKeeps ==
  ASSUME MirrorInv, NEW s \in Scans, CreateMirror(s)
  PROVE  MirrorInv'
<1> USE DEF Terminal, Active, Ended, mirrorVars, reconVars
<1>1. MirrorTypeOK /\ EndMatchesScan /\ RequestGoesOnce /\ BatchHasEntries /\ ReadIsTheEnd
      /\ GoneTogether /\ LeftAlone
  BY DEF MirrorInv
<1>2. /\ dispatch[s] = "mirror" /\ mirror[s] = "none" /\ dispatch' = [dispatch EXCEPT ![s] = "done"]
      /\ UNCHANGED <<scan, early, reconVars, mirrorFaults>>
  BY <1>1 DEF CreateMirror, RequestGoesOnce
<1>3. \/ UNCHANGED mirrorVars
      \/ mirror' = [mirror EXCEPT ![s] = "queued"] /\ order' = Append(order, s)
  BY DEF CreateMirror
<1>4. /\ order' \in Seq(Scans) /\ Once(order')
      /\ \A t \in Scans : mirror'[t] \in Active <=> Listed(order', t)
  <2>1. CASE UNCHANGED mirrorVars
    BY <1>1, <2>1 DEF MirrorTypeOK, Once, Listed
  <2>2. CASE mirror' = [mirror EXCEPT ![s] = "queued"] /\ order' = Append(order, s)
    BY <1>1, <1>2, <2>2, OrderKept
  <2> QED
    BY <1>3, <2>1, <2>2
<1>5. /\ mirror' \in [Scans -> {"none", "deleted"} \cup Active \cup Ended]
      /\ \A t \in Scans : mirror[t] # "none" => mirror'[t] = mirror[t]
      /\ \A t \in Scans : mirror'[t] # mirror[t] => t = s /\ mirror'[t] = "queued"
  BY <1>1, <1>2, <1>3, MirrorTypes
<1>6. MirrorTypeOK'
  BY <1>1, <1>2, <1>4, <1>5 DEF MirrorTypeOK, Once, Listed
<1>7. EndMatchesScan'
  BY <1>1, <1>2, <1>5 DEF EndMatchesScan
<1>8. RequestGoesOnce'
  BY <1>1, <1>2, <1>5, MirrorTypes DEF RequestGoesOnce
<1>9. BatchHasEntries'
  BY <1>1, <1>2, <1>5 DEF BatchHasEntries, Listed
<1>10. ReadIsTheEnd'
  <2>1. ASSUME NEW r \in Reconcilers, pc[r] = "write" PROVE Head(batch[r]) \in Scans
    BY <1>1, <2>1, FirstOfBatch
  <2> QED
    BY <1>1, <1>2, <1>5, <2>1 DEF ReadIsTheEnd
<1>11. GoneTogether' /\ LeftAlone'
  BY <1>1, <1>2, <1>5, MirrorTypes DEF GoneTogether, LeftAlone
<1> QED
  BY <1>6, <1>7, <1>8, <1>9, <1>10, <1>11 DEF MirrorInv

LEMMA DeleteKeeps ==
  ASSUME MirrorInv, NEW s \in Scans, DeleteScan(s)
  PROVE  MirrorInv'
<1> USE DEF Terminal, Active, Ended, mirrorVars, reconVars
<1>1. MirrorTypeOK /\ EndMatchesScan /\ RequestGoesOnce /\ BatchHasEntries /\ ReadIsTheEnd
      /\ GoneTogether /\ LeftAlone
  BY DEF MirrorInv
<1>2. /\ scan[s] # "none" /\ scan' = [scan EXCEPT ![s] = "deleted"]
      /\ mirror' = [mirror EXCEPT ![s] = IF mirror[s] = "none" THEN "none" ELSE "deleted"]
      /\ order' = WithoutScan(order, s)
      /\ early' = IF dispatch[s] = "done" THEN early ELSE early \cup {s}
      /\ s \in Deletable
      /\ UNCHANGED <<dispatch, reconVars, mirrorFaults>>
  BY DEF DeleteScan
<1>3. /\ order' \in Seq(Scans) /\ Once(order')
      /\ \A t \in Scans : mirror'[t] \in Active <=> Listed(order', t)
  <2>1. \E e \in {"none", "deleted"} \cup Ended : mirror' = [mirror EXCEPT ![s] = e]
    BY <1>2
  <2> QED
    BY <1>1, <1>2, <2>1, OrderKept
<1>4. /\ scan' \in [Scans -> {"none", "pending", "running", "deleted"} \cup Terminal]
      /\ mirror' \in [Scans -> {"none", "deleted"} \cup Active \cup Ended]
      /\ \A t \in Scans \ {s} : mirror'[t] = mirror[t] /\ scan'[t] = scan[t]
      /\ scan'[s] = "deleted"
      /\ mirror'[s] = IF mirror[s] = "none" THEN "none" ELSE "deleted"
  BY <1>1, <1>2, MirrorTypes
<1>5. MirrorTypeOK'
  BY <1>1, <1>2, <1>3, <1>4 DEF MirrorTypeOK, Once, Listed
<1>6. EndMatchesScan'
  BY <1>1, <1>4 DEF EndMatchesScan
<1>7. RequestGoesOnce'
  BY <1>1, <1>2, <1>4 DEF RequestGoesOnce
<1>8. BatchHasEntries'
  BY <1>1, <1>2, <1>4 DEF BatchHasEntries, Listed
<1>9. ReadIsTheEnd'
  <2>1. ASSUME NEW r \in Reconcilers, pc[r] = "write"
        PROVE  Head(batch[r]) \in Scans /\ mirror[Head(batch[r])] # "none"
    BY <1>1, <2>1, FirstOfBatch DEF BatchHasEntries
  <2> QED
    BY <1>1, <1>2, <1>4, <2>1 DEF ReadIsTheEnd
<1>10. GoneTogether'
  BY <1>1, <1>2, <1>4 DEF GoneTogether
<1>11. LeftAlone'
  <2>1. ASSUME dispatch[s] # "done" PROVE mirror[s] = "none"
    BY <1>1, <2>1 DEF RequestGoesOnce
  <2>2. ASSUME NEW r \in Reconcilers, pc[r] = "write"
        PROVE  Head(batch[r]) \in Scans /\ mirror[Head(batch[r])] # "none"
    BY <1>1, <2>2, FirstOfBatch DEF BatchHasEntries
  <2>3. ASSUME NEW t \in early' PROVE scan'[t] = "deleted" /\ mirror'[t] \in {"none", "queued"}
    <3>1. CASE t \in early /\ t # s
      BY <1>1, <1>4, <3>1, MirrorTypes DEF LeftAlone
    <3>2. CASE t \in early /\ t = s
      BY <1>1, <3>2 DEF LeftAlone, DeleteScan
    <3>3. CASE t \notin early
      BY <1>2, <1>4, <2>1, <2>3, <3>3
    <3> QED
      BY <3>1, <3>2, <3>3
  <2> QED
    BY <1>1, <1>2, <2>1, <2>2, <2>3 DEF LeftAlone
<1> QED
  BY <1>5, <1>6, <1>7, <1>8, <1>9, <1>10, <1>11 DEF MirrorInv

(* A reconciler that selects, loads or gives up leaves the rows alone.     *)
LEMMA SelectKeeps ==
  ASSUME MirrorInv, NEW r \in Reconcilers, Select(r)
  PROVE  MirrorInv'
<1> USE DEF Terminal, Active, Ended, mirrorVars
<1>1. MirrorTypeOK /\ EndMatchesScan /\ RequestGoesOnce /\ BatchHasEntries /\ ReadIsTheEnd
      /\ GoneTogether /\ LeftAlone
  BY DEF MirrorInv
<1> DEFINE n == IF Len(order) < Limit THEN Len(order) ELSE Limit
           chosen == SubSeq(order, 1, n)
<1>2. /\ order # <<>> /\ pc[r] = "idle"
      /\ batch' = [batch EXCEPT ![r] = chosen]
      /\ pc' = [pc EXCEPT ![r] = "next"]
      /\ UNCHANGED <<scan, mirrorVars, dispatch, early, read, mirrorFaults>>
  BY DEF Select
<1>3. /\ order \in Seq(Scans) /\ Len(order) \in Nat \ {0} /\ DOMAIN order = 1 .. Len(order)
      /\ \A i \in 1 .. Len(order) : order[i] \in Scans
  BY <1>1, <1>2, EmptySeq, LenProperties, ElementOfSeq DEF MirrorTypeOK
<1>4. n \in 1 .. Len(order)
  BY <1>3, MirrorConstants
<1> HIDE DEF n
<1>5. /\ chosen \in Seq(Scans) /\ Len(chosen) = IF 1 <= n THEN n - 1 + 1 ELSE 0
      /\ \A i \in 1 .. n - 1 + 1 : chosen[i] = order[1 + i - 1]
  <2>1. 1 \in Int /\ n \in Int /\ \A i \in 1 .. n : order[i] \in Scans
    BY <1>3, <1>4
  <2> QED
    BY <2>1, SubSeqProperties
<1> HIDE DEF chosen
<1>6. chosen # <<>>
  <2>1. Len(chosen) # 0
    BY <1>4, <1>5
  <2> QED
    BY <2>1, EmptySeq
<1>7. ASSUME NEW s \in Scans, Listed(chosen, s) PROVE mirror[s] # "none"
  <2>1. Len(chosen) = n /\ DOMAIN chosen = 1 .. n
    BY <1>3, <1>4, <1>5, LenProperties
  <2>2. PICK i \in 1 .. n : chosen[i] = s
    BY <1>7, <2>1 DEF Listed
  <2>3. i \in DOMAIN order /\ order[i] = s
    BY <1>3, <1>4, <1>5, <2>2
  <2> QED
    BY <1>1, <2>3 DEF MirrorTypeOK
<1>8. /\ batch' \in [Reconcilers -> Seq(Scans)] /\ pc' \in [Reconcilers -> {"idle", "next", "write"}]
      /\ \A q \in Reconcilers : pc'[q] = "idle" <=> batch'[q] = <<>>
      /\ batch'[r] = chosen
      /\ \A q \in Reconcilers \ {r} : batch'[q] = batch[q] /\ pc'[q] = pc[q]
      /\ pc'[r] = "next"
  BY <1>1, <1>2, <1>5, <1>6, MirrorTypes
<1>9. MirrorTypeOK'
  BY <1>1, <1>2, <1>8 DEF MirrorTypeOK
<1>10. EndMatchesScan' /\ RequestGoesOnce' /\ GoneTogether'
  BY <1>1, <1>2 DEF EndMatchesScan, RequestGoesOnce, GoneTogether
<1>11. BatchHasEntries'
  BY <1>1, <1>2, <1>7, <1>8 DEF BatchHasEntries
<1>12. ReadIsTheEnd' /\ LeftAlone'
  BY <1>1, <1>2, <1>8 DEF ReadIsTheEnd, LeftAlone
<1> QED
  BY <1>9, <1>10, <1>11, <1>12 DEF MirrorInv

LEMMA AbortKeeps ==
  ASSUME MirrorInv, NEW r \in Reconcilers, Abort(r),
         UNCHANGED <<scan, mirrorVars, dispatch, early, read>>,
         mirrorFaults' \in 0 .. MaxMirrorFaults
  PROVE  MirrorInv'
<1> USE DEF Terminal, Active, Ended, mirrorVars
<1>1. MirrorTypeOK /\ EndMatchesScan /\ RequestGoesOnce /\ BatchHasEntries /\ ReadIsTheEnd
      /\ GoneTogether /\ LeftAlone
  BY DEF MirrorInv
<1>2. <<>> \in Seq(Scans) /\ \A s \in Scans : ~ Listed(<<>>, s)
  BY EmptySeq, LenProperties DEF Listed
<1>3. /\ batch' \in [Reconcilers -> Seq(Scans)] /\ pc' \in [Reconcilers -> {"idle", "next", "write"}]
      /\ batch'[r] = <<>> /\ pc'[r] = "idle"
      /\ \A q \in Reconcilers \ {r} : batch'[q] = batch[q] /\ pc'[q] = pc[q]
  BY <1>1, <1>2, MirrorTypes DEF Abort
<1>4. MirrorTypeOK'
  BY <1>1, <1>3 DEF MirrorTypeOK
<1>5. EndMatchesScan' /\ RequestGoesOnce' /\ GoneTogether'
  BY <1>1 DEF EndMatchesScan, RequestGoesOnce, GoneTogether
<1>6. BatchHasEntries'
  BY <1>1, <1>2, <1>3 DEF BatchHasEntries
<1>7. ReadIsTheEnd' /\ LeftAlone'
  BY <1>1, <1>3 DEF ReadIsTheEnd, LeftAlone
<1> QED
  BY <1>4, <1>5, <1>6, <1>7 DEF MirrorInv

LEMMA LoadKeeps ==
  ASSUME MirrorInv, NEW r \in Reconcilers, Load(r)
  PROVE  MirrorInv'
<1> USE DEF Terminal, Active, Ended, mirrorVars
<1>1. MirrorTypeOK /\ EndMatchesScan /\ RequestGoesOnce /\ BatchHasEntries /\ ReadIsTheEnd
      /\ GoneTogether /\ LeftAlone
  BY DEF MirrorInv
<1> DEFINE s == Head(batch[r])
<1>2. /\ pc[r] = "next"
      /\ UNCHANGED <<scan, mirrorVars, dispatch, early, mirrorFaults>>
  BY DEF Load
<1>3. s \in Scans /\ mirror[s] # "none"
  BY <1>1, <1>2, FirstOfBatch DEF BatchHasEntries
<1>4. scan[s] # "none"
  BY <1>1, <1>3 DEF RequestGoesOnce
<1>5. CASE scan[s] = "deleted"
  <2>1. mirrorFaults \in 0 .. MaxMirrorFaults
    BY <1>1 DEF MirrorTypeOK
  <2> QED
    BY <1>2, <1>5, <2>1, AbortKeeps DEF Load
<1>6. CASE scan[s] # "deleted"
  <2>1. /\ read' = [read EXCEPT ![r] = scan[s]] /\ pc' = [pc EXCEPT ![r] = "write"]
        /\ UNCHANGED batch
    BY <1>6 DEF Load
  <2> HIDE DEF s
  <2>2. /\ read' \in [Reconcilers -> {"pending", "running"} \cup Terminal]
        /\ pc' \in [Reconcilers -> {"idle", "next", "write"}]
        /\ read'[r] = scan[s] /\ pc'[r] = "write"
        /\ \A q \in Reconcilers \ {r} : read'[q] = read[q] /\ pc'[q] = pc[q]
    BY <1>1, <1>3, <1>4, <1>6, <2>1, MirrorTypes
  <2>3. MirrorTypeOK'
    BY <1>1, <1>2, <2>1, <2>2 DEF MirrorTypeOK
  <2>4. EndMatchesScan' /\ RequestGoesOnce' /\ GoneTogether' /\ BatchHasEntries'
    BY <1>1, <1>2, <2>1
       DEF EndMatchesScan, RequestGoesOnce, GoneTogether, BatchHasEntries, Listed
  <2>5. ReadIsTheEnd' /\ LeftAlone'
    BY <1>1, <1>2, <1>6, <2>1, <2>2 DEF ReadIsTheEnd, LeftAlone, s
  <2> QED
    BY <2>3, <2>4, <2>5 DEF MirrorInv
<1> QED
  BY <1>5, <1>6

(* The write: an entry ends as its scan has ended, and an entry that has   *)
(* ended or is gone is left as it is.                                      *)
LEMMA WriteKeeps ==
  ASSUME MirrorInv, NEW r \in Reconcilers, Write(r)
  PROVE  MirrorInv'
<1> USE DEF Terminal, Active, Ended
<1>1. MirrorTypeOK /\ EndMatchesScan /\ RequestGoesOnce /\ BatchHasEntries /\ ReadIsTheEnd
      /\ GoneTogether /\ LeftAlone
  BY DEF MirrorInv
<1> DEFINE s == Head(batch[r])
           new == StatusFor(read[r])
<1>2. /\ pc[r] = "write"
      /\ batch' = [batch EXCEPT ![r] = Tail(batch[r])]
      /\ pc' = [pc EXCEPT ![r] = IF Len(batch[r]) = 1 THEN "idle" ELSE "next"]
      /\ UNCHANGED <<scan, dispatch, early, read, mirrorFaults>>
      /\ \/ mirror[s] \notin Active /\ UNCHANGED mirrorVars
         \/ /\ mirror[s] \in Active
            /\ mirror' = [mirror EXCEPT ![s] = new]
            /\ order' = Touched(s, new)
  BY DEF Write, Writable
<1>3. /\ s \in Scans /\ Listed(batch[r], s)
      /\ Tail(batch[r]) \in Seq(Scans)
      /\ \A t \in Scans : Listed(Tail(batch[r]), t) => Listed(batch[r], t)
      /\ Tail(batch[r]) = <<>> <=> Len(batch[r]) = 1
  BY <1>1, <1>2, FirstOfBatch
<1>4. read[r] \in {"pending", "running"} \cup Terminal
  BY <1>1, MirrorTypes
<1>5. /\ new \in Active \cup Ended
      /\ new \in Ended => <<read[r], new>> \in {<<"completed", "succeeded">>,
                                              <<"failed", "failed">>,
                                              <<"cancelled", "cancelled">>}
  BY <1>4 DEF StatusFor
<1> HIDE DEF new
<1>6. /\ order' \in Seq(Scans) /\ Once(order')
      /\ \A t \in Scans : mirror'[t] \in Active <=> Listed(order', t)
  <2>1. CASE UNCHANGED mirrorVars
    BY <1>1, <2>1 DEF MirrorTypeOK, Once, Listed, mirrorVars
  <2>2. CASE /\ mirror[s] \in Active /\ mirror' = [mirror EXCEPT ![s] = new]
             /\ order' = Touched(s, new)
    <3>1. CASE new \in Active
      <4>1. /\ mirror[s] \in Active
            /\ order' = Append(WithoutScan(order, s), s)
            /\ \E e \in Active : mirror' = [mirror EXCEPT ![s] = e]
        BY <2>2, <3>1 DEF Touched
      <4> QED
        BY <1>1, <1>3, <4>1, OrderKept
    <3>2. CASE new \notin Active
      <4>1. /\ order' = WithoutScan(order, s)
            /\ \E e \in {"none", "deleted"} \cup Ended : mirror' = [mirror EXCEPT ![s] = e]
        BY <1>5, <2>2, <3>2 DEF Touched
      <4> QED
        BY <1>1, <1>3, <4>1, OrderKept
    <3> QED
      BY <3>1, <3>2
  <2> QED
    BY <1>2, <2>1, <2>2
<1> HIDE DEF s
<1>7. /\ mirror' \in [Scans -> {"none", "deleted"} \cup Active \cup Ended]
      /\ \A t \in Scans : mirror'[t] # mirror[t] =>
            t = s /\ mirror[t] \in Active /\ mirror'[t] = new
  BY <1>1, <1>2, <1>3, <1>5, MirrorTypes DEF mirrorVars
<1>8. /\ batch' \in [Reconcilers -> Seq(Scans)]
      /\ pc' \in [Reconcilers -> {"idle", "next", "write"}]
      /\ pc'[r] \in {"idle", "next"} /\ batch'[r] = Tail(batch[r])
      /\ pc'[r] = "idle" <=> Len(batch[r]) = 1
      /\ \A q \in Reconcilers \ {r} : batch'[q] = batch[q] /\ pc'[q] = pc[q]
  BY <1>1, <1>2, <1>3, MirrorTypes
<1>9. \A q \in Reconcilers : pc'[q] = "idle" <=> batch'[q] = <<>>
  BY <1>1, <1>3, <1>8, MirrorTypes
<1>10. MirrorTypeOK'
  BY <1>1, <1>2, <1>6, <1>7, <1>8, <1>9 DEF MirrorTypeOK, Once, Listed
<1>11. EndMatchesScan'
  <2>1. mirror[s] \in Active /\ new \in Ended => scan[s] = read[r]
    BY <1>1, <1>2, <1>5 DEF ReadIsTheEnd, s
  <2> QED
    BY <1>1, <1>2, <1>5, <1>7, <2>1 DEF EndMatchesScan
<1>12. RequestGoesOnce'
  BY <1>1, <1>2, <1>7 DEF RequestGoesOnce
<1>13. BatchHasEntries'
  <2>1. \A t \in Scans : mirror[t] # "none" => mirror'[t] # "none"
    BY <1>5, <1>7
  <2>2. ASSUME NEW q \in Reconcilers, NEW t \in Scans, Listed(batch'[q], t)
        PROVE  Listed(batch[q], t)
    <3>1. CASE q = r
      BY <1>3, <1>8, <2>2, <3>1
    <3>2. CASE q # r
      BY <1>8, <2>2, <3>2
    <3> QED
      BY <3>1, <3>2
  <2> QED
    BY <1>1, <2>1, <2>2 DEF BatchHasEntries
<1>14. ReadIsTheEnd'
  <2>1. ASSUME NEW q \in Reconcilers, pc[q] = "write" PROVE Head(batch[q]) \in Scans
    BY <1>1, <2>1, FirstOfBatch
  <2> QED
    BY <1>1, <1>2, <1>7, <1>8, <2>1 DEF ReadIsTheEnd
<1>15. GoneTogether'
  BY <1>1, <1>2, <1>7 DEF GoneTogether
<1>16. LeftAlone'
  <2>1. s \notin early
    BY <1>1, <1>2 DEF LeftAlone, s
  <2> QED
    BY <1>1, <1>2, <1>7, <1>8, <2>1, MirrorTypes DEF LeftAlone
<1> QED
  BY <1>10, <1>11, <1>12, <1>13, <1>14, <1>15, <1>16 DEF MirrorInv

LEMMA MirrorKept == MirrorInv /\ [MirrorNext]_scanMirrorVars => MirrorInv'
<1> SUFFICES ASSUME MirrorInv, [MirrorNext]_scanMirrorVars PROVE MirrorInv'
  OBVIOUS
<1>1. mirrorFaults \in 0 .. MaxMirrorFaults /\ MaxMirrorFaults \in Nat
  BY MirrorConstants DEF MirrorInv, MirrorTypeOK
<1>2. CASE UNCHANGED scanMirrorVars
  BY <1>2 DEF MirrorInv, MirrorTypeOK, EndMatchesScan, RequestGoesOnce, BatchHasEntries,
              ReadIsTheEnd, GoneTogether, LeftAlone, Listed, scanMirrorVars, mirrorVars, reconVars
<1>3. ASSUME NEW s \in Scans,
             \/ Submit(s) \/ CreateMirrorError(s) \/ MarkScanFailed(s) \/ Run(s)
             \/ \E t \in Endings : Finish(s, t)
      PROVE  MirrorInv'
  <2>1. UNCHANGED <<mirrorVars, early, reconVars>>
    BY <1>3 DEF Submit, CreateMirrorError, MarkScanFailed, Run, Finish
  <2>2. mirrorFaults' \in 0 .. MaxMirrorFaults
    BY <1>1, <1>3 DEF Submit, CreateMirrorError, MirrorFault, MarkScanFailed, Run, Finish
  <2> QED
    BY <1>3, <2>1, <2>2, ScanStepKeeps
<1>4. ASSUME NEW s \in Scans, CreateMirror(s) \/ DeleteScan(s) PROVE MirrorInv'
  BY <1>4, CreateKeeps, DeleteKeeps
<1>5. ASSUME NEW r \in Reconcilers, ReconcilerStep(r) PROVE MirrorInv'
  BY <1>5, SelectKeeps, LoadKeeps, WriteKeeps DEF ReconcilerStep
<1>6. ASSUME NEW r \in Reconcilers, PassError(r) PROVE MirrorInv'
  <2>1. mirrorFaults' \in 0 .. MaxMirrorFaults
    BY <1>1, <1>6 DEF PassError, MirrorFault
  <2> QED
    BY <1>6, <2>1, AbortKeeps DEF PassError
<1> QED
  BY <1>2, <1>3, <1>4, <1>5, <1>6 DEF MirrorNext, DispatchStep

-----------------------------------------------------------------------------
(* An entry that has ended says how its scan ended, whatever a reconciler  *)
(* read before and however the passes of several processes overlap; and    *)
(* the entry is gone with its scan (reconcileScanBackgroundJobs,           *)
(* deleteScanRecords), but for one created after the scan was deleted,     *)
(* which stays queued.                                                     *)
THEOREM EntriesAgree == MirrorSpec => []EntriesMatchScans
<1>1. ASSUME MirrorInv PROVE EntriesMatchScans
  <2>1. MirrorTypeOK /\ EndMatchesScan /\ GoneTogether /\ LeftAlone
    BY <1>1 DEF MirrorInv
  <2>2. DeletedTogether
    BY <2>1 DEF GoneTogether, LeftAlone, DeletedTogether, Active, Ended
  <2> QED
    BY <2>1, <2>2 DEF EntriesMatchScans
<1> QED
  BY <1>1, MirrorStarts, MirrorKept, PTL DEF MirrorSpec
=============================================================================
