----------------------- MODULE AuditRetentionProofs -----------------------
(***************************************************************************)
(* Proofs about AuditRetention.  What it promises of the entries that left *)
(* the table needs what holds of the batches about to leave it (AuditInv); *)
(* that an entry is appended once needs who holds it (OnceInv).            *)
(***************************************************************************)
EXTENDS AuditRetention, TLAPS

Past(e) == age[e] > Retention[BucketOf[e]]

AuditInv ==
    /\ table \subseteq Entries
    /\ lines \in [Entries -> Nat]
    /\ age \in [Entries -> Nat]
    /\ pc \in [Processes -> PCs]
    /\ batch \in [Processes -> SUBSET Entries]
    /\ \A p \in Processes : \A e \in batch[p] : Past(e)
    /\ \A e \in Entries \ table : Past(e)
    /\ archiving =>
         /\ \A e \in Entries \ table : lines[e] > 0
         /\ \A p \in Processes : pc[p] = "delete" => \A e \in batch[p] : lines[e] > 0
         /\ \A p \in Processes : pc[p] \notin {"append", "delete"} => batch[p] = {}

-----------------------------------------------------------------------------
\* Whole or interrupted, an append only adds lines.
LEMMA AppendOnlyAdds ==
    ASSUME lines \in [Entries -> Nat], NEW b, NEW S, Appended(b, S)
    PROVE  /\ lines' \in [Entries -> Nat]
           /\ \A e \in Entries : lines'[e] >= lines[e]
           /\ \A e \in Entries \cap S : lines'[e] > 0
BY DEF Appended

LEMMA PartOnlyAdds ==
    ASSUME lines \in [Entries -> Nat], NEW p, NEW b, PartOf(p, b)
    PROVE  lines' \in [Entries -> Nat] /\ \A e \in Entries : lines'[e] >= lines[e]
<1>1. CASE UNCHANGED lines
  BY <1>1
<1>2. CASE \E S \in SUBSET batch[p] : Appended(b, S)
  BY <1>2, AppendOnlyAdds
<1> QED
  BY <1>1, <1>2 DEF PartOf, files

\* What a bucket's predicate selects is past its cutoff.
LEMMA DueIsPast == \A b : \A e \in Due(b) : Past(e)
BY DEF Due, Past

\* A step of p that gives its batch up, or keeps nothing in it, deletes nothing.
LEMMA BatchGivenUp ==
    ASSUME AuditInv, NEW p \in Processes, NEW l \in PCs \ {"append", "delete"},
           table' = table, age' = age, archiving' = archiving,
           lines' \in [Entries -> Nat], \A e \in Entries : lines'[e] >= lines[e],
           pc' = [pc EXCEPT ![p] = l], batch' = [batch EXCEPT ![p] = {}]
    PROVE  AuditInv'
<1>1. \A e \in Entries : Past(e)' = Past(e)
  BY DEF Past
<1>2. \A q \in Processes : batch'[q] \subseteq batch[q]
  BY DEF AuditInv
<1>3. archiving => \A e \in Entries \ table : lines'[e] > 0
  BY DEF AuditInv
<1>4. archiving => \A q \in Processes : pc'[q] = "delete" => \A e \in batch'[q] : lines'[e] > 0
  BY DEF AuditInv
<1> QED
  BY <1>1, <1>2, <1>3, <1>4 DEF AuditInv

\* A step of p that touches neither table, ages, lines nor batches.
LEMMA StepAside ==
    ASSUME AuditInv, NEW p \in Processes, NEW l \in PCs \ {"append", "delete"},
           table' = table, age' = age, archiving' = archiving, lines' = lines,
           batch' = batch, pc' = [pc EXCEPT ![p] = l], pc[p] \notin {"append", "delete"}
    PROVE  AuditInv'
BY DEF AuditInv, Past

LEMMA AuditInitially == Init => AuditInv
BY RetentionAssumption DEF Init, AuditInv, Past, PCs

LEMMA AuditStep ==
    ASSUME AuditInv, [Next]_vars
    PROVE  AuditInv'
<1> USE RetentionAssumption
<1>1. ASSUME NEW p \in Processes, NEW c \in Conns, StartPass(p, c) \/ Unlock(p, c)
      PROVE  AuditInv'
  BY <1>1, StepAside DEF StartPass, Unlock, Goto, files, pass, AuditInv, PCs
<1>2. ASSUME NEW p \in Processes, NEW c \in Conns, SelectBatch(p, c)
      PROVE  AuditInv'
  <2>1. PICK S \in Batches(p, InHand(p)) : batch' = [batch EXCEPT ![p] = S]
    BY <1>2 DEF SelectBatch
  <2>2. S \subseteq Due(InHand(p)) /\ S \subseteq table
    BY <2>1 DEF Batches, Due
  <2>3. \A e \in S : Past(e)
    BY <2>2, DueIsPast
  <2>4. pc' = [pc EXCEPT ![p] = "append"]
    BY <1>2 DEF SelectBatch, Goto
  <2> QED
    BY <1>2, <2>1, <2>2, <2>3, <2>4 DEF SelectBatch, files, AuditInv, Past, PCs
<1>3. ASSUME NEW p \in Processes, NEW c \in Conns, BucketEmpty(p, c)
      PROVE  AuditInv'
  BY <1>3 DEF BucketEmpty, files, AuditInv, Past
<1>4. ASSUME NEW p \in Processes, NEW c \in Conns, BucketsDone(p, c)
      PROVE  AuditInv'
  <2>1. /\ table' = table \ batch[p] /\ batch' = [batch EXCEPT ![p] = {}]
        /\ pc' = [pc EXCEPT ![p] = "committed"] /\ pc[p] = "buckets"
        /\ age' = age /\ lines' = lines /\ archiving' = archiving
    BY <1>4 DEF BucketsDone, Goto, files
  <2>2. \A e \in Entries \ table' : Past(e)
    BY <2>1 DEF AuditInv
  <2>3. archiving => table' = table
    BY <2>1 DEF AuditInv
  <2> QED
    BY <2>1, <2>2, <2>3 DEF AuditInv, Past, PCs
<1>5. ASSUME NEW p \in Processes, AppendLines(p)
      PROVE  AuditInv'
  <2>1. /\ table' = table /\ batch' = batch /\ age' = age /\ archiving' = archiving
        /\ pc' = [pc EXCEPT ![p] = "delete"] /\ pc[p] = "append"
        /\ Appended(InHand(p), batch[p])
    BY <1>5 DEF AppendLines, Working, Goto, pass
  <2>2. /\ lines' \in [Entries -> Nat]
        /\ \A e \in Entries : lines'[e] >= lines[e]
        /\ \A e \in Entries \cap batch[p] : lines'[e] > 0
    BY <2>1, AppendOnlyAdds DEF AuditInv
  <2>3. archiving => \A e \in Entries \ table : lines'[e] > 0
    BY <2>2 DEF AuditInv
  <2>4. archiving => \A q \in Processes : pc'[q] = "delete" => \A e \in batch[q] : lines'[e] > 0
    BY <2>1, <2>2 DEF AuditInv
  <2> QED
    BY <2>1, <2>2, <2>3, <2>4 DEF AuditInv, Past, PCs
<1>6. ASSUME NEW p \in Processes, AppendFails(p)
      PROVE  AuditInv'
  <2>1. lines' \in [Entries -> Nat] /\ \A e \in Entries : lines'[e] >= lines[e]
    BY <1>6, PartOnlyAdds DEF AppendFails, AuditInv
  <2> QED
    BY <1>6, <2>1, BatchGivenUp DEF AppendFails, BatchAborted, Goto, PCs
<1>7. ASSUME NEW p \in Processes, DeleteBatch(p)
      PROVE  AuditInv'
  <2>1. /\ table' = table \ batch[p] /\ batch' = [batch EXCEPT ![p] = {}]
        /\ pc' = [pc EXCEPT ![p] = "buckets"] /\ pc[p] = "delete"
        /\ age' = age /\ lines' = lines /\ archiving' = archiving
    BY <1>7 DEF DeleteBatch, Working, Goto, files
  <2>2. \A e \in Entries \ table' : Past(e) /\ (archiving => lines[e] > 0)
    BY <2>1 DEF AuditInv
  <2> QED
    BY <2>1, <2>2 DEF AuditInv, Past, PCs
<1>8. ASSUME NEW p \in Processes, PlainDelete(p)
      PROVE  AuditInv'
  <2>1. /\ batch' = [batch EXCEPT ![p] = @ \cup Due(InHand(p))] /\ ~archiving
        /\ table' = table /\ age' = age /\ lines' = lines
        /\ archiving' = archiving /\ pc' = pc
    BY <1>8 DEF PlainDelete, files
  <2>2. Due(InHand(p)) \subseteq Entries
    BY DEF Due, AuditInv
  <2>3. \A q \in Processes : \A e \in batch'[q] : Past(e)
    BY <2>1, DueIsPast DEF AuditInv
  <2> QED
    BY <2>1, <2>2, <2>3 DEF AuditInv, Past
<1>9. ASSUME NEW p \in Processes, StatementFails(p)
      PROVE  AuditInv'
  <2>1. lines' = lines /\ lines \in [Entries -> Nat]
    BY <1>9 DEF StatementFails, files, AuditInv
  <2>2. \A e \in Entries : lines'[e] >= lines[e]
    BY <2>1
  <2> QED
    BY <1>9, <2>1, <2>2, BatchGivenUp DEF StatementFails, Goto, PCs
<1>10. ASSUME NEW p \in Processes, EndPass(p)
       PROVE  AuditInv'
  BY <1>10, StepAside DEF EndPass, Goto, files, PCs
<1>11. ASSUME NEW p \in Processes, Restart(p)
       PROVE  AuditInv'
  <2>1. lines' \in [Entries -> Nat] /\ \A e \in Entries : lines'[e] >= lines[e]
    <3>1. CASE PartOf(p, InHand(p))
      BY <3>1, PartOnlyAdds DEF AuditInv
    <3>2. CASE UNCHANGED files
      BY <3>2 DEF AuditInv, files
    <3> QED
      BY <1>11, <3>1, <3>2 DEF Restart
  <2> QED
    BY <1>11, <2>1, BatchGivenUp DEF Restart, Goto, PCs
<1>12. ASSUME NEW f \in Entries, Grow(f)
       PROVE  AuditInv'
  <2>1. /\ age' = [age EXCEPT ![f] = @ + 1]
        /\ table' = table /\ lines' = lines /\ archiving' = archiving /\ pc' = pc /\ batch' = batch
    BY <1>12 DEF Grow, files, pass
  <2>2. \A e \in Entries : Past(e) => Past(e)'
    BY <2>1 DEF Past, AuditInv
  <2> QED
    BY <2>1, <2>2 DEF AuditInv
<1>13. ASSUME UNCHANGED vars
       PROVE  AuditInv'
  BY <1>13 DEF vars, files, pass, AuditInv, Past
<1> QED
  BY <1>1, <1>2, <1>3, <1>4, <1>5, <1>6, <1>7, <1>8, <1>9, <1>10, <1>11, <1>12, <1>13
  DEF Next, PruneOnce

\* "Never DELETE without a successful file append": with the archiver on, nothing
\* leaves the table before a line of it was appended, whatever fails and however
\* many passes overlap.
THEOREM DeletedAfterAppend == Spec => []DeletedWereAppended
<1>1. AuditInv => DeletedWereAppended
  BY DEF AuditInv, DeletedWereAppended
<1> QED
  BY <1>1, AuditInitially, AuditStep, PTL DEF Spec

\* No entry leaves the table before the cutoff of its own bucket, on either path.
THEOREM PrunedAfterCutoff == Spec => []OnlyExpiredPruned
<1>1. AuditInv => OnlyExpiredPruned
  BY DEF AuditInv, OnlyExpiredPruned, Past
<1> QED
  BY <1>1, AuditInitially, AuditStep, PTL DEF Spec

-----------------------------------------------------------------------------
\* What has been appended more often than passes failed is held by the pass that is
\* about to delete it.
Accounted(e) ==
    lines[e] > faults => \E p \in Processes : pc[p] = "delete" /\ e \in batch[p]

OnceInv ==
    /\ faults \in Nat
    /\ archiving =>
         /\ \A p \in Processes : batch[p] \subseteq table
         /\ \A p, q \in Processes : p # q => batch[p] \cap batch[q] = {}
    /\ ~archiving => \A p \in Processes : pc[p] \notin {"append", "delete"}
    /\ \A e \in Entries : lines[e] <= 1 + faults
    /\ \A e \in table : Accounted(e)

\* An append, whole or interrupted, adds one line to an entry of its batch at most.
LEMMA PartAddsOne ==
    ASSUME lines \in [Entries -> Nat], NEW p, NEW b, PartOf(p, b)
    PROVE  /\ lines' \in [Entries -> Nat]
           /\ \A e \in Entries : lines'[e] <= lines[e] + 1
           /\ \A e \in Entries \ batch[p] : lines'[e] = lines[e]
<1>1. CASE UNCHANGED lines
  BY <1>1
<1>2. CASE \E S \in SUBSET batch[p] : Appended(b, S)
  <2>1. PICK S \in SUBSET batch[p] : Appended(b, S)
    BY <1>2
  <2>2. lines' = [e \in Entries |-> IF e \in S THEN lines[e] + 1 ELSE lines[e]]
    BY <2>1 DEF Appended
  <2>3. \A e \in Entries : lines'[e] \in {lines[e], lines[e] + 1} /\ (e \notin S => lines'[e] = lines[e])
    BY <2>2
  <2> QED
    BY <2>1, <2>2, <2>3
<1> QED
  BY <1>1, <1>2 DEF PartOf, files

\* A failed step of p: its batch goes back to the table, and the lines it may have
\* written are paid for by the fault.
LEMMA FaultPays ==
    ASSUME AuditInv, OnceInv, NEW p \in Processes, NEW l \in PCs \ {"append", "delete"},
           table' = table, archiving' = archiving, faults' = faults + 1,
           lines' \in [Entries -> Nat],
           \A e \in Entries : lines'[e] <= lines[e] + 1,
           \A e \in Entries : lines'[e] = lines[e] \/ (pc[p] = "append" /\ e \in batch[p]),
           pc' = [pc EXCEPT ![p] = l], batch' = [batch EXCEPT ![p] = {}]
    PROVE  OnceInv'
<1>1. \A q \in Processes : batch'[q] \subseteq batch[q]
  BY DEF AuditInv
<1>2. archiving => /\ \A q \in Processes : batch'[q] \subseteq table
                   /\ \A q, r \in Processes : q # r => batch'[q] \cap batch'[r] = {}
  <2>1. SUFFICES ASSUME archiving
                 PROVE  /\ \A q \in Processes : batch'[q] \subseteq table
                        /\ \A q, r \in Processes : q # r => batch'[q] \cap batch'[r] = {}
    OBVIOUS
  <2>2. \A q, r \in Processes : q # r => batch[q] \cap batch[r] = {}
    BY <2>1 DEF OnceInv
  <2>3. \A q \in Processes : batch[q] \subseteq table
    BY <2>1 DEF OnceInv
  <2> QED
    BY <1>1, <2>2, <2>3
<1>3. ~archiving => \A q \in Processes : pc'[q] \notin {"append", "delete"}
  BY DEF AuditInv, OnceInv
<1>4. ASSUME NEW e \in Entries
      PROVE  lines'[e] <= 1 + faults
  <2>1. CASE lines'[e] = lines[e]
    BY <2>1 DEF OnceInv
  <2>2. CASE pc[p] = "append" /\ e \in batch[p]
    <3>1. archiving
      BY <2>2 DEF OnceInv
    <3>2. e \in table
      BY <2>2, <3>1 DEF OnceInv
    <3>3. ~ \E q \in Processes : pc[q] = "delete" /\ e \in batch[q]
      BY <2>2, <3>1 DEF OnceInv
    <3>4. ~(lines[e] > faults)
      BY <3>2, <3>3 DEF OnceInv, Accounted
    <3> QED
      BY <3>4 DEF AuditInv, OnceInv
  <2> QED
    BY <2>1, <2>2
<1>5. \A e \in Entries : ~(lines'[e] > faults') /\ lines'[e] <= 1 + faults'
  BY <1>4 DEF OnceInv
<1>6. \A e \in table : Accounted(e)'
  BY <1>5 DEF Accounted, AuditInv
<1> QED
  BY <1>2, <1>3, <1>5, <1>6 DEF OnceInv

\* A step that touches neither table, lines, batches nor faults, of a process that
\* neither appends nor deletes before or after it.
LEMMA OnceAside ==
    ASSUME AuditInv, OnceInv, NEW p \in Processes, NEW l \in PCs \ {"append", "delete"},
           table' = table, archiving' = archiving, lines' = lines, faults' = faults,
           batch' = batch, pc' = [pc EXCEPT ![p] = l], pc[p] \notin {"append", "delete"}
    PROVE  OnceInv'
<1>1. \A q \in Processes : pc'[q] \in {"append", "delete"} => pc'[q] = pc[q]
  BY DEF AuditInv
<1>2. \A q \in Processes : pc[q] = "delete" => pc'[q] = "delete"
  BY DEF AuditInv
<1>3. \A e \in table : Accounted(e)'
  BY <1>2 DEF OnceInv, Accounted
<1> QED
  BY <1>1, <1>3 DEF OnceInv

LEMMA OnceInitially == Init => OnceInv
BY DEF Init, OnceInv, Accounted

LEMMA OnceStep ==
    ASSUME AuditInv, OnceInv, [Next]_vars
    PROVE  OnceInv'
<1>1. ASSUME NEW p \in Processes, NEW c \in Conns, StartPass(p, c) \/ Unlock(p, c)
      PROVE  OnceInv'
  BY <1>1, OnceAside DEF StartPass, Unlock, Goto, files, pass, PCs
<1>2. ASSUME NEW p \in Processes, NEW c \in Conns, SelectBatch(p, c)
      PROVE  OnceInv'
  <2>1. PICK S \in Batches(p, InHand(p)) : batch' = [batch EXCEPT ![p] = S]
    BY <1>2 DEF SelectBatch
  <2>2. /\ table' = table /\ archiving' = archiving /\ lines' = lines /\ faults' = faults
        /\ pc' = [pc EXCEPT ![p] = "append"] /\ pc[p] = "buckets" /\ archiving
    BY <1>2 DEF SelectBatch, Working, Goto, files
  <2>3. S \subseteq table /\ \A q \in Processes \ {p} : S \cap batch[q] = {}
    BY <2>1 DEF Batches, Due, LockedByOther
  <2>4. \A q \in Processes : batch'[q] = IF q = p THEN S ELSE batch[q]
    BY <2>1 DEF AuditInv
  <2>5. \A q \in Processes : pc[q] = "delete" => pc'[q] = "delete" /\ batch'[q] = batch[q]
    BY <2>2, <2>4 DEF AuditInv
  <2>6. \A e \in table : Accounted(e)'
    BY <2>2, <2>5 DEF OnceInv, Accounted
  <2>7. \A q, r \in Processes : q # r => batch'[q] \cap batch'[r] = {}
    <3>1. \A q, r \in Processes : q # r => batch[q] \cap batch[r] = {}
      BY <2>2 DEF OnceInv
    <3> QED
      BY <2>3, <2>4, <3>1
  <2>8. \A q \in Processes : batch'[q] \subseteq table
    BY <2>2, <2>3, <2>4 DEF OnceInv
  <2> QED
    BY <2>2, <2>6, <2>7, <2>8 DEF OnceInv
<1>3. ASSUME NEW p \in Processes, NEW c \in Conns, BucketEmpty(p, c)
      PROVE  OnceInv'
  BY <1>3 DEF BucketEmpty, files, OnceInv, Accounted
<1>4. ASSUME NEW p \in Processes, NEW c \in Conns, BucketsDone(p, c)
      PROVE  OnceInv'
  <2>1. /\ table' = table \ batch[p] /\ batch' = [batch EXCEPT ![p] = {}]
        /\ pc' = [pc EXCEPT ![p] = "committed"] /\ pc[p] = "buckets"
        /\ faults' = faults /\ lines' = lines /\ archiving' = archiving
    BY <1>4 DEF BucketsDone, Goto, files
  <2>2. archiving => table' = table /\ batch' = batch
    BY <2>1 DEF AuditInv
  <2>3. \A q \in Processes : pc[q] = "delete" => pc'[q] = "delete" /\ batch'[q] = batch[q]
    BY <2>1 DEF AuditInv
  <2>4. \A e \in table' : Accounted(e)'
    BY <2>1, <2>3 DEF OnceInv, Accounted
  <2>5. ~archiving => \A q \in Processes : pc'[q] \notin {"append", "delete"}
    BY <2>1 DEF OnceInv, AuditInv
  <2> QED
    BY <2>1, <2>2, <2>4, <2>5 DEF OnceInv
<1>5. ASSUME NEW p \in Processes, AppendLines(p)
      PROVE  OnceInv'
  <2>1. /\ table' = table /\ batch' = batch /\ faults' = faults /\ archiving' = archiving
        /\ pc' = [pc EXCEPT ![p] = "delete"] /\ pc[p] = "append" /\ archiving
    BY <1>5 DEF AppendLines, Working, Goto, pass, OnceInv
  <2>2. \A e \in Entries : lines'[e] = IF e \in batch[p] THEN lines[e] + 1 ELSE lines[e]
    BY <1>5 DEF AppendLines, Appended
  <2>3. \A q \in Processes : q # p => batch[q] \cap batch[p] = {}
    BY <2>1 DEF OnceInv
  <2>4. batch[p] \subseteq table
    BY <2>1 DEF OnceInv
  <2>5. ASSUME NEW e \in Entries
        PROVE  lines'[e] <= 1 + faults
    <3>1. CASE e \notin batch[p]
      BY <2>2, <3>1 DEF OnceInv
    <3>2. CASE e \in batch[p]
      <4>1. ~(lines[e] > faults)
        BY <2>1, <2>3, <2>4, <3>2 DEF OnceInv, Accounted
      <4> QED
        BY <2>2, <3>2, <4>1 DEF AuditInv, OnceInv
    <3> QED
      BY <3>1, <3>2
  <2>6. ASSUME NEW e \in table
        PROVE  Accounted(e)'
    <3>1. CASE e \in batch[p]
      BY <2>1, <3>1 DEF Accounted, AuditInv
    <3>2. CASE e \notin batch[p]
      <4>1. lines'[e] = lines[e]
        BY <2>2, <3>2 DEF AuditInv
      <4>2. \A q \in Processes : pc[q] = "delete" => pc'[q] = "delete"
        BY <2>1 DEF AuditInv
      <4> QED
        BY <2>1, <4>1, <4>2 DEF Accounted, OnceInv
    <3> QED
      BY <3>1, <3>2
  <2> QED
    BY <2>1, <2>5, <2>6 DEF OnceInv
<1>6. ASSUME NEW p \in Processes, AppendFails(p)
      PROVE  OnceInv'
  <2>1. /\ lines' \in [Entries -> Nat] /\ \A e \in Entries : lines'[e] <= lines[e] + 1
        /\ \A e \in Entries \ batch[p] : lines'[e] = lines[e]
    BY <1>6, PartAddsOne DEF AppendFails, AuditInv
  <2>2. \A e \in Entries : lines'[e] = lines[e] \/ (pc[p] = "append" /\ e \in batch[p])
    BY <1>6, <2>1 DEF AppendFails, Working
  <2> QED
    BY <1>6, <2>1, <2>2, FaultPays DEF AppendFails, BatchAborted, Goto, PCs
<1>7. ASSUME NEW p \in Processes, DeleteBatch(p)
      PROVE  OnceInv'
  <2>1. /\ table' = table \ batch[p] /\ batch' = [batch EXCEPT ![p] = {}]
        /\ pc' = [pc EXCEPT ![p] = "buckets"] /\ pc[p] = "delete" /\ archiving
        /\ faults' = faults /\ lines' = lines /\ archiving' = archiving
    BY <1>7 DEF DeleteBatch, Working, Goto, files, OnceInv
  <2>2. \A q \in Processes : batch'[q] = IF q = p THEN {} ELSE batch[q]
    BY <2>1 DEF AuditInv
  <2>3. \A q, r \in Processes : q # r => batch[q] \cap batch[r] = {}
    BY <2>1 DEF OnceInv
  <2>4. \A q \in Processes : batch'[q] \subseteq table'
    BY <2>1, <2>2, <2>3 DEF OnceInv
  <2>5. \A q, r \in Processes : q # r => batch'[q] \cap batch'[r] = {}
    BY <2>2, <2>3
  <2>6. ASSUME NEW e \in table'
        PROVE  Accounted(e)'
    <3>1. e \in table /\ e \notin batch[p]
      BY <2>1
    <3>2. \A q \in Processes : pc[q] = "delete" /\ e \in batch[q] => pc'[q] = "delete" /\ e \in batch'[q]
      BY <2>1, <2>2, <3>1 DEF AuditInv
    <3> QED
      BY <2>1, <3>1, <3>2 DEF Accounted, OnceInv
  <2> QED
    BY <2>1, <2>4, <2>5, <2>6 DEF OnceInv
<1>8. ASSUME NEW p \in Processes, PlainDelete(p)
      PROVE  OnceInv'
  <2>1. /\ ~archiving /\ table' = table /\ faults' = faults /\ lines' = lines
        /\ archiving' = archiving /\ pc' = pc
    BY <1>8 DEF PlainDelete, files
  <2>2. \A e \in table : ~(lines[e] > faults)
    BY <2>1 DEF OnceInv, Accounted
  <2> QED
    BY <2>1, <2>2 DEF OnceInv, Accounted
<1>9. ASSUME NEW p \in Processes, StatementFails(p)
      PROVE  OnceInv'
  <2>1. lines' = lines /\ lines \in [Entries -> Nat]
    BY <1>9 DEF StatementFails, files, AuditInv
  <2>2. \A e \in Entries : lines'[e] <= lines[e] + 1
    BY <2>1
  <2> QED
    BY <1>9, <2>1, <2>2, FaultPays DEF StatementFails, Goto, PCs
<1>10. ASSUME NEW p \in Processes, EndPass(p)
       PROVE  OnceInv'
  BY <1>10, OnceAside DEF EndPass, Goto, files, PCs
<1>11. ASSUME NEW p \in Processes, Restart(p)
       PROVE  OnceInv'
  <2>1. /\ lines' \in [Entries -> Nat] /\ \A e \in Entries : lines'[e] <= lines[e] + 1
        /\ \A e \in Entries : lines'[e] = lines[e] \/ (pc[p] = "append" /\ e \in batch[p])
    <3>1. CASE pc[p] = "append"
      BY <1>11, <3>1, PartAddsOne DEF Restart, AuditInv
    <3>2. CASE pc[p] # "append"
      <4>1. lines' = lines
        BY <1>11, <3>2 DEF Restart, files
      <4> QED
        BY <4>1 DEF AuditInv
    <3> QED
      BY <3>1, <3>2
  <2> QED
    BY <1>11, <2>1, FaultPays DEF Restart, Goto, PCs
<1>12. ASSUME NEW f \in Entries, Grow(f)
       PROVE  OnceInv'
  BY <1>12 DEF Grow, files, pass, OnceInv, Accounted
<1>13. ASSUME UNCHANGED vars
       PROVE  OnceInv'
  BY <1>13 DEF vars, files, pass, OnceInv, Accounted
<1> QED
  BY <1>1, <1>2, <1>3, <1>4, <1>5, <1>6, <1>7, <1>8, <1>9, <1>10, <1>11, <1>12, <1>13
  DEF Next, PruneOnce

\* Rows in a batch are locked FOR UPDATE until they are deleted, and an overlapping
\* pass skips them: an entry is appended once, and once more only for a pass that
\* failed after appending it.
THEOREM AppendedOncePerFailure == Spec => []ArchivedOncePerFailure
<1>1. OnceInv => ArchivedOncePerFailure
  BY DEF OnceInv, ArchivedOncePerFailure
<1> QED
  BY <1>1, AuditInitially, AuditStep, OnceInitially, OnceStep, PTL DEF Spec

-----------------------------------------------------------------------------
(* Types.  A step of a pass takes the first of its buckets off its list or  *)
(* leaves the list as it is, and its bucket in hand is one of the buckets.  *)

LEMMA TypedInitially ==
    ASSUME Init
    PROVE  RetentionTypeOK
<1>1. age \in [Entries -> 0..Oldest]
  BY RetentionAssumption DEF Init
<1>2. LockTypeOK
  BY LockAssumption DEF Init, LockInit, LockTypeOK
<1>3. /\ table \in SUBSET Entries /\ lines \in [Entries -> Nat] /\ readable \in SUBSET Entries
      /\ torn \in SUBSET Buckets /\ archiving \in BOOLEAN /\ faults \in Nat
  BY DEF Init
<1>4. /\ pc \in [Processes -> PCs] /\ todo \in [Processes -> Seq(Buckets)]
      /\ batch \in [Processes -> SUBSET Entries]
  BY DEF Init, PCs
<1> QED
  BY <1>1, <1>2, <1>3, <1>4 DEF RetentionTypeOK

\* Taking the lock, giving it back and returning a connection keep its types.
LEMMA LockMoves ==
    ASSUME LockTypeOK, NEW p \in Processes
    PROVE  /\ \A c \in Conns : LockOn(c) => depth' \in [Conns -> Nat]
           /\ \A c \in Conns : UnlockOn(c) => depth' \in [Conns -> Nat]
           /\ \A c \in Conns \cup {NoConn} : Returned(p, c) => LockTypeOK'
           /\ Disconnected(p) => LockTypeOK'
<1>1. ASSUME NEW c \in Conns, LockOn(c)
      PROVE  depth' \in [Conns -> Nat]
  BY <1>1 DEF LockOn, LockTypeOK
<1>2. ASSUME NEW c \in Conns, UnlockOn(c)
      PROVE  depth' \in [Conns -> Nat]
  BY <1>2 DEF UnlockOn, LockTypeOK
<1>3. ASSUME NEW c \in Conns \cup {NoConn}, Returned(p, c)
      PROVE  LockTypeOK'
  BY <1>3 DEF Returned, LockTypeOK
<1>4. ASSUME Disconnected(p)
      PROVE  LockTypeOK'
  BY <1>4 DEF Disconnected, LockTypeOK
<1> QED
  BY <1>1, <1>2, <1>3, <1>4

\* The rest of the list of buckets, and the bucket at its head.
LEMMA BucketList ==
    ASSUME RetentionTypeOK, NEW p \in Processes, todo[p] # <<>>
    PROVE  InHand(p) \in Buckets /\ Tail(todo[p]) \in Seq(Buckets)
<1>1. todo[p] \in Seq(Buckets)
  BY DEF RetentionTypeOK
<1> QED
  BY <1>1 DEF InHand

LEMMA FilesTyped ==
    ASSUME RetentionTypeOK, NEW p \in Processes, NEW b \in Buckets,
           \/ Appended(b, batch[p]) /\ torn' = torn \ {b}
           \/ PartOf(p, b)
    PROVE  lines' \in [Entries -> Nat] /\ readable' \in SUBSET Entries /\ torn' \in SUBSET Buckets
<1>1. ASSUME NEW S \in SUBSET Entries, Appended(b, S)
      PROVE  lines' \in [Entries -> Nat] /\ readable' \in SUBSET Entries
  BY <1>1 DEF Appended, RetentionTypeOK
<1>2. batch[p] \in SUBSET Entries
  BY DEF RetentionTypeOK
<1>3. CASE Appended(b, batch[p]) /\ torn' = torn \ {b}
  BY <1>1, <1>2, <1>3 DEF RetentionTypeOK
<1>4. CASE UNCHANGED files
  BY <1>4 DEF files, RetentionTypeOK
<1>5. CASE \E S \in SUBSET batch[p] :
             /\ IF S = {} THEN UNCHANGED <<lines, readable>> ELSE Appended(b, S)
             /\ torn' \in {torn \ {b}} \cup {torn \cup {b} : x \in batch[p] \ S}
  <2>1. torn' \in SUBSET Buckets
    BY <1>5 DEF RetentionTypeOK
  <2>2. UNCHANGED <<lines, readable>> \/ \E S \in SUBSET Entries : Appended(b, S)
    BY <1>2, <1>5
  <2> QED
    BY <1>1, <2>1, <2>2 DEF RetentionTypeOK
<1> QED
  BY <1>3, <1>4, <1>5 DEF PartOf

\* A pass that appends has a bucket in hand.
BucketInHand == \A p \in Processes : pc[p] = "append" => todo[p] # <<>>

LEMMA InHandStep ==
    ASSUME RetentionTypeOK, BucketInHand, [Next]_vars
    PROVE  BucketInHand'
<1> USE DEF RetentionTypeOK, BucketInHand
<1>1. ASSUME NEW p \in Processes, NEW c \in Conns,
             StartPass(p, c) \/ SelectBatch(p, c) \/ BucketsDone(p, c) \/ Unlock(p, c)
      PROVE  BucketInHand'
  BY <1>1 DEF StartPass, SelectBatch, BucketsDone, Unlock, Working, Goto, pass
<1>2. ASSUME NEW p \in Processes, NEW c \in Conns, BucketEmpty(p, c)
      PROVE  BucketInHand'
  BY <1>2 DEF BucketEmpty, NextBucket, Working
<1>3. ASSUME NEW p \in Processes,
             AppendLines(p) \/ AppendFails(p) \/ DeleteBatch(p) \/ StatementFails(p)
      PROVE  BucketInHand'
  BY <1>3 DEF AppendLines, AppendFails, BatchAborted, DeleteBatch, StatementFails, NextBucket,
              Goto, pass
<1>4. ASSUME NEW p \in Processes, PlainDelete(p) \/ EndPass(p) \/ Restart(p)
      PROVE  BucketInHand'
  BY <1>4 DEF PlainDelete, EndPass, Restart, NextBucket, Working, Goto
<1>5. ASSUME (\E e \in Entries : Grow(e)) \/ UNCHANGED vars
      PROVE  BucketInHand'
  BY <1>5 DEF Grow, vars, pass
<1> QED
  BY <1>1, <1>2, <1>3, <1>4, <1>5 DEF Next, PruneOnce

LEMMA TypedStep ==
    ASSUME RetentionTypeOK, BucketInHand, [Next]_vars
    PROVE  RetentionTypeOK'
<1>1. LockTypeOK /\ \A p \in Processes : conn[p] \in Conns \cup {NoConn}
  BY DEF RetentionTypeOK, LockTypeOK
<1> DEFINE Rows == /\ table' \in SUBSET Entries /\ age' \in [Entries -> 0..Oldest]
                   /\ lines' \in [Entries -> Nat] /\ readable' \in SUBSET Entries
                   /\ torn' \in SUBSET Buckets /\ archiving' \in BOOLEAN /\ faults' \in Nat
           Pass == /\ pc' \in [Processes -> PCs] /\ todo' \in [Processes -> Seq(Buckets)]
                   /\ batch' \in [Processes -> SUBSET Entries]
<1>2. ASSUME NEW p \in Processes, NEW c \in Conns, StartPass(p, c)
      PROVE  LockTypeOK' /\ Rows /\ Pass
  <2>1. LockTypeOK'
    <3>1. depth' \in [Conns -> Nat]
      BY <1>1, <1>2, LockMoves DEF StartPass, LockTypeOK
    <3> QED
      BY <1>1, <1>2, <3>1 DEF StartPass, LockTypeOK
  <2>2. PassOrder \in Seq(Buckets)
    BY RetentionAssumption
  <2>3. pc' \in [Processes -> PCs] /\ todo' \in [Processes -> Seq(Buckets)]
    BY <1>2, <2>2 DEF StartPass, Goto, PCs, RetentionTypeOK
  <2> QED
    BY <1>2, <2>1, <2>3 DEF StartPass, files, RetentionTypeOK
<1>3. ASSUME NEW p \in Processes, NEW c \in Conns, SelectBatch(p, c)
      PROVE  LockTypeOK' /\ Rows /\ Pass
  <2>1. PICK S \in Batches(p, InHand(p)) : batch' = [batch EXCEPT ![p] = S]
    BY <1>3 DEF SelectBatch
  <2>2. S \in SUBSET Entries
    BY <2>1 DEF Batches, Due, RetentionTypeOK
  <2>3. batch' \in [Processes -> SUBSET Entries]
    BY <2>1, <2>2 DEF RetentionTypeOK
  <2>4. LockTypeOK'
    BY <1>1, <1>3 DEF SelectBatch, Resume, LockTypeOK
  <2> QED
    BY <1>3, <2>3, <2>4 DEF SelectBatch, Goto, files, PCs, RetentionTypeOK
<1>4. ASSUME NEW p \in Processes, NEW c \in Conns, BucketEmpty(p, c) \/ BucketsDone(p, c)
      PROVE  LockTypeOK' /\ Rows /\ Pass
  <2>1. LockTypeOK'
    BY <1>1, <1>4, LockMoves DEF BucketEmpty, BucketsDone
  <2>2. todo' \in [Processes -> Seq(Buckets)]
    <3>1. CASE BucketEmpty(p, c)
      <4>1. Tail(todo[p]) \in Seq(Buckets)
        BY <3>1, BucketList DEF BucketEmpty, Working
      <4> QED
        BY <3>1, <4>1 DEF BucketEmpty, NextBucket, RetentionTypeOK
    <3>2. CASE BucketsDone(p, c)
      BY <3>2 DEF BucketsDone, RetentionTypeOK
    <3> QED
      BY <1>4, <3>1, <3>2
  <2>3. Rows /\ pc' \in [Processes -> PCs] /\ batch' \in [Processes -> SUBSET Entries]
    BY <1>4 DEF BucketEmpty, BucketsDone, Goto, files, PCs, RetentionTypeOK
  <2> QED
    BY <2>1, <2>2, <2>3
<1>5. ASSUME NEW p \in Processes, AppendLines(p)
      PROVE  LockTypeOK' /\ Rows /\ Pass
  <2>1. InHand(p) \in Buckets
    BY <1>5, BucketList DEF AppendLines, Working
  <2>2. lines' \in [Entries -> Nat] /\ readable' \in SUBSET Entries /\ torn' \in SUBSET Buckets
    BY <1>5, <2>1, FilesTyped DEF AppendLines
  <2> QED
    BY <1>5, <2>2 DEF AppendLines, Goto, pass, lockVars, LockTypeOK, PCs, RetentionTypeOK
<1>6. ASSUME NEW p \in Processes, AppendFails(p)
      PROVE  LockTypeOK' /\ Rows /\ Pass
  <2>1. InHand(p) \in Buckets
    BY <1>6, BucketList DEF AppendFails, Working
  <2>2. lines' \in [Entries -> Nat] /\ readable' \in SUBSET Entries /\ torn' \in SUBSET Buckets
    BY <1>6, <2>1, FilesTyped DEF AppendFails
  <2>3. LockTypeOK'
    BY <1>1, <1>6, LockMoves DEF AppendFails, BatchAborted
  <2> QED
    BY <1>6, <2>2, <2>3 DEF AppendFails, BatchAborted, Goto, PCs, RetentionTypeOK
<1>7. ASSUME NEW p \in Processes, DeleteBatch(p)
      PROVE  LockTypeOK' /\ Rows /\ Pass
  <2>1. LockTypeOK'
    BY <1>1, <1>7, LockMoves DEF DeleteBatch
  <2>2. Tail(todo[p]) \in Seq(Buckets)
    BY <1>7, BucketList DEF DeleteBatch, Working
  <2>3. todo' \in [Processes -> Seq(Buckets)]
    BY <1>7, <2>2 DEF DeleteBatch, NextBucket, RetentionTypeOK
  <2> QED
    BY <1>7, <2>1, <2>3 DEF DeleteBatch, Goto, files, PCs, RetentionTypeOK
<1>8. ASSUME NEW p \in Processes, PlainDelete(p)
      PROVE  LockTypeOK' /\ Rows /\ Pass
  <2>1. Tail(todo[p]) \in Seq(Buckets)
    BY <1>8, BucketList DEF PlainDelete, Working
  <2>2. todo' \in [Processes -> Seq(Buckets)]
    BY <1>8, <2>1 DEF PlainDelete, NextBucket, RetentionTypeOK
  <2>3. Due(InHand(p)) \in SUBSET Entries
    BY DEF Due, RetentionTypeOK
  <2>4. batch' \in [Processes -> SUBSET Entries]
    BY <1>8, <2>3 DEF PlainDelete, RetentionTypeOK
  <2> QED
    BY <1>8, <2>2, <2>4 DEF PlainDelete, files, lockVars, LockTypeOK, RetentionTypeOK
<1>9. ASSUME NEW p \in Processes, StatementFails(p)
      PROVE  LockTypeOK' /\ Rows /\ Pass
  BY <1>9 DEF StatementFails, Goto, files, lockVars, LockTypeOK, PCs, RetentionTypeOK
<1>10. ASSUME NEW p \in Processes, NEW c \in Conns, Unlock(p, c)
       PROVE  LockTypeOK' /\ Rows /\ Pass
  <2>1. depth' \in [Conns -> Nat]
    BY <1>1, <1>10, LockMoves DEF Unlock
  <2>2. LockTypeOK'
    BY <1>1, <1>10, <2>1 DEF Unlock, Resume, LockTypeOK
  <2> QED
    BY <1>10, <2>2 DEF Unlock, Goto, files, pass, PCs, RetentionTypeOK
<1>11. ASSUME NEW p \in Processes, EndPass(p)
       PROVE  LockTypeOK' /\ Rows /\ Pass
  <2>1. LockTypeOK'
    BY <1>1, <1>11, LockMoves DEF EndPass
  <2> QED
    BY <1>11, <2>1 DEF EndPass, Goto, files, PCs, RetentionTypeOK
<1>12. ASSUME NEW p \in Processes, Restart(p)
       PROVE  LockTypeOK' /\ Rows /\ Pass
  <2>1. LockTypeOK'
    BY <1>1, <1>12, LockMoves DEF Restart
  <2>2. lines' \in [Entries -> Nat] /\ readable' \in SUBSET Entries /\ torn' \in SUBSET Buckets
    <3>1. CASE UNCHANGED files
      BY <3>1 DEF files, RetentionTypeOK
    <3>2. CASE pc[p] = "append"
      <4>1. todo[p] # <<>>
        BY <3>2 DEF BucketInHand
      <4>2. InHand(p) \in Buckets
        BY <4>1, BucketList
      <4> QED
        BY <1>12, <3>2, <4>2, FilesTyped DEF Restart
    <3> QED
      BY <1>12, <3>1, <3>2 DEF Restart
  <2> QED
    BY <1>12, <2>1, <2>2 DEF Restart, Goto, PCs, RetentionTypeOK
<1>13. ASSUME NEW e \in Entries, Grow(e)
       PROVE  LockTypeOK' /\ Rows /\ Pass
  <2>1. age' \in [Entries -> 0..Oldest]
    BY <1>13, RetentionAssumption DEF Grow, RetentionTypeOK
  <2> QED
    BY <1>13, <2>1 DEF Grow, files, pass, lockVars, LockTypeOK, RetentionTypeOK
<1>14. ASSUME UNCHANGED vars
       PROVE  LockTypeOK' /\ Rows /\ Pass
  BY <1>14 DEF vars, files, pass, lockVars, LockTypeOK, RetentionTypeOK
<1>15. LockTypeOK' /\ Rows /\ Pass
  BY <1>2, <1>3, <1>4, <1>5, <1>6, <1>7, <1>8, <1>9, <1>10, <1>11, <1>12, <1>13, <1>14
  DEF Next, PruneOnce
<1> QED
  BY <1>15 DEF RetentionTypeOK

\* Every state of the prune loop is of its types, whatever fails: a pass's list is
\* of buckets, its batch of audit rows, and only a bucket's file is torn.
THEOREM RetentionTypes == Spec => []RetentionTypeOK
<1>1. Init => BucketInHand
  BY DEF Init, BucketInHand
<1> QED
  BY <1>1, TypedInitially, TypedStep, InHandStep, PTL DEF Spec
================================================================================
