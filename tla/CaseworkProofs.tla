---------------------------- MODULE CaseworkProofs ----------------------------
(***************************************************************************)
(* Theorems about the file of a case, vulnerability scans, the work at a   *)
(* site, and the estate, for any requests, scans, assets and rows.         *)
(*                                                                         *)
(* CaseFile: the audit lock makes whoever has recorded the last of the     *)
(* trail, and the key of the link makes its writer the only one; requests  *)
(* that come one at a time write what they read a moment ago.              *)
(* Versions: at the first place where two versions differ it is decided    *)
(* which one is before the other, so any third is after the one or before  *)
(* the other.                                                              *)
(* VulnScan: the audit lock is held from the question which findings have  *)
(* no alert yet until the alerts are committed.                            *)
(* SiteOperations: what a request that is alone has read is still so.      *)
(* Estate: a creation keeps what it refers to by the locks it shares, and  *)
(* a deletion locks whatever hangs on the rows it deletes.  As these locks *)
(* exclude each other, no row is left hanging in the air.                  *)
(***************************************************************************)
EXTENDS MCCasework, FiniteSetTheorems, WellFoundedInduction, TLAPS

-------------------------------------------------------------------------------
(* The file of a case.                                                     *)

\* The requests that have read, and those that have recorded or are over.
Started == {r \in Requests : req[r] # Idle}
Recorded == {r \in Requests : req[r] = Ended \/ (InFlight(r) /\ req[r].seq # 0)}

\* The requests that have inserted a link and not committed it.
Linkers == {r \in Requests : InFlight(r) /\ req[r].pc # "flush" /\ Links(req[r])}

\* What the parts of a request say about each other.
Consistent(q) ==
    /\ q.seq # 0 => q.pc = "commit" /\ q.op \in Audited \cup {"custody"}
    /\ q.op \in {"transition", "assign", "custody"} /\ q.pc = "commit" => q.seq # 0
    /\ q.op = "acknowledge" /\ (q.pc = "audit" \/ q.seq # 0) => ~ q.seen.acknowledged

\* Whoever has recorded has the last sequence number, later than any entry.
Latest == 
    /\ \A r, s \in Recorders : r = s
    /\ \A r \in Recorders : req[r].seq = seq /\ \A c \in trail : c.seq < seq
    /\ \A c \in trail : c.seq <= seq

\* A link is being made by one request at most, and not made already.
Linking ==
    /\ \A r, s \in Linkers : r = s
    /\ Linkers # {} => ~ incident.linked
    /\ \A m, n \in notes : m.to = "alert" /\ n.to = "alert" => m = n
    /\ \A n \in notes : n.to = "alert" => incident.linked

Changes == {n \in notes : n.to \in IncidentStatus}
Moving == {e \in entries : e.action \in Terminal}

\* What holds as long as requests come one at a time.
OneAtATime ==
    /\ \A r, s \in Requests : InFlight(r) /\ InFlight(s) => r = s
    /\ \A r \in Requests : InFlight(r) =>
          /\ req[r].seen = incident /\ req[r].status = evidence
          /\ \A n \in notes : n.at < req[r].at
          /\ \A e \in entries : e.at < req[r].at
    /\ Changes # {} => \E n \in Changes : n.to = incident.status /\ \A m \in Changes \ {n} : m.at < n.at
    /\ \A m, n \in notes : m.to = "system" /\ n.to = "system" => m = n
    /\ \A n \in notes : n.to = "system" => incident.acknowledged
    /\ Moving = {} => evidence = "collected"
    /\ Moving # {} => \E e \in Moving : e.action = evidence /\ \A d \in Moving \ {e} : d.at < e.at

CaseInv ==
    /\ TypeOK
    /\ clock = Cardinality(Started) /\ seq <= Cardinality(Recorded)
    /\ \A n \in notes : n.at <= clock
    /\ \A e \in entries : e.at <= clock
    /\ \A r \in Requests : InFlight(r) => Consistent(req[r]) /\ req[r].at <= clock
    /\ Latest /\ TrailTellsStatus /\ Linking
    /\ ~ overlapped => OneAtATime

\* Sets of requests are finite, and not larger than all of them.
LEMMA RequestSets ==
    \A S \in SUBSET Requests :
        /\ IsFiniteSet(S) /\ Cardinality(S) \in Nat
        /\ Cardinality(S) <= Cardinality(Requests) /\ Cardinality(Requests) \in Nat
BY RequestsFinite, FS_Subset, FS_CardinalityType

\* It holds at the start.
LEMMA CaseInitInv == Init => CaseInv
<1> SUFFICES ASSUME Init PROVE CaseInv
  OBVIOUS
<1>1. /\ notes = {} /\ entries = {} /\ trail = {} /\ clock = 0 /\ seq = 0
      /\ \A r \in Requests : req[r] = Idle /\ ~ InFlight(r)
      /\ evidence = "collected" /\ incident.status = "open"
  BY DEF Init, InFlight
<1>2. TypeOK
  <2>1. 0 \in Bounded
    BY RequestsFinite, FS_CardinalityType DEF Bounded
  <2>2. incident \in Incident
    BY DEF Init, Incident, IncidentStatus
  <2>3. evidence \in EvidenceStatus /\ req \in [Requests -> Request \cup {Idle, Ended}]
        /\ overlapped \in BOOLEAN
    BY DEF Init, EvidenceStatus
  <2> QED BY <1>1, <2>1, <2>2, <2>3 DEF TypeOK
<1>3. Started = {} /\ Linkers = {}
  BY <1>1 DEF Started, Linkers
<1>4. clock = Cardinality(Started)
  BY <1>1, <1>3, FS_EmptySet
<1>5. seq <= Cardinality(Recorded)
  <2>1. Recorded \in SUBSET Requests
    BY DEF Recorded
  <2> QED BY <2>1, <1>1, RequestSets
<1>6. Latest
  <2>1. Recorders = {}
    BY <1>1 DEF Recorders, At, Idle
  <2> QED BY <1>1, <2>1 DEF Latest
<1>7. TrailTellsStatus
  BY <1>1 DEF TrailTellsStatus
<1>8. Linking
  BY <1>1, <1>3 DEF Linking
<1>9. OneAtATime
  BY <1>1 DEF OneAtATime, Changes, Moving
<1> QED BY <1>1, <1>2, <1>4, <1>5, <1>6, <1>7, <1>8, <1>9 DEF CaseInv

\* A request that is at one of its steps is in flight.
LEMMA CaseBusy ==
    ASSUME CaseInv, NEW r \in Requests, req[r].pc \in {"flush", "audit", "commit"}
    PROVE  InFlight(r) /\ req[r] \in Request /\ Consistent(req[r])
BY DEF CaseInv, TypeOK, InFlight, Idle, Ended

\* The times are numbers.
LEMMA Times ==
    ASSUME CaseInv
    PROVE  /\ clock \in Nat /\ seq \in Nat /\ Bounded \subseteq Nat
           /\ \A n \in notes : n.at \in Nat
           /\ \A e \in entries : e.at \in Nat
           /\ \A c \in trail : c.seq \in Nat
<1>1. Cardinality(Requests) \in Nat
  BY RequestsFinite, FS_CardinalityType
<1>2. Bounded \subseteq Nat
  BY <1>1 DEF Bounded
<1> QED BY <1>2 DEF CaseInv, TypeOK, Note, Entry, Change

\* A request reads its row.
LEMMA LoadStep ==
    ASSUME CaseInv, NEW r \in Requests, NEW op \in Ops, NEW pc \in {"flush", "audit", "commit"},
           NEW to \in IncidentStatus, NEW action \in CustodyAction, Load(r, op, pc, to, action),
           op = "acknowledge" => pc # "flush" /\ (pc = "audit" => ~ incident.acknowledged),
           op \in {"transition", "assign"} => pc = "audit",
           op = "custody" => pc = "flush",
           op = "link" /\ ~ incident.linked => pc = "flush"
    PROVE  CaseInv'
<1>1. PICK q : q = [op |-> op, pc |-> pc, at |-> clock + 1, seen |-> incident,
                    status |-> evidence, to |-> to, action |-> action, seq |-> 0]
  OBVIOUS
<1>2. /\ req[r] = Idle /\ clock' = clock + 1 /\ req' = [req EXCEPT ![r] = q]
      /\ overlapped' = (overlapped \/ \E s \in Requests : InFlight(s))
      /\ UNCHANGED <<incident, evidence, notes, entries, trail, seq>>
  BY <1>1 DEF Load
<1>3. req'[r] = q /\ (\A s \in Requests : s # r => req'[s] = req[s])
  BY <1>2 DEF CaseInv, TypeOK
<1>4. Idle # Ended /\ q # Idle /\ q # Ended
  BY <1>1 DEF Idle, Ended
<1>5. ~ InFlight(r) /\ InFlight(r)' /\ \A s \in Requests : s # r => (InFlight(s)' <=> InFlight(s))
  BY <1>2, <1>3, <1>4 DEF InFlight
<1>6. Started' = Started \cup {r} /\ r \notin Started /\ Recorded' = Recorded
  <2>1. Started' = Started \cup {r} /\ r \notin Started
    BY <1>2, <1>3, <1>4 DEF Started
  <2>2. r \notin Recorded /\ r \notin Recorded'
    BY <1>1, <1>2, <1>3, <1>4, <1>5 DEF Recorded
  <2>3. \A s \in Requests : s # r => (s \in Recorded' <=> s \in Recorded)
    BY <1>3, <1>5 DEF Recorded
  <2>4. Recorded \subseteq Requests /\ Recorded' \subseteq Requests
    BY DEF Recorded
  <2> QED BY <2>1, <2>2, <2>3, <2>4
<1>7. clock' = Cardinality(Started') /\ clock' \in Bounded
  <2>1. Started \in SUBSET Requests /\ Started' \in SUBSET Requests
    BY DEF Started
  <2>2. Cardinality(Started') = Cardinality(Started) + 1
    BY <1>6, <2>1, RequestSets, FS_AddElement
  <2> QED BY <1>2, <2>1, <2>2, RequestSets DEF CaseInv, Bounded
<1>8. q \in Request
  <2>1. 0 \in Bounded
    BY RequestsFinite, FS_CardinalityType DEF Bounded
  <2> QED BY <1>1, <1>2, <1>7, <2>1 DEF Request, CaseInv, TypeOK
<1>9. TypeOK'
  BY <1>2, <1>7, <1>8 DEF CaseInv, TypeOK
<1>10. /\ \A n \in notes' : n.at <= clock'
       /\ \A e \in entries' : e.at <= clock'
  BY <1>2, Times DEF CaseInv
<1>11. \A s \in Requests : InFlight(s)' => Consistent(req'[s]) /\ req'[s].at <= clock'
  <2>1. Consistent(q) /\ q.at <= clock'
    BY <1>1, <1>2, Times DEF Consistent
  <2>2. ASSUME NEW s \in Requests, s # r, InFlight(s)' PROVE Consistent(req'[s]) /\ req'[s].at <= clock'
    <3>1. InFlight(s) /\ req'[s] = req[s] /\ req[s] \in Request
      BY <2>2, <1>3, <1>5 DEF CaseInv, TypeOK, InFlight
    <3>2. req[s].at \in Nat
      BY <3>1, Times DEF Request
    <3> QED BY <3>1, <3>2, <1>2, Times DEF CaseInv
  <2> QED BY <1>3, <2>1, <2>2
<1>12. Latest' /\ TrailTellsStatus'
  <2>1. Recorders' = Recorders
    <3>1. r \notin Recorders /\ r \notin Recorders'
      BY <1>1, <1>2, <1>3 DEF Recorders, At, Idle
    <3>2. \A s \in Requests : s # r => (s \in Recorders' <=> s \in Recorders)
      BY <1>3 DEF Recorders, At
    <3>3. Recorders \subseteq Requests /\ Recorders' \subseteq Requests
      BY DEF Recorders
    <3> QED BY <3>1, <3>2, <3>3
  <2>2. \A s \in Recorders : req'[s] = req[s]
    BY <1>2, <1>3 DEF Recorders, At, Idle
  <2> QED BY <2>1, <2>2, <1>2 DEF CaseInv, Latest, TrailTellsStatus
<1>13. Linking'
  <2>1. ~ (q.pc # "flush" /\ Links(q))
    BY <1>1 DEF Links
  <2>2. Linkers' \subseteq Linkers
    BY <2>1, <1>3, <1>5 DEF Linkers
  <2> QED BY <2>2, <1>2 DEF CaseInv, Linking
<1>14. ~ overlapped' => OneAtATime'
  <2> SUFFICES ASSUME ~ overlapped' PROVE OneAtATime'
    OBVIOUS
  <2>1. OneAtATime /\ \A s \in Requests : ~ InFlight(s)
    BY <1>2 DEF CaseInv
  <2>2. \A s \in Requests : InFlight(s)' => s = r
    BY <2>1, <1>5
  <2>3. /\ q.seen = incident' /\ q.status = evidence'
        /\ \A n \in notes' : n.at < q.at
        /\ \A e \in entries' : e.at < q.at
    BY <1>1, <1>2, Times DEF CaseInv
  <2> QED BY <2>1, <2>2, <2>3, <1>2, <1>3 DEF OneAtATime, Changes, Moving
<1>15. seq' <= Cardinality(Recorded')
  BY <1>2, <1>6 DEF CaseInv
<1> QED BY <1>7, <1>9, <1>10, <1>11, <1>12, <1>13, <1>14, <1>15 DEF CaseInv

\* The requests that read, each at the step its operation begins with.
LEMMA LoadSteps ==
    ASSUME CaseInv, NEW r \in Requests,
           \/ LoadTransition(r) \/ LoadAcknowledge(r) \/ LoadAssign(r) \/ LoadComment(r)
           \/ LoadLink(r) \/ LoadCustody(r)
    PROVE  CaseInv'
<1>1. "open" \in IncidentStatus /\ "accessed" \in CustodyAction
      /\ {"transition", "acknowledge", "assign", "comment", "link", "custody"} \subseteq Ops
  BY DEF IncidentStatus, CustodyAction, Terminal, Ops, Audited
<1>2. CASE LoadTransition(r)
  BY <1>1, <1>2, LoadStep DEF LoadTransition
<1>3. CASE LoadAcknowledge(r)
  <2>1. CASE incident.acknowledged
    BY <1>1, <1>3, <2>1, LoadStep DEF LoadAcknowledge
  <2>2. CASE ~ incident.acknowledged
    BY <1>1, <1>3, <2>2, LoadStep DEF LoadAcknowledge
  <2> QED BY <2>1, <2>2
<1>4. CASE LoadAssign(r)
  BY <1>1, <1>4, LoadStep DEF LoadAssign
<1>5. CASE LoadComment(r)
  BY <1>1, <1>5, LoadStep DEF LoadComment
<1>6. CASE LoadLink(r)
  <2>1. CASE incident.linked
    BY <1>1, <1>6, <2>1, LoadStep DEF LoadLink
  <2>2. CASE ~ incident.linked
    BY <1>1, <1>6, <2>2, LoadStep DEF LoadLink
  <2> QED BY <2>1, <2>2
<1>7. CASE LoadCustody(r)
  BY <1>1, <1>7, LoadStep DEF LoadCustody
<1> QED BY <1>2, <1>3, <1>4, <1>5, <1>6, <1>7

\* A request that goes on or ends leaves the others where they are.
LEMMA CaseMoves ==
    ASSUME CaseInv, NEW r \in Requests, InFlight(r), NEW q \in Request \cup {Ended},
           req' = [req EXCEPT ![r] = q], clock' = clock
    PROVE  /\ req'[r] = q /\ \A s \in Requests : s # r => req'[s] = req[s]
           /\ req' \in [Requests -> Request \cup {Idle, Ended}]
           /\ InFlight(r)' <=> q # Ended
           /\ \A s \in Requests : s # r => (InFlight(s)' <=> InFlight(s))
           /\ clock' = Cardinality(Started')
           /\ Recorded' \ {r} = Recorded \ {r}
<1>1. req'[r] = q /\ \A s \in Requests : s # r => req'[s] = req[s]
  BY DEF CaseInv, TypeOK
<1>2. req' \in [Requests -> Request \cup {Idle, Ended}]
  BY DEF CaseInv, TypeOK
<1>3. q # Idle
  BY DEF Request, Idle, Ended
<1>4. (InFlight(r)' <=> q # Ended) /\ \A s \in Requests : s # r => (InFlight(s)' <=> InFlight(s))
  BY <1>1, <1>3 DEF InFlight
<1>5. Started' = Started
  BY <1>1, <1>3 DEF Started, InFlight
<1>6. Recorded' \ {r} = Recorded \ {r}
  BY <1>1, <1>4 DEF Recorded
<1> QED BY <1>1, <1>2, <1>4, <1>5, <1>6 DEF CaseInv

\* A request that goes on without a commit, and what it read stays what it was.
LEMMA CaseUnwritten ==
    ASSUME CaseInv, NEW r \in Requests, InFlight(r), NEW q \in Request \cup {Ended},
           req' = [req EXCEPT ![r] = q],
           UNCHANGED <<incident, evidence, notes, entries, trail, clock, overlapped>>,
           q # Ended => /\ q.at = req[r].at /\ q.seen = req[r].seen /\ q.status = req[r].status
                        /\ Consistent(q)
    PROVE  /\ req' \in [Requests -> Request \cup {Idle, Ended}]
           /\ clock' = Cardinality(Started')
           /\ \A n \in notes' : n.at <= clock'
           /\ \A e \in entries' : e.at <= clock'
           /\ \A s \in Requests : InFlight(s)' => Consistent(req'[s]) /\ req'[s].at <= clock'
           /\ TrailTellsStatus'
           /\ ~ overlapped' => OneAtATime'
<1>1. /\ req'[r] = q /\ \A s \in Requests : s # r => req'[s] = req[s]
      /\ req' \in [Requests -> Request \cup {Idle, Ended}]
      /\ InFlight(r)' <=> q # Ended
      /\ \A s \in Requests : s # r => (InFlight(s)' <=> InFlight(s))
      /\ clock' = Cardinality(Started')
  BY CaseMoves
<1>2. /\ \A n \in notes' : n.at <= clock'
      /\ \A e \in entries' : e.at <= clock'
      /\ TrailTellsStatus'
  BY DEF CaseInv, TrailTellsStatus
<1>3. \A s \in Requests : InFlight(s)' => Consistent(req'[s]) /\ req'[s].at <= clock'
  BY <1>1 DEF CaseInv
<1>4. ASSUME ~ overlapped' PROVE OneAtATime'
  <2>1. OneAtATime
    BY <1>4 DEF CaseInv
  <2>2. \A s \in Requests : InFlight(s)' =>
          InFlight(s) /\ req'[s].at = req[s].at /\ req'[s].seen = req[s].seen
          /\ req'[s].status = req[s].status
    BY <1>1
  <2> QED BY <2>1, <2>2 DEF OneAtATime, Changes, Moving
<1> QED BY <1>1, <1>2, <1>3, <1>4

\* A request of the row flushes: a link is being made by it alone.
LEMMA FlushStep == ASSUME CaseInv, NEW r \in Requests, Flush(r) PROVE CaseInv'
<1>1. PICK q : q = [req[r] EXCEPT !.pc = IF req[r].op = "link" THEN "commit" ELSE "audit"]
  OBVIOUS
<1>2. InFlight(r) /\ req[r] \in Request /\ Consistent(req[r])
  BY CaseBusy DEF Flush, At
<1>3. /\ q \in Request /\ q.at = req[r].at /\ q.seen = req[r].seen /\ q.status = req[r].status
      /\ q.op = req[r].op /\ q.seq = req[r].seq /\ q.pc \in {"audit", "commit"}
      /\ q.op = "link" => q.pc = "commit"
      /\ q.op = "custody" => q.pc = "audit"
      /\ (q.op = "link" \/ q.op = "custody") /\ req[r].pc = "flush"
  BY <1>1, <1>2 DEF Request, Flush, At
<1>4. /\ req' = [req EXCEPT ![r] = q]
      /\ UNCHANGED <<incident, evidence, notes, entries, trail, clock, seq, overlapped>>
      /\ Blockers(r) = {} /\ (Links(req[r]) => ~ incident.linked)
  BY <1>1 DEF Flush
<1>5. q.seq = 0 /\ Consistent(q) /\ (Links(q) <=> Links(req[r])) /\ q # Ended
  <2>1. q.seq = 0
    BY <1>2, <1>3 DEF Consistent
  <2>2. q # Ended
    BY <1>3 DEF Request, Ended
  <2>3. q.op # "acknowledge" /\ ~ (q.op \in {"transition", "assign", "custody"} /\ q.pc = "commit")
    BY <1>3
  <2> QED BY <1>3, <2>1, <2>2, <2>3 DEF Consistent, Links
<1> HIDE <1>1
<1>6. /\ req'[r] = q /\ \A s \in Requests : s # r => req'[s] = req[s]
      /\ InFlight(r)' /\ \A s \in Requests : s # r => (InFlight(s)' <=> InFlight(s))
      /\ Recorded' \ {r} = Recorded \ {r}
  BY <1>2, <1>3, <1>4, <1>5, CaseMoves
<1>7. seq' <= Cardinality(Recorded')
  <2>1. r \notin Recorded /\ r \notin Recorded'
    BY <1>2, <1>3, <1>5, <1>6 DEF Recorded, InFlight
  <2>2. Recorded' = Recorded
    BY <1>6, <2>1
  <2> QED BY <2>2, <1>4 DEF CaseInv
<1>8. Latest'
  <2>1. Recorders' \subseteq Recorders
    BY <1>3, <1>5, <1>6 DEF Recorders, At
  <2>2. \A s \in Recorders' : s # r /\ req'[s] = req[s]
    BY <1>3, <1>5, <1>6 DEF Recorders, At
  <2> QED BY <2>1, <2>2, <1>4 DEF CaseInv, Latest
<1>9. Linking'
  <2>1. CASE Links(q)
    <3>1. \A s \in Requests : s # r => s \notin Linkers
      BY <1>4, <1>5, <2>1 DEF Blockers, Linkers
    <3>2. \A s \in Linkers' : s = r
      BY <3>1, <1>6 DEF Linkers
    <3> QED BY <3>2, <2>1, <1>4, <1>5 DEF CaseInv, Linking
  <2>2. CASE ~ Links(q)
    <3>1. Linkers' \subseteq Linkers
      BY <2>2, <1>6 DEF Linkers
    <3> QED BY <3>1, <1>4 DEF CaseInv, Linking
  <2> QED BY <2>1, <2>2
<1> QED BY <1>2, <1>3, <1>4, <1>5, <1>7, <1>8, <1>9, CaseUnwritten DEF CaseInv, TypeOK

\* A request takes the audit lock and the next sequence number.
LEMMA RecordStep == ASSUME CaseInv, NEW r \in Requests, Record(r) PROVE CaseInv'
<1>1. PICK q : q = [req[r] EXCEPT !.pc = "commit", !.seq = seq + 1]
  OBVIOUS
<1>2. InFlight(r) /\ req[r] \in Request /\ Consistent(req[r])
  BY CaseBusy DEF Record, At
<1>3. /\ req' = [req EXCEPT ![r] = q] /\ Recorders = {} /\ seq' = seq + 1
      /\ UNCHANGED <<incident, evidence, notes, entries, trail, clock, overlapped>>
      /\ req[r].pc = "audit" /\ req[r].op \in Audited \cup {"custody"}
  BY <1>1 DEF Record, At
<1>4. seq + 1 # 0 /\ seq + 1 \in Nat
  BY Times
<1>5. req[r].seq = 0
  BY <1>2, <1>3 DEF Consistent
<1>6. seq + 1 <= Cardinality(Recorded \cup {r}) /\ seq + 1 \in Bounded
  <2>1. r \notin Recorded
    BY <1>2, <1>5 DEF Recorded, InFlight
  <2>2. Recorded \in SUBSET Requests /\ Recorded \cup {r} \in SUBSET Requests
    BY DEF Recorded
  <2>3. Cardinality(Recorded \cup {r}) = Cardinality(Recorded) + 1
    BY <2>1, <2>2, RequestSets, FS_AddElement
  <2>4. seq <= Cardinality(Recorded)
    BY DEF CaseInv
  <2>5. seq + 1 <= Cardinality(Recorded \cup {r})
    BY <2>2, <2>3, <2>4, Times, RequestSets
  <2> QED BY <2>2, <2>5, <1>4, RequestSets DEF Bounded
<1>7. /\ q \in Request /\ q.at = req[r].at /\ q.seen = req[r].seen /\ q.status = req[r].status
      /\ q.op = req[r].op /\ q.seq = seq + 1 /\ q.pc = "commit"
  BY <1>1, <1>2, <1>6 DEF Request
<1>8. Consistent(q) /\ ~ Links(q) /\ q # Ended
  <2>1. q # Ended
    BY <1>7 DEF Request, Ended
  <2>2. q.op # "link"
    BY <1>3, <1>7 DEF Audited
  <2>3. q.op = "acknowledge" => ~ q.seen.acknowledged
    BY <1>2, <1>3, <1>7 DEF Consistent
  <2> QED BY <1>3, <1>4, <1>7, <2>1, <2>2, <2>3 DEF Consistent, Links
<1> HIDE <1>1
<1>9. /\ req'[r] = q /\ \A s \in Requests : s # r => req'[s] = req[s]
      /\ InFlight(r)' /\ \A s \in Requests : s # r => (InFlight(s)' <=> InFlight(s))
      /\ Recorded' \ {r} = Recorded \ {r}
  BY <1>2, <1>3, <1>7, <1>8, CaseMoves
<1>10. seq' <= Cardinality(Recorded')
  <2>1. r \in Recorded'
    BY <1>4, <1>7, <1>9 DEF Recorded
  <2>2. Recorded' = Recorded \cup {r}
    BY <1>9, <2>1
  <2> QED BY <2>2, <1>3, <1>6
<1>11. Latest'
  <2>1. \A s \in Recorders' : s = r
    BY <1>3, <1>9 DEF Recorders, At
  <2>2. \A c \in trail : c.seq <= seq
    BY DEF CaseInv, Latest
  <2>3. \A c \in trail : c.seq < seq + 1 /\ c.seq <= seq + 1
    BY <2>2, Times
  <2> QED BY <2>1, <2>3, <1>3, <1>7, <1>9 DEF Latest
<1>12. Linking'
  <2>1. Linkers' \subseteq Linkers
    BY <1>8, <1>9 DEF Linkers
  <2> QED BY <2>1, <1>3 DEF CaseInv, Linking
<1>13. seq' \in Bounded
  BY <1>3, <1>6
<1> QED BY <1>2, <1>3, <1>7, <1>8, <1>10, <1>11, <1>12, <1>13, CaseUnwritten DEF CaseInv, TypeOK

\* A request ends without a commit.
LEMMA CaseAbortStep == ASSUME CaseInv, NEW r \in Requests, Abort(r) PROVE CaseInv'
<1>1. /\ req' = [req EXCEPT ![r] = Ended] /\ InFlight(r)
      /\ UNCHANGED <<incident, evidence, notes, entries, trail, clock, seq, overlapped>>
  BY DEF Abort
<1>2. /\ req'[r] = Ended /\ \A s \in Requests : s # r => req'[s] = req[s]
      /\ ~ InFlight(r)' /\ \A s \in Requests : s # r => (InFlight(s)' <=> InFlight(s))
      /\ Recorded' \ {r} = Recorded \ {r}
  BY <1>1, CaseMoves
<1>3. seq' <= Cardinality(Recorded')
  <2>1. Recorded \subseteq Recorded'
    BY <1>2 DEF Recorded
  <2>2. Recorded' \in SUBSET Requests /\ Recorded \in SUBSET Requests
    BY DEF Recorded
  <2>3. Cardinality(Recorded) <= Cardinality(Recorded')
    BY <2>1, <2>2, RequestSets, FS_Subset
  <2>4. seq <= Cardinality(Recorded)
    BY DEF CaseInv
  <2> QED BY <2>2, <2>3, <2>4, <1>1, Times, RequestSets
<1>4. Latest'
  <2>1. r \notin Recorders'
    BY <1>2 DEF Recorders, At, Ended
  <2>2. Recorders' \subseteq Recorders /\ \A s \in Recorders' : req'[s] = req[s]
    BY <1>2, <2>1 DEF Recorders, At
  <2> QED BY <2>2, <1>1 DEF CaseInv, Latest
<1>5. Linking'
  <2>1. Linkers' \subseteq Linkers
    BY <1>2 DEF Linkers
  <2> QED BY <2>1, <1>1 DEF CaseInv, Linking
<1> QED BY <1>1, <1>3, <1>4, <1>5, CaseUnwritten DEF CaseInv, TypeOK

\* What a commit writes.
LEMMA CommitWrites ==
    ASSUME CaseInv, NEW r \in Requests, Commit(r), NEW q, q = req[r]
    PROVE  /\ InFlight(r) /\ q \in Request /\ Consistent(q) /\ q.pc = "commit"
           /\ req' = [req EXCEPT ![r] = Ended]
           /\ UNCHANGED <<clock, seq, overlapped>>
           /\ incident' \in Incident
           /\ incident'.status = IF q.op = "transition" /\ q.to # q.seen.status
                                 THEN q.to ELSE incident.status
           /\ incident'.linked <=> incident.linked \/ Links(q)
           /\ incident'.acknowledged <=> incident.acknowledged \/ Acknowledges(q)
           /\ evidence' \in EvidenceStatus
<1>1. /\ InFlight(r) /\ q \in Request /\ Consistent(q) /\ q.pc = "commit"
  BY CaseBusy DEF Commit, At
<1>2. /\ req' = [req EXCEPT ![r] = Ended] /\ incident' = Written(q, r) /\ evidence' = StatusAfter(q)
      /\ UNCHANGED <<clock, seq, overlapped>>
  BY DEF Commit
<1>3. incident \in Incident /\ q.to \in IncidentStatus /\ q.seen \in Incident
      /\ q.action \in CustodyAction /\ evidence \in EvidenceStatus
  BY <1>1 DEF CaseInv, TypeOK, Request
<1>4. PICK b \in BOOLEAN : b = (incident.resolved \/ (q.op = "transition" /\ q.to \in ClosedStates))
  OBVIOUS
<1>5. PICK c \in BOOLEAN : c = (incident.acknowledged \/ Acknowledges(q))
  OBVIOUS
<1>6. PICK d \in BOOLEAN : d = (incident.linked \/ Links(q))
  OBVIOUS
<1>7. PICK st \in IncidentStatus :
        st = IF q.op = "transition" /\ q.to # q.seen.status THEN q.to ELSE incident.status
  BY <1>3 DEF Incident
<1>8. PICK w \in Requests \cup {Nobody} : w = IF q.op = "assign" THEN r ELSE incident.assignee
  BY <1>3 DEF Incident
<1>9. incident' = [incident EXCEPT !.status = st, !.resolved = b, !.acknowledged = c,
                                   !.assignee = w, !.linked = d]
  BY <1>2, <1>4, <1>5, <1>6, <1>7, <1>8 DEF Written
<1>10. incident' = [status |-> st, acknowledged |-> c, resolved |-> b, assignee |-> w, linked |-> d]
  BY <1>3, <1>9 DEF Incident
<1>11. incident' \in Incident /\ incident'.status = st /\ incident'.linked = d
       /\ incident'.acknowledged = c
  BY <1>10 DEF Incident
<1>12. (d <=> incident.linked \/ Links(q)) /\ (c <=> incident.acknowledged \/ Acknowledges(q))
  BY <1>5, <1>6
<1>13. evidence' \in EvidenceStatus
  BY <1>2, <1>3 DEF StatusAfter, Moves, EvidenceStatus, Terminal
<1> QED BY <1>1, <1>2, <1>7, <1>11, <1>12, <1>13

\* The notes a commit adds: of the time its request read at.
LEMMA CommitNotes ==
    ASSUME CaseInv, NEW r \in Requests, Commit(r), NEW q, q = req[r], q \in Request,
           Consistent(q), q.pc = "commit"
    PROVE  /\ notes' \subseteq Note /\ notes \subseteq notes'
           /\ \A n \in notes' \ notes : n.at = q.at
           /\ \A m, n \in notes' \ notes : m = n
           /\ \A n \in notes' \ notes : n.to = "alert" => Links(q)
           /\ \A n \in notes' \ notes : n.to = "system" => q.op = "acknowledge" /\ q.seq # 0
           /\ \A n \in notes' \ notes : n.to \in IncidentStatus => q.op = "transition" /\ n.to = q.to
           /\ q.op = "transition" => \E n \in notes' : n.at = q.at /\ n.to = q.to
<1>1. notes' = notes \cup NotesOf(q)
  BY DEF Commit
<1>2. q.to \in IncidentStatus /\ q.op \in Ops /\ q.at \in Bounded
  BY DEF Request
<1>3. ASSUME NEW n \in NotesOf(q)
      PROVE /\ n \in Note /\ n.at = q.at /\ n = [at |-> q.at, to |-> n.to]
            /\ \/ q.op = "transition" /\ n.to = q.to
               \/ q.op = "acknowledge" /\ q.seq # 0 /\ n.to = "system"
               \/ Links(q) /\ q.op = "link" /\ n.to = "alert"
               \/ q.op = "assign" /\ n.to = "assignment"
               \/ q.op = "comment" /\ n.to = "comment"
  <2>1. CASE q.op = "transition"
    BY <1>2, <2>1 DEF NotesOf, Note
  <2>2. CASE q.op = "acknowledge"
    BY <1>2, <2>2 DEF NotesOf, Note
  <2>3. CASE q.op = "link"
    BY <1>2, <2>3 DEF NotesOf, Note
  <2>4. CASE q.op = "assign"
    BY <1>2, <2>4 DEF NotesOf, Note
  <2>5. CASE q.op = "comment"
    BY <1>2, <2>5 DEF NotesOf, Note
  <2>6. CASE q.op = "custody"
    BY <1>2, <2>6 DEF NotesOf, Note
  <2> QED BY <1>2, <2>1, <2>2, <2>3, <2>4, <2>5, <2>6 DEF Ops, Audited
<1>4. notes \subseteq Note
  BY DEF CaseInv, TypeOK
<1>5. \A m, n \in NotesOf(q) : m = n
  <2> SUFFICES ASSUME NEW m \in NotesOf(q), NEW n \in NotesOf(q) PROVE m.to = n.to
    BY <1>3
  <2> QED BY <1>3
<1>6. q.op = "transition" => [at |-> q.at, to |-> q.to] \in NotesOf(q)
  BY DEF NotesOf
<1>7. "alert" \notin IncidentStatus /\ "system" \notin IncidentStatus
      /\ "assignment" \notin IncidentStatus /\ "comment" \notin IncidentStatus
  BY DEF IncidentStatus
<1>8. \A n \in notes' \ notes : n \in NotesOf(q)
  BY <1>1
<1>9. q.op = "transition" => \E n \in notes' : n.at = q.at /\ n.to = q.to
  BY <1>1, <1>6
<1>10. notes' \subseteq Note /\ notes \subseteq notes'
  BY <1>1, <1>3, <1>4
<1>11. \A n \in notes' \ notes : n.to = "alert" => Links(q)
  BY <1>2, <1>3, <1>7, <1>8
<1>12. \A n \in notes' \ notes : n.to = "system" => q.op = "acknowledge" /\ q.seq # 0
  BY <1>2, <1>3, <1>7, <1>8
<1>13. \A n \in notes' \ notes : n.to \in IncidentStatus => q.op = "transition" /\ n.to = q.to
  BY <1>3, <1>7, <1>8
<1> QED BY <1>3, <1>5, <1>8, <1>9, <1>10, <1>11, <1>12, <1>13

\* The audit entry of a transition is the last, as its request has the lock.
LEMMA CommitTrail ==
    ASSUME CaseInv, NEW r \in Requests, Commit(r)
    PROVE  /\ trail' \subseteq Change
           /\ Latest' /\ TrailTellsStatus'
<1>1. PICK q : q = req[r]
  OBVIOUS
<1>2. /\ InFlight(r) /\ q \in Request /\ Consistent(q) /\ q.pc = "commit"
      /\ req' = [req EXCEPT ![r] = Ended] /\ UNCHANGED <<clock, seq, overlapped>>
      /\ incident'.status = IF q.op = "transition" /\ q.to # q.seen.status
                            THEN q.to ELSE incident.status
  BY <1>1, CommitWrites
<1>3. q.to \in IncidentStatus /\ q.seen.status \in IncidentStatus /\ q.seq \in Bounded
  BY <1>2 DEF Request, Incident
<1>4. \A s \in Recorders' : s # r /\ s \in Recorders /\ req'[s] = req[s]
  <2>1. req'[r] = Ended /\ \A s \in Requests : s # r => req'[s] = req[s]
    BY <1>2 DEF CaseInv, TypeOK
  <2>2. Ended.pc # "commit"
    BY DEF Ended
  <2> QED BY <2>1, <2>2 DEF Recorders, At
<1>5. trail \subseteq Change /\ Latest /\ TrailTellsStatus
  BY DEF CaseInv, TypeOK
<1>6. CASE q.op # "transition"
  <2>1. trail' = trail /\ incident'.status = incident.status
    BY <1>1, <1>2, <1>6 DEF Commit
  <2>2. Latest'
    BY <1>2, <1>4, <1>5, <2>1 DEF Latest
  <2>3. TrailTellsStatus'
    BY <1>5, <2>1 DEF TrailTellsStatus
  <2> QED BY <1>5, <2>1, <2>2, <2>3
<1>7. CASE q.op = "transition"
  <2>1. PICK d : d = [seq |-> q.seq, from |-> q.seen.status, to |-> q.to]
    OBVIOUS
  <2>2. trail' = trail \cup {d}
    BY <1>1, <1>7, <2>1 DEF Commit
  <2>3. d \in Change /\ d.seq = q.seq /\ d.from = q.seen.status /\ d.to = q.to
    BY <1>3, <2>1 DEF Change
  <2>4. r \in Recorders
    BY <1>1, <1>2, <1>7 DEF Recorders, At, Consistent, Audited
  <2>5. d.seq = seq /\ \A c \in trail : c.seq < seq
    BY <1>1, <1>5, <2>3, <2>4 DEF Latest
  <2>6. Recorders' = {}
    BY <1>4, <1>5, <2>4 DEF Latest
  <2>7. Latest'
    <3>1. \A c \in trail' : c.seq <= seq
      BY <2>2, <2>5, Times
    <3> QED BY <1>2, <2>6, <3>1 DEF Latest
  <2>8. TrailTellsStatus'
    <3>1. CASE d.from = d.to
      <4>1. {c \in trail' : c.from # c.to} = {c \in trail : c.from # c.to}
        BY <2>2, <3>1
      <4>2. incident'.status = incident.status
        BY <1>2, <2>3, <3>1
      <4> QED BY <4>1, <4>2, <1>5 DEF TrailTellsStatus
    <3>2. CASE d.from # d.to
      <4>1. d \in trail' /\ \A c \in trail' : c.seq <= d.seq
        BY <2>2, <2>5, Times
      <4>2. incident'.status = d.to
        BY <1>2, <1>7, <2>3, <3>2
      <4> QED BY <3>2, <4>1, <4>2 DEF TrailTellsStatus
    <3> QED BY <3>1, <3>2
  <2> QED BY <1>5, <2>2, <2>3, <2>7, <2>8
<1> QED BY <1>6, <1>7

\* The link a commit writes is the only one.
LEMMA CommitLink ==
    ASSUME CaseInv, NEW r \in Requests, Commit(r)
    PROVE  Linking'
<1>1. PICK q : q = req[r]
  OBVIOUS
<1>2. /\ InFlight(r) /\ q \in Request /\ Consistent(q) /\ q.pc = "commit"
      /\ req' = [req EXCEPT ![r] = Ended] /\ UNCHANGED <<clock, seq, overlapped>>
      /\ incident'.linked <=> incident.linked \/ Links(q)
  BY <1>1, CommitWrites
<1>3. /\ notes \subseteq notes'
      /\ \A m, n \in notes' \ notes : m = n
      /\ \A n \in notes' \ notes : n.to = "alert" => Links(q)
  BY <1>1, <1>2, CommitNotes
<1>4. \A s \in Linkers' : s # r /\ s \in Linkers
  <2>1. req'[r] = Ended /\ \A s \in Requests : s # r => req'[s] = req[s]
    BY <1>2 DEF CaseInv, TypeOK
  <2> QED BY <2>1 DEF Linkers, InFlight
<1>5. Linking
  BY DEF CaseInv
<1>6. CASE Links(q)
  <2>1. r \in Linkers
    BY <1>1, <1>2, <1>6 DEF Linkers
  <2>2. Linkers' = {} /\ ~ incident.linked
    BY <1>4, <1>5, <2>1 DEF Linking
  <2>3. \A n \in notes : n.to # "alert"
    BY <1>5, <2>2 DEF Linking
  <2>4. \A m, n \in notes' : m.to = "alert" /\ n.to = "alert" => m = n
    BY <1>3, <2>3
  <2> QED BY <1>2, <1>6, <2>2, <2>4 DEF Linking
<1>7. CASE ~ Links(q)
  <2>1. (incident'.linked <=> incident.linked) /\ \A n \in notes' : n.to = "alert" => n \in notes
    BY <1>2, <1>3, <1>7
  <2> QED BY <1>4, <1>5, <2>1 DEF Linking
<1> QED BY <1>6, <1>7

\* As long as requests come one at a time, what a commit writes is the last.
LEMMA CommitAlone ==
    ASSUME CaseInv, NEW r \in Requests, Commit(r), ~ overlapped
    PROVE  OneAtATime'
<1>1. PICK q : q = req[r]
  OBVIOUS
<1>2. /\ InFlight(r) /\ q \in Request /\ Consistent(q) /\ q.pc = "commit"
      /\ req' = [req EXCEPT ![r] = Ended]
      /\ incident'.status = IF q.op = "transition" /\ q.to # q.seen.status
                            THEN q.to ELSE incident.status
      /\ incident'.acknowledged <=> incident.acknowledged \/ Acknowledges(q)
  BY <1>1, CommitWrites
<1>3. /\ notes' \subseteq Note /\ notes \subseteq notes'
      /\ \A n \in notes' \ notes : n.at = q.at
      /\ \A m, n \in notes' \ notes : m = n
      /\ \A n \in notes' \ notes : n.to = "system" => q.op = "acknowledge" /\ q.seq # 0
      /\ \A n \in notes' \ notes : n.to \in IncidentStatus => q.op = "transition" /\ n.to = q.to
      /\ q.op = "transition" => \E n \in notes' : n.at = q.at /\ n.to = q.to
  BY <1>1, <1>2, CommitNotes
<1>4. OneAtATime
  BY DEF CaseInv
<1>5. /\ q.seen = incident /\ q.status = evidence
      /\ \A n \in notes : n.at < q.at
      /\ \A e \in entries : e.at < q.at
  BY <1>1, <1>2, <1>4 DEF OneAtATime
<1>6. \A s \in Requests : ~ InFlight(s)'
  <2>1. \A s \in Requests : s # r => ~ InFlight(s)
    BY <1>2, <1>4 DEF OneAtATime
  <2>2. req'[r] = Ended /\ \A s \in Requests : s # r => req'[s] = req[s]
    BY <1>2 DEF CaseInv, TypeOK
  <2> QED BY <2>1, <2>2 DEF InFlight
<1>7. q.to \in IncidentStatus /\ q.at \in Nat
  BY <1>2, Times DEF Request
<1>8. Changes' # {} => \E n \in Changes' : n.to = incident'.status
                                          /\ \A m \in Changes' \ {n} : m.at < n.at
  <2>1. CASE q.op = "transition"
    <3>1. PICK n \in notes' : n.at = q.at /\ n.to = q.to
      BY <1>3, <2>1
    <3>2. n \in Changes' /\ n.to = incident'.status
      BY <1>2, <1>5, <1>7, <2>1, <3>1 DEF Changes
    <3>3. n \in notes' \ notes
      BY <1>5, <1>7, <3>1, Times
    <3>4. \A m \in notes' : m # n => m \in notes
      BY <1>3, <3>3
    <3>5. \A m \in Changes' \ {n} : m.at < n.at
      BY <1>5, <3>1, <3>4 DEF Changes
    <3> QED BY <3>2, <3>5
  <2>2. CASE q.op # "transition"
    <3>1. Changes' = Changes
      BY <1>3, <2>2 DEF Changes
    <3>2. incident'.status = incident.status
      BY <1>2, <2>2
    <3> QED BY <1>4, <3>1, <3>2 DEF OneAtATime
  <2> QED BY <2>1, <2>2
<1>9. /\ \A m, n \in notes' : m.to = "system" /\ n.to = "system" => m = n
      /\ \A n \in notes' : n.to = "system" => incident'.acknowledged
  <2>1. CASE q.op = "acknowledge" /\ q.seq # 0
    <3>1. ~ q.seen.acknowledged
      BY <1>2, <2>1 DEF Consistent
    <3>2. incident'.acknowledged /\ \A n \in notes : n.to # "system"
      BY <1>2, <1>4, <1>5, <2>1, <3>1 DEF Acknowledges, OneAtATime
    <3> QED BY <1>3, <3>2
  <2>2. CASE ~ (q.op = "acknowledge" /\ q.seq # 0)
    <3>1. \A n \in notes' : n.to = "system" => n \in notes
      BY <1>3, <2>2
    <3> QED BY <1>2, <1>4, <3>1 DEF OneAtATime
  <2> QED BY <2>1, <2>2
<1>10. /\ Moving' = {} => evidence' = "collected"
       /\ Moving' # {} => \E e \in Moving' : e.action = evidence' /\ \A d \in Moving' \ {e} : d.at < e.at
  <2>1. evidence' = IF Moves(q) THEN q.action ELSE evidence
    BY <1>1 DEF Commit, StatusAfter
  <2>2. CASE q.op = "custody" /\ q.action \in Terminal
    <3>1. PICK e : e = [at |-> q.at, action |-> q.action]
      OBVIOUS
    <3>2. entries' = entries \cup {e}
      BY <1>1, <2>2, <3>1 DEF Commit
    <3>3. e.at = q.at /\ e.action = q.action
      BY <3>1
    <3>4. evidence' = q.action
      BY <1>5, <2>1, <2>2 DEF Moves
    <3>5. e \in Moving' /\ Moving' = Moving \cup {e}
      BY <2>2, <3>2, <3>3 DEF Moving
    <3>6. \A d \in Moving : d.at < e.at
      BY <1>5, <3>3 DEF Moving
    <3> QED BY <3>3, <3>4, <3>5, <3>6
  <2>3. CASE ~ (q.op = "custody" /\ q.action \in Terminal)
    <3>1. evidence' = evidence
      BY <2>1, <2>3 DEF Moves
    <3>2. Moving' = Moving
      BY <1>1, <2>3 DEF Moving, Commit
    <3> QED BY <1>4, <3>1, <3>2 DEF OneAtATime
  <2> QED BY <2>2, <2>3
<1> QED BY <1>6, <1>8, <1>9, <1>10 DEF OneAtATime

\* A request commits.
LEMMA CaseCommitStep == ASSUME CaseInv, NEW r \in Requests, Commit(r) PROVE CaseInv'
<1>1. PICK q : q = req[r]
  OBVIOUS
<1>2. /\ InFlight(r) /\ q \in Request /\ Consistent(q) /\ q.pc = "commit"
      /\ req' = [req EXCEPT ![r] = Ended] /\ UNCHANGED <<clock, seq, overlapped>>
      /\ incident' \in Incident /\ evidence' \in EvidenceStatus
  BY <1>1, CommitWrites
<1>3. /\ notes' \subseteq Note /\ \A n \in notes' \ notes : n.at = q.at
  BY <1>1, <1>2, CommitNotes
<1>4. /\ req'[r] = Ended /\ \A s \in Requests : s # r => req'[s] = req[s]
      /\ req' \in [Requests -> Request \cup {Idle, Ended}]
      /\ ~ InFlight(r)' /\ \A s \in Requests : s # r => (InFlight(s)' <=> InFlight(s))
      /\ clock' = Cardinality(Started')
      /\ Recorded' \ {r} = Recorded \ {r}
  BY <1>2, CaseMoves
<1>5. entries' \subseteq Entry /\ \A e \in entries' \ entries : e.at = q.at
  <2>1. CASE q.op # "custody"
    BY <1>1, <2>1 DEF Commit, CaseInv, TypeOK
  <2>2. CASE q.op = "custody"
    <3>1. PICK e : e = [at |-> q.at, action |-> q.action]
      OBVIOUS
    <3>2. entries' = entries \cup {e}
      BY <1>1, <2>2, <3>1 DEF Commit
    <3>3. e \in Entry /\ e.at = q.at
      BY <1>2, <3>1 DEF Entry, Request
    <3> QED BY <3>2, <3>3 DEF CaseInv, TypeOK
  <2> QED BY <2>1, <2>2
<1>6. TypeOK'
  BY <1>2, <1>3, <1>4, <1>5, CommitTrail DEF CaseInv, TypeOK
<1>7. /\ \A n \in notes' : n.at <= clock'
      /\ \A e \in entries' : e.at <= clock'
  <2>1. q.at <= clock
    BY <1>1, <1>2 DEF CaseInv
  <2> QED BY <2>1, <1>2, <1>3, <1>5 DEF CaseInv
<1>8. \A s \in Requests : InFlight(s)' => Consistent(req'[s]) /\ req'[s].at <= clock'
  BY <1>2, <1>4 DEF CaseInv
<1>9. seq' <= Cardinality(Recorded')
  <2>1. Recorded \subseteq Recorded'
    BY <1>4 DEF Recorded
  <2>2. Recorded' \in SUBSET Requests /\ Recorded \in SUBSET Requests
    BY DEF Recorded
  <2>3. Cardinality(Recorded) <= Cardinality(Recorded')
    BY <2>1, <2>2, RequestSets, FS_Subset
  <2>4. seq <= Cardinality(Recorded)
    BY DEF CaseInv
  <2> QED BY <2>2, <2>3, <2>4, <1>2, Times, RequestSets
<1> QED BY <1>2, <1>4, <1>6, <1>7, <1>8, <1>9, CommitTrail, CommitLink, CommitAlone DEF CaseInv

\* Every step keeps the invariant.
LEMMA CaseNextInv == CaseInv /\ [Next]_vars => CaseInv'
<1> SUFFICES ASSUME CaseInv, [Next]_vars PROVE CaseInv'
  OBVIOUS
<1>1. CASE Next
  <2>1. PICK r \in Requests :
          \/ LoadTransition(r) \/ LoadAcknowledge(r) \/ LoadAssign(r) \/ LoadComment(r)
          \/ LoadLink(r) \/ LoadCustody(r)
          \/ Flush(r) \/ Conflict(r) \/ Record(r) \/ Commit(r) \/ Abort(r)
    BY <1>1 DEF Next
  <2> QED BY <2>1, LoadSteps, FlushStep, RecordStep, CaseCommitStep, CaseAbortStep DEF Conflict
<1>2. CASE UNCHANGED vars
  <2>1. UNCHANGED <<incident, evidence, notes, entries, trail, clock, seq, req, overlapped>>
    BY <1>2 DEF vars
  <2> QED BY <2>1 DEF CaseInv, TypeOK, Started, Recorded, InFlight, Latest, Recorders, At,
                      TrailTellsStatus, Linking, Linkers, OneAtATime, Changes, Moving
<1> QED BY <1>1, <1>2

\* A set whose members are one has a cardinality of one at most.
LEMMA OneAtMost ==
    ASSUME NEW S, \A x, y \in S : x = y
    PROVE  Cardinality(S) <= 1
<1>1. CASE S = {}
  BY <1>1, FS_EmptySet
<1>2. CASE S # {}
  <2>1. PICK x : x \in S
    BY <1>2
  <2>2. S = {x}
    BY <2>1
  <2> QED BY <2>2, FS_Singleton
<1> QED BY <1>1, <1>2

\* Where one member is later than all others, it is the last.
LEMMA LastIsLater ==
    ASSUME NEW S, NEW x \in S, \A y \in S : y.at \in Nat, \A y \in S \ {x} : y.at < x.at
    PROVE  Last(S) = x
<1>1. \A y \in S : y.at <= x.at
  OBVIOUS
<1>2. Last(S) \in S /\ \A y \in S : y.at <= Last(S).at
  BY <1>1 DEF Last
<1>3. x.at <= Last(S).at
  BY <1>2
<1>4. Last(S) # x => Last(S).at < x.at
  BY <1>2
<1>5. Last(S).at \in Nat /\ x.at \in Nat
  BY <1>2
<1> QED BY <1>3, <1>4, <1>5

\* The invariant says what the property says.
LEMMA CaseInvTells == CaseInv => CaseFileTold
<1> SUFFICES ASSUME CaseInv PROVE CaseFileTold
  OBVIOUS
<1>1. LinkedOnce
  <2>1. \A m, n \in {l \in notes : l.to = "alert"} : m = n
    BY DEF CaseInv, Linking
  <2>2. Cardinality({l \in notes : l.to = "alert"}) <= 1
    BY <2>1, OneAtMost
  <2>3. {l \in notes : l.to = "alert"} # {} => incident.linked
    BY DEF CaseInv, Linking
  <2> QED BY <2>2, <2>3 DEF LinkedOnce
<1>2. ASSUME OneAtATime PROVE TimelineTellsStatus /\ OneAcknowledgement /\ CustodyTellsStatus
  <2>1. TimelineTellsStatus
    <3> SUFFICES ASSUME Changes # {} PROVE Last(Changes).to = incident.status
      BY DEF TimelineTellsStatus, Changes
    <3>1. PICK n \in Changes : n.to = incident.status /\ \A m \in Changes \ {n} : m.at < n.at
      BY <1>2 DEF OneAtATime
    <3>2. \A m \in Changes : m.at \in Nat
      BY Times DEF Changes
    <3> QED BY <3>1, <3>2, LastIsLater
  <2>2. OneAcknowledgement
    <3>1. \A m, n \in {x \in notes : x.to = "system"} : m = n
      BY <1>2 DEF OneAtATime
    <3> QED BY <3>1, OneAtMost DEF OneAcknowledgement
  <2>3. CustodyTellsStatus
    <3>1. CASE Moving = {}
      BY <1>2, <3>1 DEF OneAtATime, CustodyTellsStatus, Moving
    <3>2. CASE Moving # {}
      <4>1. PICK e \in Moving : e.action = evidence /\ \A d \in Moving \ {e} : d.at < e.at
        BY <1>2, <3>2 DEF OneAtATime
      <4>2. \A d \in Moving : d.at \in Nat
        BY Times DEF Moving
      <4>3. Last(Moving) = e
        BY <4>1, <4>2, LastIsLater
      <4> QED BY <3>2, <4>1, <4>3 DEF CustodyTellsStatus, Moving
    <3> QED BY <3>1, <3>2
  <2> QED BY <2>1, <2>2, <2>3
<1> QED BY <1>1, <1>2 DEF CaseInv, CaseFileTold, SerialCase

\* incident_service.py, evidence_service.py: the audit trail tells the status of
\* the incident and the alert is linked once, however requests interleave; the
\* timeline and the custody tell theirs when requests come one at a time.
THEOREM CaseAlwaysTold == Spec => [](TypeOK /\ CaseFileTold)
<1>1. CaseInv => TypeOK /\ CaseFileTold
  BY CaseInvTells DEF CaseInv
<1> QED BY <1>1, CaseInitInv, CaseNextInv, PTL DEF Spec

-------------------------------------------------------------------------------
(* The order of versions, and the range of them a vulnerability affects.   *)
\* The places at which two versions differ.
Differ(a, b) == {i \in Nat : Part(a, i) # Part(b, i)}

\* A component is a natural number, and one that is not zero is given.
LEMMA PartTyped ==
    ASSUME NEW a \in Version, NEW i
    PROVE  Part(a, i) \in Nat /\ (Part(a, i) # 0 => i \in DOMAIN a)
  BY DEF Part, Version

\* Versions that differ somewhere differ at a first place.
LEMMA FirstDifference ==
    ASSUME NEW a \in Version, NEW b \in Version, NEW i \in Nat, Part(a, i) # Part(b, i)
    PROVE  \E k \in Nat : Part(a, k) # Part(b, k)
                          /\ \A j \in 0 .. (k - 1) : Part(a, j) = Part(b, j)
<1> DEFINE Less == OpToRel(<, Nat)
<1>1. IsWellFoundedOn(Less, Nat)
  BY NatLessThanWellFounded
<1>2. \A x, y \in Nat : x < y => <<x, y>> \in Less
  BY DEF OpToRel
<1>3. Differ(a, b) \subseteq Nat /\ Differ(a, b) # {}
  BY DEF Differ
<1> HIDE DEF Less
<1>4. PICK k \in Differ(a, b) : \A y \in Differ(a, b) : ~ (<<y, k>> \in Less)
  BY <1>1, <1>3, WFMin
<1>5. \A j \in 0 .. (k - 1) : j \in Nat /\ j < k
  BY <1>3, <1>4
<1>6. \A j \in 0 .. (k - 1) : j \notin Differ(a, b)
  BY <1>2, <1>3, <1>4, <1>5
<1>7. QED
  BY <1>3, <1>4, <1>5, <1>6 DEF Differ

\* Where two versions first differ decides which one is before the other.
LEMMA FirstDecides ==
    ASSUME NEW a \in Version, NEW b \in Version, NEW k \in Nat,
           \A j \in 0 .. (k - 1) : Part(a, j) = Part(b, j),
           Part(a, k) < Part(b, k)
    PROVE  Before(a, b)
<1>1. k \in DOMAIN b
  BY PartTyped
<1>2. \A j \in 1 .. (k - 1) : j \in 0 .. (k - 1)
  OBVIOUS
<1>3. QED
  BY <1>1, <1>2 DEF Before

\* vcompare is a total preorder: whatever lies between two versions is after
\* the one or before the other.
LEMMA BeforeIsWeakOrder ==
    ASSUME NEW a \in Version, NEW b \in Version, NEW c \in Version, Before(a, c)
    PROVE  Before(a, b) \/ Before(b, c)
<1>1. \A v \in Version : DOMAIN v \subseteq Nat \ {0}
  BY DEF Version
<1>2. PICK k \in DOMAIN a \cup DOMAIN c :
        Part(a, k) < Part(c, k) /\ \A j \in 1 .. (k - 1) : Part(a, j) = Part(c, j)
  BY DEF Before
<1>3. k \in Nat
  BY <1>1, <1>2
<1>4. \A v \in Version, j \in Int : j <= 0 => Part(v, j) = 0
  BY <1>1 DEF Part
<1>5. \A j \in 0 .. (k - 1) : Part(a, j) = Part(c, j)
  BY <1>2, <1>3, <1>4
<1>6. CASE \A j \in 0 .. (k - 1) : Part(a, j) = Part(b, j)
  <2>1. \A j \in 0 .. (k - 1) : Part(b, j) = Part(c, j)
    BY <1>5, <1>6
  <2>2. Part(a, k) < Part(b, k) \/ Part(b, k) < Part(c, k)
    BY <1>2, PartTyped
  <2>3. QED
    BY <1>3, <1>6, <2>1, <2>2, FirstDecides
<1>7. CASE \E j \in 0 .. (k - 1) : Part(a, j) # Part(b, j)
  <2>1. PICK i \in 0 .. (k - 1) : Part(a, i) # Part(b, i)
    BY <1>7
  <2>2. i \in Nat
    BY <1>3, <2>1
  <2>3. PICK m \in Nat : Part(a, m) # Part(b, m) /\ \A j \in 0 .. (m - 1) : Part(a, j) = Part(b, j)
    BY <2>1, <2>2, FirstDifference
  <2>4. m <= i
    <3> SUFFICES ASSUME i < m PROVE FALSE
      BY <2>2, <2>3
    <3>1. i \in 0 .. (m - 1)
      BY <2>2, <2>3
    <3>2. QED
      BY <2>1, <2>3, <3>1
  <2>5. m \in 0 .. (k - 1) /\ \A j \in 0 .. (m - 1) : j \in 0 .. (k - 1)
    BY <1>3, <2>1, <2>3, <2>4
  <2>6. Part(a, m) = Part(c, m) /\ \A j \in 0 .. (m - 1) : Part(b, j) = Part(c, j)
    BY <1>5, <2>3, <2>5
  <2>7. Part(a, m) < Part(b, m) \/ Part(b, m) < Part(c, m)
    BY <2>3, <2>6, PartTyped
  <2>8. QED
    BY <2>3, <2>6, <2>7, FirstDecides
<1>8. QED
  BY <1>6, <1>7

\* No version is before itself, and of two versions at most one is before the
\* other.
LEMMA BeforeIsStrict ==
    ASSUME NEW a \in Version, NEW b \in Version, Before(a, b)
    PROVE  ~ Before(b, a)
<1> SUFFICES ASSUME Before(b, a) PROVE FALSE
  OBVIOUS
<1>1. PICK k \in DOMAIN a \cup DOMAIN b :
        Part(a, k) < Part(b, k) /\ \A j \in 1 .. (k - 1) : Part(a, j) = Part(b, j)
  BY DEF Before
<1>2. PICK m \in DOMAIN b \cup DOMAIN a :
        Part(b, m) < Part(a, m) /\ \A j \in 1 .. (m - 1) : Part(b, j) = Part(a, j)
  BY DEF Before
<1>3. k \in Nat \ {0} /\ m \in Nat \ {0}
  BY <1>1, <1>2 DEF Version
<1>4. \A j : Part(a, j) \in Nat /\ Part(b, j) \in Nat
  BY PartTyped
<1>5. k \in 1 .. (m - 1) \/ m \in 1 .. (k - 1) \/ k = m
  BY <1>3
<1>6. QED
  BY <1>1, <1>2, <1>4, <1>5

\* versions.py: vcompare is a strict weak order of the versions, so "before" is
\* transitive and versions that are not before one another are alike.
THEOREM VcompareOrders ==
    ASSUME NEW a \in Version, NEW b \in Version, NEW c \in Version, Before(a, c)
    PROVE  ~ Before(c, a) /\ (Before(a, b) \/ Before(b, c))
  BY BeforeIsStrict, BeforeIsWeakOrder

\* versions.py: the versions a range affects lie without a gap: a version that
\* is neither before one affected version nor after another one is affected.
THEOREM AffectedIsInterval ==
    ASSUME NEW range \in [introduced : Version, fixed : Version, last_affected : Version],
           NEW u \in Version, NEW v \in Version, NEW w \in Version,
           IsAffected(u, range), IsAffected(w, range),
           v # <<>>, ~ Before(v, u), ~ Before(w, v)
    PROVE  IsAffected(v, range)
<1>1. range.introduced \in Version /\ range.fixed \in Version /\ range.last_affected \in Version
  OBVIOUS
<1>2. range.introduced = Open \/ ~ Before(v, range.introduced)
  BY <1>1, BeforeIsWeakOrder DEF IsAffected
<1>3. range.fixed = Open \/ Before(v, range.fixed)
  BY <1>1, BeforeIsWeakOrder DEF IsAffected
<1>4. range.last_affected = Open \/ ~ Before(range.last_affected, v)
  BY <1>1, BeforeIsWeakOrder DEF IsAffected
<1>5. QED
  BY <1>2, <1>3, <1>4 DEF IsAffected
-------------------------------------------------------------------------------
(* Vulnerability scans and their alerts.                                   *)

\* What a run has found and flushed is its own.
OwnFindings(r) == \A f \in task[r].new : f.run = r /\ f.scan = task[r].scan

\* What a run is about to raise: one alert each for findings that are there with
\* its commit and have none yet; its own severe findings are among them.
RaisedOnce(r) ==
    /\ \A a, b \in task[r].raised : a.finding = b.finding => a = b
    /\ \A a \in task[r].raised : a.finding \in findings \cup task[r].new
    /\ \A a \in task[r].raised, b \in alerts : a.finding # b.finding
    /\ \A f \in task[r].new : f.cve \in High => \E a \in task[r].raised : a.finding = f

ScanTyped ==
    /\ version \in [Assets -> Software] /\ critical \subseteq Assets
    /\ scan \in [Scans -> [status : ScanStatus, total : Nat]]
    /\ findings \subseteq Finding /\ closed \subseteq findings
    /\ alerts \subseteq Alert
    /\ task \in [Runs \cup Triages -> Run \cup Triage \cup {ScanIdle, ScanEnded}]
    /\ \A r \in Runs : task[r] \in Run \cup {ScanIdle, ScanEnded}
    /\ \A t \in Triages : task[t] \in Triage \cup {ScanIdle, ScanEnded}

ScanInv ==
    /\ ScanTyped /\ OneAlertEach
    /\ \A f \in findings : task[f.run] = ScanEnded
    /\ \A r \in Runs : ScanInFlight(r) => OwnFindings(r) /\ (task[r].pc = "commit" => RaisedOnce(r))
    /\ \A t \in Triages : ScanInFlight(t) => task[t].finding \in findings
    /\ \A r, s \in RunRecorders : r = s

\* It holds at the start.
LEMMA ScanInitInv == ScanInit => ScanInv
<1> SUFFICES ASSUME ScanInit PROVE ScanInv
  OBVIOUS
<1>1. \A x \in Runs \cup Triages : task[x] = ScanIdle /\ ~ ScanInFlight(x)
  BY DEF ScanInit, ScanInFlight
<1>2. RunRecorders = {}
  BY <1>1 DEF RunRecorders, ScanIdle
<1>3. ScanTyped
  BY DEF ScanInit, ScanTyped, ScanStatus
<1>4. OneAlertEach /\ findings = {}
  BY DEF ScanInit, OneAlertEach
<1> QED BY <1>1, <1>2, <1>3, <1>4 DEF ScanInv

\* A request that is at one of its steps is in flight.
LEMMA ScanBusy ==
    ASSUME ScanInv
    PROVE  /\ \A r \in Runs : task[r].pc \in {"flush", "collect", "audit", "raise", "commit"} =>
                ScanInFlight(r) /\ task[r] \in Run
           /\ \A t \in Triages : task[t].pc \in {"flush", "commit"} =>
                ScanInFlight(t) /\ task[t] \in Triage
BY DEF ScanInv, ScanTyped, ScanInFlight, ScanIdle, ScanEnded

\* A run that goes on by itself, without a commit.
LEMMA RunGoesOn ==
    ASSUME ScanInv, NEW r \in Runs, task[r] # ScanEnded, NEW q \in Run,
           task' = [task EXCEPT ![r] = q],
           UNCHANGED <<version, critical, scan, findings, closed, alerts>>,
           \A f \in q.new : f.run = r /\ f.scan = q.scan,
           q.pc \in {"raise", "commit"} => \A s \in Runs : s # r => s \notin RunRecorders,
           q.pc = "commit" => RaisedOnce(r)'
    PROVE  ScanInv'
<1>1. task'[r] = q /\ (\A x \in Runs \cup Triages : x # r => task'[x] = task[x])
  BY DEF ScanInv, ScanTyped
<1>2. \A x \in Runs \cup Triages : x # r => (ScanInFlight(x)' <=> ScanInFlight(x))
  BY <1>1 DEF ScanInFlight
<1>3. ScanTyped'
  BY <1>1, RequestsAssumption DEF ScanInv, ScanTyped
<1>4. OneAlertEach'
  BY DEF ScanInv, OneAlertEach
<1>5. \A f \in findings' : task'[f.run] = ScanEnded
  BY <1>1 DEF ScanInv, ScanTyped, Finding
<1>6. ASSUME NEW s \in Runs, ScanInFlight(s)'
      PROVE  OwnFindings(s)' /\ (task'[s].pc = "commit" => RaisedOnce(s)')
  <2>1. CASE s = r
    BY <2>1, <1>1 DEF OwnFindings
  <2>2. CASE s # r
    BY <2>2, <1>1, <1>2, <1>6 DEF ScanInv, OwnFindings, RaisedOnce
  <2> QED BY <2>1, <2>2
<1>7. \A t \in Triages : ScanInFlight(t)' => task'[t].finding \in findings'
  BY <1>1, <1>2, RequestsAssumption DEF ScanInv
<1>8. \A s, u \in RunRecorders' : s = u
  <2>1. \A s \in RunRecorders' : s = r \/ (s # r /\ s \in RunRecorders)
    BY <1>1 DEF RunRecorders
  <2>2. r \in RunRecorders' => q.pc \in {"raise", "commit"}
    BY <1>1 DEF RunRecorders
  <2>3. RunRecorders \subseteq Runs
    BY DEF RunRecorders
  <2> QED BY <2>1, <2>2, <2>3 DEF ScanInv
<1> QED BY <1>3, <1>4, <1>5, <1>6, <1>7, <1>8 DEF ScanInv

\* The steps of a run up to its alerts.
LEMMA RunSteps ==
    ASSUME ScanInv, NEW r \in Runs,
           StartRun(r) \/ FlushRun(r) \/ Collect(r) \/ RecordRun(r) \/ Raise(r)
    PROVE  ScanInv'
<1>1. CASE StartRun(r)
  <2>1. PICK s \in Scans :
          task' = [task EXCEPT ![r] = [pc |-> "flush", scan |-> s, new |-> {},
                                       seen |-> {}, raised |-> {}]]
    BY <1>1 DEF StartRun
  <2>2. PICK q : q = [pc |-> "flush", scan |-> s, new |-> {}, seen |-> {}, raised |-> {}]
    OBVIOUS
  <2>3. q \in Run /\ q.new = {} /\ q.pc = "flush"
    BY <2>2 DEF Run
  <2>4. task[r] # ScanEnded /\ task' = [task EXCEPT ![r] = q]
        /\ UNCHANGED <<version, critical, scan, findings, closed, alerts>>
    <3>1. ScanIdle # ScanEnded
      BY DEF ScanIdle, ScanEnded
    <3> QED BY <1>1, <2>1, <2>2, <3>1 DEF StartRun
  <2> QED BY <2>3, <2>4, RunGoesOn
<1>2. CASE FlushRun(r)
  <2>1. PICK q : q = [task[r] EXCEPT !.pc = "collect"]
    OBVIOUS
  <2>2. ScanInFlight(r) /\ task[r] \in Run
    BY <1>2, ScanBusy DEF FlushRun
  <2>3. q \in Run /\ q.new = task[r].new /\ q.scan = task[r].scan /\ q.pc = "collect"
    BY <2>1, <2>2 DEF Run
  <2>4. task[r] # ScanEnded /\ task' = [task EXCEPT ![r] = q]
        /\ UNCHANGED <<version, critical, scan, findings, closed, alerts>>
    BY <1>2, <2>1, <2>2 DEF FlushRun, ScanInFlight
  <2>5. \A f \in q.new : f.run = r /\ f.scan = q.scan
    BY <2>2, <2>3 DEF ScanInv, OwnFindings
  <2> QED BY <2>3, <2>4, <2>5, RunGoesOn
<1>3. CASE Collect(r)
  <2>1. PICK q : q = [task[r] EXCEPT !.pc = "audit", !.new = Matches(r), !.seen = critical]
    OBVIOUS
  <2>2. ScanInFlight(r) /\ task[r] \in Run
    BY <1>3, ScanBusy DEF Collect
  <2>3. Matches(r) \subseteq Finding /\ \A f \in Matches(r) : f.run = r /\ f.scan = task[r].scan
    BY <2>2 DEF Matches, Finding, Run
  <2>4. q \in Run /\ q.new = Matches(r) /\ q.scan = task[r].scan /\ q.pc = "audit"
    BY <2>1, <2>2, <2>3 DEF Run, ScanInv, ScanTyped
  <2>5. task[r] # ScanEnded /\ task' = [task EXCEPT ![r] = q]
        /\ UNCHANGED <<version, critical, scan, findings, closed, alerts>>
    BY <1>3, <2>1, <2>2 DEF Collect, ScanInFlight
  <2> QED BY <2>3, <2>4, <2>5, RunGoesOn
<1>4. CASE RecordRun(r)
  <2>1. PICK q : q = [task[r] EXCEPT !.pc = "raise"]
    OBVIOUS
  <2>2. ScanInFlight(r) /\ task[r] \in Run
    BY <1>4, ScanBusy DEF RecordRun
  <2>3. q \in Run /\ q.new = task[r].new /\ q.scan = task[r].scan /\ q.pc = "raise"
    BY <2>1, <2>2 DEF Run
  <2>4. task[r] # ScanEnded /\ task' = [task EXCEPT ![r] = q] /\ RunRecorders = {}
        /\ UNCHANGED <<version, critical, scan, findings, closed, alerts>>
    BY <1>4, <2>1, <2>2 DEF RecordRun, ScanInFlight
  <2>5. \A f \in q.new : f.run = r /\ f.scan = q.scan
    BY <2>2, <2>3 DEF ScanInv, OwnFindings
  <2> QED BY <2>3, <2>4, <2>5, RunGoesOn
<1>5. CASE Raise(r)
  <2>1. PICK severe \in SUBSET (task[r].seen \cup critical) :
          task' = [task EXCEPT ![r].pc = "commit",
                               ![r].raised = [finding : RaisedBy(r, severe), raised_by : {r}]]
    BY <1>5 DEF Raise
  <2>2. ScanInFlight(r) /\ task[r] \in Run /\ r \in RunRecorders
    BY <1>5, ScanBusy DEF Raise, RunRecorders
  <2>3. PICK q : q = [task[r] EXCEPT !.pc = "commit",
                                     !.raised = [finding : RaisedBy(r, severe), raised_by : {r}]]
    OBVIOUS
  <2>4. RaisedBy(r, severe) \subseteq findings \cup task[r].new
        /\ findings \cup task[r].new \subseteq Finding
    BY <2>2 DEF RaisedBy, ScanInv, ScanTyped, Run
  <2>5. [finding : RaisedBy(r, severe), raised_by : {r}] \subseteq Alert
    BY <2>4 DEF Alert
  <2>6. q \in Run /\ q.new = task[r].new /\ q.scan = task[r].scan /\ q.pc = "commit"
        /\ q.raised = [finding : RaisedBy(r, severe), raised_by : {r}]
    BY <2>2, <2>3, <2>5 DEF Run
  <2>7. task[r] # ScanEnded /\ task' = [task EXCEPT ![r] = q]
        /\ UNCHANGED <<version, critical, scan, findings, closed, alerts>>
    BY <1>5, <2>1, <2>2, <2>3 DEF Raise, ScanInFlight, ScanInv, ScanTyped
  <2>8. \A f \in q.new : f.run = r /\ f.scan = q.scan
    BY <2>2, <2>6 DEF ScanInv, OwnFindings
  <2>9. \A s \in Runs : s # r => s \notin RunRecorders
    BY <2>2 DEF ScanInv
  <2>10. task'[r] = q
    BY <2>7 DEF ScanInv, ScanTyped
  <2>11. \A f \in task[r].new : f.cve \in High => f \in RaisedBy(r, severe)
    <3>1. ASSUME NEW f \in task[r].new, f.cve \in High, NEW a \in alerts PROVE a.finding # f
      <4>1. f.run = r
        BY <2>2, <3>1 DEF ScanInv, OwnFindings
      <4>2. a.finding \in findings /\ task[a.finding.run] = ScanEnded
        BY <3>1 DEF ScanInv, OneAlertEach
      <4> QED BY <4>1, <4>2, <2>7
    <3>2. \A f \in task[r].new : f.scan = task[r].scan
      BY <2>2 DEF ScanInv, OwnFindings
    <3> QED BY <3>1, <3>2 DEF RaisedBy, Matched
  <2>12. RaisedOnce(r)'
    <3>1. \A a, b \in q.raised : a.finding = b.finding => a = b
      BY <2>6
    <3>2. \A a \in q.raised : a.finding \in RaisedBy(r, severe)
      BY <2>6
    <3>3. \A f \in RaisedBy(r, severe) : \E a \in q.raised : a.finding = f
      <4>1. ASSUME NEW f \in RaisedBy(r, severe) PROVE \E a \in q.raised : a.finding = f
        <5>1. [finding |-> f, raised_by |-> r] \in q.raised
          BY <2>6
        <5> QED BY <5>1
      <4> QED BY <4>1
    <3>4. \A a \in q.raised, b \in alerts : a.finding # b.finding
      BY <3>2 DEF RaisedBy
    <3> QED BY <3>1, <3>2, <3>3, <3>4, <2>4, <2>6, <2>7, <2>10, <2>11 DEF RaisedOnce
  <2> QED BY <2>6, <2>7, <2>8, <2>9, <2>12, RunGoesOn
<1> QED BY <1>1, <1>2, <1>3, <1>4, <1>5

\* A run finds a finite number of things.
LEMMA FindingsFinite ==
    ASSUME NEW r, NEW s, NEW new \in SUBSET [run : {r}, scan : {s}, asset : Assets, cve : Cves]
    PROVE  Cardinality(new) \in Nat
<1>1. IsFiniteSet(Assets \X Cves)
  BY FiniteAssumption, FS_Product
<1>2. PICK toPair : toPair = [f \in new |-> <<f.asset, f.cve>>]
  OBVIOUS
<1>3. toPair \in Injection(new, Assets \X Cves)
  <2>1. toPair \in [new -> Assets \X Cves]
    BY <1>2
  <2>2. \A f, g \in new : toPair[f] = toPair[g] => f = g
    BY <1>2
  <2> QED BY <2>1, <2>2 DEF Injection, IsInjective
<1>4. IsFiniteSet(new)
  BY <1>1, <1>3, FS_Injection
<1> QED BY <1>4, FS_CardinalityType

\* A run commits its findings with their alerts.
LEMMA CommitRunStep ==
    ASSUME ScanInv, NEW r \in Runs, CommitRun(r)
    PROVE  ScanInv'
<1> DEFINE q == task[r]
<1>1. ScanInFlight(r) /\ q \in Run /\ q.pc = "commit" /\ r \in RunRecorders
  BY ScanBusy DEF CommitRun, RunRecorders
<1>2. OwnFindings(r) /\ RaisedOnce(r)
  BY <1>1 DEF ScanInv
<1>3. /\ scan' = [scan EXCEPT ![q.scan] = [status |-> "completed", total |-> Cardinality(q.new)]]
      /\ findings' = findings \cup q.new /\ alerts' = alerts \cup q.raised
      /\ task' = [task EXCEPT ![r] = ScanEnded]
      /\ UNCHANGED <<version, critical, closed>>
  BY DEF CommitRun
<1>4. task'[r] = ScanEnded /\ (\A x \in Runs \cup Triages : x # r => task'[x] = task[x])
  BY <1>3 DEF ScanInv, ScanTyped
<1>5. \A x \in Runs \cup Triages : ScanInFlight(x)' => x # r /\ ScanInFlight(x)
  BY <1>4 DEF ScanInFlight
<1>6. ScanTyped'
  <2>1. Cardinality(q.new) \in Nat
    <3>1. q.new \in SUBSET [run : {r}, scan : {q.scan}, asset : Assets, cve : Cves]
      BY <1>1, <1>2 DEF OwnFindings, Run, Finding
    <3> QED BY <3>1, FindingsFinite
  <2>2. scan' \in [Scans -> [status : ScanStatus, total : Nat]]
    BY <1>1, <1>3, <2>1 DEF ScanInv, ScanTyped, Run, ScanStatus
  <2>3. findings' \subseteq Finding /\ alerts' \subseteq Alert /\ closed' \subseteq findings'
    BY <1>1, <1>3 DEF ScanInv, ScanTyped, Run
  <2> QED BY <1>3, <1>4, <2>2, <2>3, RequestsAssumption DEF ScanInv, ScanTyped
<1>7. OneAlertEach'
  BY <1>2, <1>3 DEF ScanInv, OneAlertEach, RaisedOnce
<1>8. \A f \in findings' : task'[f.run] = ScanEnded
  BY <1>2, <1>3, <1>4 DEF ScanInv, ScanTyped, Finding, OwnFindings
<1>9. ASSUME NEW s \in Runs, ScanInFlight(s)'
      PROVE  OwnFindings(s)' /\ (task'[s].pc = "commit" => RaisedOnce(s)')
  <2>1. s # r /\ ScanInFlight(s) /\ task'[s] = task[s]
    BY <1>4, <1>5, <1>9
  <2>2. task[s].pc # "commit"
    BY <2>1, <1>1 DEF ScanInv, RunRecorders
  <2> QED BY <2>1, <2>2 DEF ScanInv, OwnFindings
<1>10. \A t \in Triages : ScanInFlight(t)' => task'[t].finding \in findings'
  BY <1>3, <1>4, <1>5 DEF ScanInv
<1>11. \A s, u \in RunRecorders' : s = u
  <2>1. RunRecorders' \subseteq RunRecorders
    BY <1>4 DEF RunRecorders, ScanEnded
  <2> QED BY <2>1 DEF ScanInv
<1> QED BY <1>6, <1>7, <1>8, <1>9, <1>10, <1>11 DEF ScanInv

\* A triage goes on, or any request ends without findings.
LEMMA TriageGoesOn ==
    ASSUME ScanInv, NEW x \in Runs \cup Triages, NEW q \in Triage \cup {ScanEnded},
           x \in Runs => q = ScanEnded,
           task' = [task EXCEPT ![x] = q], q # ScanEnded => q.finding \in findings,
           UNCHANGED <<version, critical, scan, findings, alerts>>, closed' \subseteq findings,
           x \in Triages \/ ScanInFlight(x)
    PROVE  ScanInv'
<1>1. task'[x] = q /\ (\A y \in Runs \cup Triages : y # x => task'[y] = task[y])
  BY DEF ScanInv, ScanTyped
<1>2. \A y \in Runs : ScanInFlight(y)' => y # x /\ ScanInFlight(y)
  BY <1>1, RequestsAssumption DEF ScanInFlight
<1>3. ScanTyped'
  BY <1>1, RequestsAssumption DEF ScanInv, ScanTyped
<1>4. OneAlertEach'
  BY DEF ScanInv, OneAlertEach
<1>5. \A f \in findings' : task'[f.run] = ScanEnded
  BY <1>1, RequestsAssumption DEF ScanInv, ScanTyped, Finding
<1>6. ASSUME NEW s \in Runs, ScanInFlight(s)'
      PROVE  OwnFindings(s)' /\ (task'[s].pc = "commit" => RaisedOnce(s)')
  <2>1. s # x /\ ScanInFlight(s) /\ task'[s] = task[s]
    BY <1>1, <1>2, <1>6
  <2> QED BY <2>1 DEF ScanInv, OwnFindings, RaisedOnce
<1>7. \A t \in Triages : ScanInFlight(t)' => task'[t].finding \in findings'
  <2>1. ASSUME NEW t \in Triages, ScanInFlight(t)' PROVE task'[t].finding \in findings
    <3>1. CASE t = x
      BY <3>1, <2>1, <1>1 DEF ScanInFlight
    <3>2. CASE t # x
      BY <3>2, <2>1, <1>1 DEF ScanInv, ScanInFlight
    <3> QED BY <3>1, <3>2
  <2> QED BY <2>1
<1>8. \A s, u \in RunRecorders' : s = u
  <2>1. ASSUME NEW s \in RunRecorders' PROVE s \in RunRecorders
    <3>1. CASE s = x
      BY <3>1, <2>1, <1>1, RequestsAssumption DEF RunRecorders, ScanEnded
    <3>2. CASE s # x
      BY <3>2, <2>1, <1>1 DEF RunRecorders
    <3> QED BY <3>1, <3>2
  <2> QED BY <2>1 DEF ScanInv
<1> QED BY <1>3, <1>4, <1>5, <1>6, <1>7, <1>8 DEF ScanInv

\* The steps of a triage, and a request that fails.
LEMMA TriageSteps ==
    ASSUME ScanInv, NEW x \in Runs \cup Triages,
           AbortScan(x) \/ (x \in Triages /\ (StartTriage(x) \/ FlushTriage(x) \/ CommitTriage(x)))
    PROVE  ScanInv'
<1>1. closed \subseteq findings
  BY DEF ScanInv, ScanTyped
<1>2. CASE AbortScan(x)
  BY <1>1, <1>2, TriageGoesOn DEF AbortScan
<1>3. CASE x \in Triages /\ StartTriage(x)
  <2>1. PICK f \in findings :
          task' = [task EXCEPT ![x] = [pc |-> "flush", finding |-> f, close |-> f \notin closed]]
    BY <1>3 DEF StartTriage
  <2>2. PICK close \in BOOLEAN : close = (f \notin closed)
    OBVIOUS
  <2>3. PICK q : q = [pc |-> "flush", finding |-> f, close |-> close]
    OBVIOUS
  <2>4. q \in Triage /\ q.finding = f
    BY <2>3 DEF Triage, ScanInv, ScanTyped
  <2>5. task' = [task EXCEPT ![x] = q]
        /\ UNCHANGED <<version, critical, scan, findings, alerts>> /\ closed' = closed
    BY <1>3, <2>1, <2>2, <2>3 DEF StartTriage
  <2> QED BY <1>1, <1>3, <2>4, <2>5, RequestsAssumption, TriageGoesOn
<1>4. CASE x \in Triages /\ FlushTriage(x)
  <2>1. ScanInFlight(x) /\ task[x] \in Triage /\ task[x].finding \in findings
    BY <1>4, ScanBusy DEF FlushTriage, ScanInv
  <2>2. PICK q : q = [task[x] EXCEPT !.pc = "commit"]
    OBVIOUS
  <2>3. q \in Triage /\ q.finding = task[x].finding
    BY <2>1, <2>2 DEF Triage
  <2>4. task' = [task EXCEPT ![x] = q]
        /\ UNCHANGED <<version, critical, scan, findings, alerts>> /\ closed' = closed
    BY <1>4, <2>2 DEF FlushTriage
  <2> QED BY <1>1, <1>4, <2>1, <2>3, <2>4, RequestsAssumption, TriageGoesOn
<1>5. CASE x \in Triages /\ CommitTriage(x)
  <2>1. ScanInFlight(x) /\ task[x] \in Triage /\ task[x].finding \in findings
    BY <1>5, ScanBusy DEF CommitTriage, ScanInv
  <2>2. closed' \subseteq findings /\ task' = [task EXCEPT ![x] = ScanEnded]
        /\ UNCHANGED <<version, critical, scan, findings, alerts>>
    BY <1>1, <1>5, <2>1 DEF CommitTriage
  <2> QED BY <1>5, <2>2, TriageGoesOn
<1> QED BY <1>2, <1>3, <1>4, <1>5

\* Changes of an asset.
LEMMA AssetStep ==
    ASSUME ScanInv, NEW a \in Assets, SetSoftware(a) \/ SetCriticality(a)
    PROVE  ScanInv'
<1>1. UNCHANGED <<scan, findings, closed, alerts, task>>
      /\ version' \in [Assets -> Software] /\ critical' \subseteq Assets
  BY DEF SetSoftware, SetCriticality, ScanInv, ScanTyped
<1> QED BY <1>1 DEF ScanInv, ScanTyped, OneAlertEach, ScanInFlight, OwnFindings, RaisedOnce,
       RunRecorders

\* So it holds in every state.
LEMMA ScanInvariant == ScanSpec => []ScanInv
<1>1. ScanInv /\ [ScanNext]_scanVars => ScanInv'
  <2> SUFFICES ASSUME ScanInv, [ScanNext]_scanVars PROVE ScanInv'
    OBVIOUS
  <2>1. ASSUME NEW r \in Runs, StartRun(r) \/ ProceedRun(r) \/ AbortScan(r) PROVE ScanInv'
    BY <2>1, RunSteps, CommitRunStep, TriageSteps DEF ProceedRun
  <2>2. ASSUME NEW t \in Triages, StartTriage(t) \/ ProceedTriage(t) \/ AbortScan(t) PROVE ScanInv'
    BY <2>2, TriageSteps DEF ProceedTriage
  <2>3. ASSUME NEW a \in Assets, SetSoftware(a) \/ SetCriticality(a) PROVE ScanInv'
    BY <2>3, AssetStep
  <2>4. CASE UNCHANGED scanVars
    BY <2>4 DEF scanVars, ScanInv, ScanTyped, OneAlertEach, ScanInFlight, OwnFindings, RaisedOnce,
       RunRecorders
  <2> QED BY <2>1, <2>2, <2>3, <2>4 DEF ScanNext
<1> QED BY <1>1, ScanInitInv, PTL DEF ScanSpec

\* A finding has one alert at most, whatever runs, triages and changes of assets
\* cross: the audit lock that a run holds when it asks for alerts is enough
\* (run_for_vuln_scan, alert_engine.py).
THEOREM AlertsAreSingle == ScanSpec => [](ScanTypeOK /\ OneAlertEach)
<1>1. ScanInv => ScanTypeOK /\ OneAlertEach
  BY DEF ScanInv, ScanTyped, ScanTypeOK
<1> QED BY <1>1, ScanInvariant, PTL

-------------------------------------------------------------------------------
(* The work at a site.                                                     *)

\* What a request that is present says: an ANPR event is its own row.
OwnPassage(v) == visit[v].op = "anpr" => visit[v].row \in Visits

\* A patrol that was seen under way is not back at its schedule.
PatrolSeen(v) == visit[v].patrol # "scheduled" => patrol # "scheduled"

\* What a request that is alone has read is still so.
StillAsRead(v) ==
    /\ visit[v].patrol = patrol
    /\ visit[v].op = "register" => ~ Blacklisted
    /\ visit[v].op = "anpr" => (visit[v].was <=> \E x \in vehicles : x.listed)

SiteInv ==
    /\ SiteTypeOK /\ SiteInOrder
    /\ \A v \in Visits : Present(v) => OwnPassage(v) /\ PatrolSeen(v)
    /\ ~ crossing => /\ \A v, w \in Visits : Present(v) /\ Present(w) => v = w
                     /\ \A v \in Visits : Present(v) => StillAsRead(v)

\* It holds at the start.
LEMMA SiteInitInv == SiteInit => SiteInv
<1> SUFFICES ASSUME SiteInit PROVE SiteInv
  OBVIOUS
<1>1. \A v \in Visits : ~ Present(v)
  BY DEF SiteInit, Present, Away, SiteOps
<1>2. SiteTypeOK
  <2>1. [id |-> First, status |-> "approved", banned |-> FALSE] \in Visitor
    BY DEF Visitor, VisitorStatus, RowIds
  <2> QED BY <2>1 DEF SiteInit, SiteTypeOK, PatrolStatus
<1>3. SiteInOrder
  BY DEF SiteInit, SiteInOrder, ScansStartPatrol, SerialSite
<1> QED BY <1>1, <1>2, <1>3 DEF SiteInv

\* A request that reads keeps it, if what it asks for is what it read.
LEMMA ReadStep ==
    ASSUME SiteInv, NEW v \in Visits, NEW q \in Visit \cup {Over}, Read(v, q),
           q \in Visit => /\ q.patrol = patrol /\ (q.op = "anpr" => q.row \in Visits)
                          /\ q.op = "register" => ~ Blacklisted
                          /\ q.op = "anpr" => (q.was <=> \E x \in vehicles : x.listed)
    PROVE  SiteInv'
<1>1. /\ visit' = [visit EXCEPT ![v] = q] /\ visit[v] = Away
      /\ crossing' = (crossing \/ \E w \in Visits : Present(w))
      /\ UNCHANGED <<visitors, vehicles, passages, patrol, scans, finished>>
  BY DEF Read
<1>2. visit'[v] = q /\ (\A w \in Visits : w # v => visit'[w] = visit[w])
  BY <1>1 DEF SiteInv, SiteTypeOK
<1>3. Present(v)' => q \in Visit
  BY <1>2 DEF Present, Over, SiteOps
<1>4. \A w \in Visits : w # v => (Present(w)' <=> Present(w))
  BY <1>2 DEF Present
<1>5. SiteTypeOK'
  BY <1>1 DEF SiteInv, SiteTypeOK
<1>6. SiteInOrder'
  BY <1>1 DEF SiteInv, SiteInOrder, ScansStartPatrol, SerialSite
<1>7. ASSUME NEW w \in Visits, Present(w)' PROVE OwnPassage(w)' /\ PatrolSeen(w)'
  BY <1>1, <1>2, <1>3, <1>4, <1>7 DEF SiteInv, OwnPassage, PatrolSeen
<1>8. ASSUME ~ crossing', NEW w \in Visits, Present(w)'
      PROVE  w = v /\ StillAsRead(w)'
  <2>1. w = v
    BY <1>1, <1>4, <1>8
  <2> QED BY <2>1, <1>1, <1>2, <1>3, <1>8 DEF StillAsRead, Blacklisted
<1> QED BY <1>5, <1>6, <1>7, <1>8 DEF SiteInv

\* A request that has read what it decides by goes on with it.
LEMMA AskStep ==
    ASSUME SiteInv, NEW v \in Visits, NEW op \in SiteOps, NEW row \in RowIds,
           NEW was \in BOOLEAN, NEW on \in BOOLEAN,
           NEW seen \in VisitorStatus, NEW to \in VisitorStatus,
           Read(v, Asks(op, row, was, on, seen, to)),
           op = "anpr" => row \in Visits /\ (was <=> \E x \in vehicles : x.listed),
           op = "register" => ~ Blacklisted
    PROVE  SiteInv'
<1>1. PICK q : q = Asks(op, row, was, on, seen, to)
  OBVIOUS
<1>2. q \in Visit /\ q.op = op /\ q.row = row /\ q.was = was /\ q.patrol = patrol
  BY <1>1 DEF SiteInv, SiteTypeOK, Asks, Visit
<1>3. Read(v, q)
  BY <1>1
<1> QED BY <1>2, <1>3, ReadStep

\* The requests read.
LEMMA ReadSteps ==
    ASSUME SiteInv, NEW v \in Visits,
           \/ Register(v) \/ SetStatus(v) \/ AddVehicle(v) \/ Watchlist(v) \/ Anpr(v)
           \/ Scan(v) \/ Complete(v)
    PROVE  SiteInv'
<1>1. v \in RowIds /\ "approved" \in VisitorStatus
  BY DEF RowIds, VisitorStatus
<1>2. Over \in Visit \cup {Over} /\ Over \notin Visit
  BY DEF Over, Visit, SiteOps
<1>3. CASE Register(v)
  <2>1. CASE Blacklisted
    BY <1>2, <1>3, <2>1, ReadStep DEF Register
  <2>2. CASE ~ Blacklisted
    <3>1. Read(v, Asks("register", v, FALSE, FALSE, "approved", "approved"))
      BY <1>3, <2>2 DEF Register
    <3> QED BY <1>1, <2>2, <3>1, AskStep DEF SiteOps
  <2> QED BY <2>1, <2>2
<1>4. CASE SetStatus(v)
  <2>1. PICK x \in visitors, to \in VisitorStatus :
          Read(v, Asks("status", x.id, FALSE, FALSE, x.status, to))
    BY <1>4 DEF SetStatus
  <2>2. x.id \in RowIds /\ x.status \in VisitorStatus
    BY DEF SiteInv, SiteTypeOK, Visitor
  <2> QED BY <2>1, <2>2, AskStep DEF SiteOps
<1>5. CASE AddVehicle(v)
  <2>1. PICK listed \in BOOLEAN : Read(v, Asks("vehicle", v, FALSE, listed, "approved", "approved"))
    BY <1>5 DEF AddVehicle
  <2> QED BY <1>1, <2>1, AskStep DEF SiteOps
<1>6. CASE Watchlist(v)
  <2>1. PICK x \in vehicles, listed \in BOOLEAN :
          Read(v, Asks("list", x.id, x.listed, listed, "approved", "approved"))
    BY <1>6 DEF Watchlist
  <2>2. x.id \in RowIds /\ x.listed \in BOOLEAN
    BY DEF SiteInv, SiteTypeOK, Vehicle
  <2> QED BY <1>1, <2>1, <2>2, AskStep DEF SiteOps
<1>7. CASE Anpr(v)
  <2> DEFINE was == \E x \in vehicles : x.listed
  <2>1. CASE Cardinality(vehicles) > 1
    BY <1>2, <1>7, <2>1, ReadStep DEF Anpr
  <2>2. CASE ~ (Cardinality(vehicles) > 1)
    <3>1. Read(v, Asks("anpr", v, was, FALSE, "approved", "approved"))
      BY <1>7, <2>2 DEF Anpr
    <3>2. was \in BOOLEAN /\ (was <=> \E x \in vehicles : x.listed)
      OBVIOUS
    <3> HIDE DEF was
    <3> QED BY <1>1, <3>1, <3>2, AskStep DEF SiteOps
  <2> QED BY <2>1, <2>2
<1>8. CASE Scan(v)
  BY <1>1, <1>8, AskStep DEF Scan, SiteOps
<1>9. CASE Complete(v)
  BY <1>1, <1>9, AskStep DEF Complete, SiteOps
<1> QED BY <1>3, <1>4, <1>5, <1>6, <1>7, <1>8, <1>9

\* A request ends, and the others are as they were.
LEMMA SiteEnds ==
    ASSUME SiteInv, NEW v \in Visits, Present(v), visit' = [visit EXCEPT ![v] = Over]
    PROVE  /\ visit' \in [Visits -> Visit \cup {Away, Over}]
           /\ \A w \in Visits : Present(w)' => w # v /\ Present(w) /\ visit'[w] = visit[w]
<1>1. visit'[v] = Over /\ (\A w \in Visits : w # v => visit'[w] = visit[w])
  BY DEF SiteInv, SiteTypeOK
<1> QED BY <1>1 DEF SiteInv, SiteTypeOK, Present, Over, SiteOps

\* A request saves what it decided.
LEMMA SaveStep ==
    ASSUME SiteInv, NEW v \in Visits, Save(v)
    PROVE  SiteInv'
<1> DEFINE q == visit[v]
<1>1. q \in Visit /\ OwnPassage(v) /\ PatrolSeen(v) /\ Present(v)
  BY DEF Save, Present, SiteInv, SiteTypeOK, Away, Over, SiteOps
<1>2. /\ visitors' = VisitorsAfter(q) /\ vehicles' = VehiclesAfter(q)
      /\ passages' = PassagesAfter(q) /\ patrol' = PatrolAfter(q)
      /\ scans' = scans \cup {x \in {v} : q.op = "scan"}
      /\ finished' = (finished \/ q.op = "complete")
      /\ visit' = [visit EXCEPT ![v] = Over] /\ crossing' = crossing
  BY DEF Save
<1>3. /\ visit' \in [Visits -> Visit \cup {Away, Over}]
      /\ \A w \in Visits : Present(w)' => w # v /\ Present(w) /\ visit'[w] = visit[w]
  BY <1>1, <1>2, SiteEnds
<1>4. q.row \in RowIds /\ q.to \in VisitorStatus /\ q.on \in BOOLEAN /\ q.was \in BOOLEAN
      /\ q.patrol \in PatrolStatus /\ q.op \in SiteOps /\ (q.op = "anpr" => q.row \in Visits)
  BY <1>1 DEF Visit, OwnPassage
<1>5. (q.patrol # "scheduled" => patrol # "scheduled")
      /\ (~ crossing => StillAsRead(v))
  BY <1>1 DEF PatrolSeen, SiteInv
<1>6. SiteTypeOK'
  <2>1. visitors' \subseteq Visitor
    <3>1. PICK b \in BOOLEAN : b = Blacklisted
      BY DEF Blacklisted
    <3>2. [id |-> q.row, status |-> "approved", banned |-> b] \in Visitor
          /\ [id |-> q.row, status |-> q.to, banned |-> b] \in Visitor
      BY <1>4 DEF Visitor, VisitorStatus
    <3>3. \A x \in visitors : [x EXCEPT !.status = q.to] \in Visitor /\ x \in Visitor
      BY <1>4 DEF SiteInv, SiteTypeOK, Visitor
    <3>4. VisitorsAfter(q) \subseteq Visitor
      BY <3>1, <3>2, <3>3 DEF VisitorsAfter
    <3> QED BY <3>4, <1>2
  <2>2. vehicles' \subseteq Vehicle
    BY <1>2, <1>4 DEF SiteInv, SiteTypeOK, VehiclesAfter, Vehicle
  <2>3. passages' \subseteq Passage
    <3>1. PICK b \in BOOLEAN, c \in BOOLEAN :
            b = (~ q.was) /\ c = (\E x \in vehicles : x.listed)
      BY <1>4
    <3>2. q.op = "anpr" => [id |-> q.row, authorized |-> b, listed |-> c] \in Passage
      BY <1>4 DEF Passage
    <3>3. PassagesAfter(q) \subseteq passages \cup {[id |-> q.row, authorized |-> b, listed |-> c]}
          /\ (q.op # "anpr" => PassagesAfter(q) = passages)
      BY <3>1 DEF PassagesAfter
    <3> QED BY <3>2, <3>3, <1>2 DEF SiteInv, SiteTypeOK
  <2>4. patrol' \in PatrolStatus
    BY <1>2, <1>4 DEF SiteInv, SiteTypeOK, PatrolAfter, PatrolStatus
  <2>5. scans' \subseteq Visits /\ finished' \in BOOLEAN /\ crossing' \in BOOLEAN
    BY <1>2 DEF SiteInv, SiteTypeOK
  <2> QED BY <2>1, <2>2, <2>3, <2>4, <2>5, <1>3 DEF SiteTypeOK
<1>7. patrol # "scheduled" => patrol' # "scheduled"
  BY <1>2 DEF PatrolAfter
<1>8. q.op \in {"scan", "complete"} => patrol' # "scheduled"
  BY <1>2, <1>5 DEF PatrolAfter
<1>9. ScansStartPatrol'
  BY <1>2, <1>7, <1>8 DEF SiteInv, SiteInOrder, ScansStartPatrol
<1>10. SerialSite'
  <2> SUFFICES ASSUME ~ crossing
               PROVE  /\ finished' => patrol' = "completed"
                      /\ \A p \in passages' : p.authorized <=> ~ p.listed
                      /\ \A x \in visitors' : ~ x.banned
    BY <1>2 DEF SerialSite
  <2>1. /\ finished => patrol = "completed"
        /\ \A p \in passages : p.authorized <=> ~ p.listed
        /\ \A x \in visitors : ~ x.banned
        /\ q.patrol = patrol /\ (q.op = "register" => ~ Blacklisted)
        /\ q.op = "anpr" => (q.was <=> \E x \in vehicles : x.listed)
    BY <1>5 DEF SiteInv, SiteInOrder, SerialSite, StillAsRead
  <2>2. finished' => patrol' = "completed"
    BY <1>2, <2>1 DEF PatrolAfter
  <2>3. \A p \in passages' : p.authorized <=> ~ p.listed
    <3>1. PICK b \in BOOLEAN, c \in BOOLEAN :
            b = (~ q.was) /\ c = (\E x \in vehicles : x.listed)
      BY <1>4
    <3>2. passages' = IF q.op # "anpr" THEN passages
                      ELSE passages \cup {[id |-> q.row, authorized |-> b, listed |-> c]}
      BY <1>2, <3>1 DEF PassagesAfter
    <3>3. q.op = "anpr" => (b <=> ~ c)
      BY <2>1, <3>1
    <3>4. PICK new : new = [id |-> q.row, authorized |-> b, listed |-> c]
      OBVIOUS
    <3>5. q.op = "anpr" => (new.authorized <=> ~ new.listed)
      BY <3>3, <3>4
    <3>6. \A p \in passages' : p \in passages \/ (q.op = "anpr" /\ p = new)
      BY <3>2, <3>4
    <3> QED BY <3>5, <3>6, <2>1
  <2>4. \A x \in visitors' : ~ x.banned
    BY <1>2, <1>4, <2>1 DEF VisitorsAfter, SiteInv, SiteTypeOK, Visitor
  <2> QED BY <2>2, <2>3, <2>4
<1>11. ASSUME NEW w \in Visits, Present(w)' PROVE OwnPassage(w)' /\ PatrolSeen(w)'
  BY <1>3, <1>7, <1>11 DEF SiteInv, OwnPassage, PatrolSeen
<1>12. ~ crossing => \A w \in Visits : ~ Present(w)'
  BY <1>1, <1>3 DEF SiteInv
<1> QED BY <1>2, <1>6, <1>9, <1>10, <1>11, <1>12 DEF SiteInv, SiteInOrder

\* A request that gives up changes nothing.
LEMMA GiveUpStep ==
    ASSUME SiteInv, NEW v \in Visits, GiveUp(v)
    PROVE  SiteInv'
<1>1. /\ visit' \in [Visits -> Visit \cup {Away, Over}]
      /\ \A w \in Visits : Present(w)' => w # v /\ Present(w) /\ visit'[w] = visit[w]
      /\ UNCHANGED <<visitors, vehicles, passages, patrol, scans, finished, crossing>>
  BY SiteEnds DEF GiveUp
<1>2. SiteTypeOK' /\ SiteInOrder'
  BY <1>1 DEF SiteInv, SiteTypeOK, SiteInOrder, ScansStartPatrol, SerialSite
<1> QED BY <1>1, <1>2 DEF SiteInv, OwnPassage, PatrolSeen, StillAsRead, Blacklisted

\* So it holds in every state of the site.
LEMMA SiteInvariant == SiteSpec => []SiteInv
<1>1. SiteInv /\ [SiteNext]_siteVars => SiteInv'
  <2> SUFFICES ASSUME SiteInv, [SiteNext]_siteVars PROVE SiteInv'
    OBVIOUS
  <2>1. ASSUME NEW v \in Visits,
               \/ Register(v) \/ SetStatus(v) \/ AddVehicle(v) \/ Watchlist(v) \/ Anpr(v)
               \/ Scan(v) \/ Complete(v) \/ Save(v) \/ GiveUp(v)
        PROVE  SiteInv'
    BY <2>1, ReadSteps, SaveStep, GiveUpStep
  <2>2. CASE UNCHANGED siteVars
    BY <2>2 DEF siteVars, SiteInv, SiteTypeOK, SiteInOrder, ScansStartPatrol, SerialSite,
       Present, OwnPassage, PatrolSeen, StillAsRead, Blacklisted
  <2> QED BY <2>1, <2>2 DEF SiteNext
<1> QED BY <1>1, SiteInitInv, PTL DEF SiteSpec

\* A patrol that was scanned or completed is never back at its schedule, and
\* requests that come one at a time keep to the blacklist and the watchlist
\* (physical_service.py).
THEOREM SiteAlwaysInOrder == SiteSpec => [](SiteTypeOK /\ SiteInOrder)
BY SiteInvariant, PTL DEF SiteInv

-------------------------------------------------------------------------------
(* The estate.                                                             *)

\* What a request is about decides which locks it takes.
ModeOf(op) == CASE op = "create" -> {"share"} [] op = "update" -> {"update"}
                [] op = "delete" -> {"update", "delete"}

\* A lock of c.
Locked(c, row, mode) == [by |-> c, row |-> row, mode |-> mode] \in rowLocks

\* A request in the middle takes the locks of its operation, and has taken all
\* of them when it comes to its audit entry.
Taking(c) ==
    /\ clerk[c].pc = "rows" => clerk[c].next \in clerk[c].todo
    /\ clerk[c].pc # "rows" => clerk[c].todo = {}
    /\ \A w \in clerk[c].todo : w.mode \in ModeOf(clerk[c].op)

\* Locks belong to requests in the middle, and are of their operation.
LocksOwned ==
    \A l \in rowLocks : Working(l.by) /\ l.mode \in ModeOf(clerk[l.by].op)

\* No two requests hold locks of a row that exclude each other.
LocksAgree ==
    \A l, k \in rowLocks : l.by # k.by /\ l.row = k.row => Compatible(l.mode, k.mode)

\* What a creation refers to stands, and its lock is shared, or is still to be.
Referred(c) ==
    clerk[c].op = "create" =>
      \A id \in clerk[c].row.above \cup ({clerk[c].row.link} \ {Nil}) :
        \/ [row |-> id, mode |-> "share"] \in clerk[c].todo
        \/ id \in Standing /\ Locked(c, id, "share")

\* What is below a row to be deleted is to be deleted too.
Swept(c) ==
    \A x \in estate : \A id \in x.above : Locked(c, id, "delete") =>
        \/ [row |-> x.id, mode |-> "delete"] \in clerk[c].todo
        \/ Locked(c, x.id, "delete")

\* An update takes one lock.
OneLock(c) ==
    clerk[c].op = "update" /\ clerk[c].pc = "rows" =>
        /\ clerk[c].todo = {clerk[c].next}
        /\ \A l \in rowLocks : l.by # c

\* All of a request in the middle.
Sound(c) == Taking(c) /\ Referred(c) /\ Swept(c) /\ OneLock(c)

\* The invariant of the argument.
EstateInv ==
    /\ EstateTypeOK /\ NothingDangles /\ LocksOwned /\ LocksAgree
    /\ \A c \in Clerks : Working(c) => Sound(c)

-------------------------------------------------------------------------------
\* At first nobody works, and the founded rows refer to founded rows.
LEMMA EstateInitInv == EstateInit => EstateInv
BY FoundedAssumption
DEF EstateInit, EstateInv, EstateTypeOK, NothingDangles, LocksOwned, LocksAgree, Working, Off,
    Standing

\* The pc of a request tells that it is one.
LEMMA WorkingTyped ==
    ASSUME EstateTypeOK, NEW c \in Clerks, Working(c)
    PROVE  clerk[c] \in Clerk
BY DEF EstateTypeOK, Working, Off, Home

\* A request begins with the locks it has to take.
LEMMA EnterStep ==
    ASSUME EstateInv, NEW c \in Clerks, NEW op \in {"create", "update", "delete"},
           NEW row \in Holding, NEW todo \in SUBSET Want, Enter(c, op, row, todo),
           \A w \in todo : w.mode \in ModeOf(op),
           op = "create" => \A id \in row.above \cup ({row.link} \ {Nil}) :
                               [row |-> id, mode |-> "share"] \in todo,
           op = "update" => \E w \in todo : todo = {w}
    PROVE  EstateInv'
<1>1. PICK w \in Want :
        /\ todo # {} => w \in todo
        /\ clerk' = [clerk EXCEPT ![c] =
             [op |-> op, pc |-> IF todo = {} THEN "audit" ELSE "rows", row |-> row,
              todo |-> todo, next |-> w]]
  BY DEF Enter, Want, Modes, Ids
<1>2. UNCHANGED <<estate, rowLocks, removals>> /\ ~ Working(c)
  BY DEF Enter, Working, Off
<1>3. \A l \in rowLocks : l.by # c
  BY <1>2 DEF EstateInv, LocksOwned
<1>4. PICK q : q = [op |-> op, pc |-> IF todo = {} THEN "audit" ELSE "rows", row |-> row,
                    todo |-> todo, next |-> w]
  OBVIOUS
<1>5. q \in Clerk /\ clerk' = [clerk EXCEPT ![c] = q]
  BY <1>1, <1>4 DEF Clerk
<1>6. /\ clerk'[c] = q /\ \A d \in Clerks \ {c} : clerk'[d] = clerk[d]
      /\ EstateTypeOK'
  BY <1>2, <1>5 DEF EstateInv, EstateTypeOK
<1>7. /\ q.op = op /\ q.pc \in {"rows", "audit"} /\ (q.pc = "rows" <=> todo # {})
      /\ q.row = row /\ q.todo = todo /\ q.next = w
  BY <1>4
<1>8. NothingDangles' /\ LocksAgree' /\ Standing' = Standing
  BY <1>2 DEF EstateInv, NothingDangles, LocksAgree, Standing
<1>9. LocksOwned'
  BY <1>2, <1>3, <1>6 DEF EstateInv, EstateTypeOK, LocksOwned, Working
<1>10. Taking(c)'
  BY <1>1, <1>6, <1>7 DEF Taking
<1>11. Referred(c)'
  BY <1>6, <1>7 DEF Referred
<1>12. Swept(c)'
  BY <1>2, <1>3 DEF Swept, Locked
<1>13. OneLock(c)'
  BY <1>1, <1>2, <1>3, <1>6, <1>7 DEF OneLock
<1>14. ASSUME NEW d \in Clerks \ {c}, Working(d)' PROVE Sound(d)'
  BY <1>2, <1>6, <1>8, <1>14
  DEF EstateInv, Working, Sound, Taking, Referred, Swept, OneLock, Locked
<1>15. QED
  BY <1>6, <1>8, <1>9, <1>10, <1>11, <1>12, <1>13, <1>14 DEF EstateInv, Sound

\* The locks of an INSERT are those of the rows it refers to.
LEMMA InsertStep ==
    ASSUME EstateInv, NEW c \in Clerks, NEW kind \in Kinds, Insert(c, kind)
    PROVE  EstateInv'
<1>1. PICK above \in SUBSET IdsOf(Above(kind)), link \in IdsOf(Beside(kind)) \cup {Nil} :
        Enter(c, "create", [id |-> c, kind |-> kind, above |-> above, link |-> link],
              [row : above \cup ({link} \ {Nil}), mode : {"share"}])
  BY DEF Insert
<1>2. \A kinds : IdsOf(kinds) \subseteq Ids
  BY DEF IdsOf, EstateInv, EstateTypeOK, Holding
<1>3. above \subseteq Ids /\ link \in Ids \cup {Nil}
  BY <1>1, <1>2
<1>4. PICK row : row = [id |-> c, kind |-> kind, above |-> above, link |-> link]
  OBVIOUS
<1>5. PICK todo : todo = [row : above \cup ({link} \ {Nil}), mode : {"share"}]
  OBVIOUS
<1>6. row \in Holding /\ row.above = above /\ row.link = link
  BY <1>3, <1>4 DEF Holding, Ids
<1>7. todo \in SUBSET Want
  BY <1>3, <1>5 DEF Want, Modes
<1>8. /\ \A w \in todo : w.mode \in ModeOf("create")
      /\ \A id \in row.above \cup ({row.link} \ {Nil}) : [row |-> id, mode |-> "share"] \in todo
  BY <1>5, <1>6 DEF ModeOf
<1>9. QED
  BY <1>1, <1>4, <1>5, <1>6, <1>7, <1>8, EnterStep

\* The lock of an UPDATE is that of the row it is about.
LEMMA AmendStep ==
    ASSUME EstateInv, NEW c \in Clerks, NEW kind \in Kinds, Amend(c, kind)
    PROVE  EstateInv'
<1>1. PICK x \in estate : Enter(c, "update", x, {[row |-> x.id, mode |-> "update"]})
  BY DEF Amend
<1>2. x \in Holding /\ x.id \in Ids
  BY DEF EstateInv, EstateTypeOK, Holding
<1>3. PICK todo : todo = {[row |-> x.id, mode |-> "update"]}
  OBVIOUS
<1>4. todo \in SUBSET Want /\ \A w \in todo : w.mode \in ModeOf("update")
  BY <1>2, <1>3 DEF Want, Modes, ModeOf
<1>5. \E w \in todo : todo = {w}
  BY <1>3
<1>6. QED
  BY <1>1, <1>2, <1>3, <1>4, <1>5, EnterStep

\* A deletion begins with what the session loaded.
LEMMA RemoveStep ==
    ASSUME EstateInv, NEW c \in Clerks, NEW kind \in Kinds, Remove(c, kind)
    PROVE  EstateInv'
<1>1. PICK x \in estate, loaded \in SUBSET {y.id : y \in estate} :
        Enter(c, "delete", x, [row : loaded \cup {x.id}, mode : {"delete"}])
  BY DEF Remove
<1>2. x \in Holding /\ x.id \in Ids /\ loaded \subseteq Ids
  BY DEF EstateInv, EstateTypeOK, Holding
<1>3. PICK todo : todo = [row : loaded \cup {x.id}, mode : {"delete"}]
  OBVIOUS
<1>4. todo \in SUBSET Want /\ \A w \in todo : w.mode \in ModeOf("delete")
  BY <1>2, <1>3 DEF Want, Modes, ModeOf
<1>5. QED
  BY <1>1, <1>2, <1>3, <1>4, EnterStep

-------------------------------------------------------------------------------
(* The locks.                                                              *)

\* What a request holds are its locks.
LEMMA MineLocked ==
    ASSUME EstateTypeOK, NEW c, NEW row, NEW mode
    PROVE  [row |-> row, mode |-> mode] \in Mine(c) <=> Locked(c, row, mode)
<1>1. ASSUME [row |-> row, mode |-> mode] \in Mine(c) PROVE Locked(c, row, mode)
  <2>1. PICK l \in rowLocks : l.by = c /\ [row |-> row, mode |-> mode] = [row |-> l.row, mode |-> l.mode]
    BY <1>1 DEF Mine
  <2>2. l.row = row /\ l.mode = mode
    BY <2>1
  <2>3. l = [by |-> l.by, row |-> l.row, mode |-> l.mode]
    BY DEF EstateTypeOK
  <2>4. QED
    BY <2>1, <2>2, <2>3 DEF Locked
<1>2. ASSUME Locked(c, row, mode) PROVE [row |-> row, mode |-> mode] \in Mine(c)
  <2>1. PICK l \in rowLocks : l = [by |-> c, row |-> row, mode |-> mode]
    BY <1>2 DEF Locked
  <2>2. l.by = c /\ l.row = row /\ l.mode = mode
    BY <2>1
  <2>3. QED
    BY <2>1, <2>2 DEF Mine
<1>3. QED
  BY <1>1, <1>2

\* What is left to take, and what is taken next.
LEMMA OnwardTyped ==
    ASSUME EstateTypeOK, NEW c \in Clerks, clerk[c].pc = "rows", NEW rest \in SUBSET Want,
           Onward(c, rest)
    PROVE  \E q \in Clerk : /\ clerk' = [clerk EXCEPT ![c] = q]
                            /\ q.op = clerk[c].op /\ q.row = clerk[c].row /\ q.todo = rest
                            /\ IF rest = {} THEN q.pc = "audit"
                               ELSE q.pc = "rows" /\ q.next \in rest
<1>1. clerk[c] \in Clerk /\ clerk \in [Clerks -> Clerk \cup {Off, Home}]
  BY WorkingTyped DEF Working, EstateTypeOK
<1>2. CASE rest = {}
  <2>1. PICK q : q = [clerk[c] EXCEPT !.todo = {}, !.pc = "audit"]
    OBVIOUS
  <2>2. q \in Clerk /\ q.op = clerk[c].op /\ q.row = clerk[c].row /\ q.todo = {} /\ q.pc = "audit"
    BY <1>1, <2>1 DEF Clerk
  <2>3. clerk' = [clerk EXCEPT ![c] = q]
    BY <1>1, <1>2, <2>1 DEF Onward
  <2>4. QED
    BY <1>2, <2>2, <2>3
<1>3. CASE rest # {}
  <2>1. PICK w \in rest : clerk' = [clerk EXCEPT ![c].todo = rest, ![c].next = w]
    BY <1>3 DEF Onward
  <2>2. PICK q : q = [clerk[c] EXCEPT !.todo = rest, !.next = w]
    OBVIOUS
  <2>3. q \in Clerk /\ q.op = clerk[c].op /\ q.row = clerk[c].row /\ q.todo = rest
        /\ q.pc = "rows" /\ q.next = w
    BY <1>1, <2>1, <2>2 DEF Clerk
  <2>4. clerk' = [clerk EXCEPT ![c] = q]
    BY <1>1, <2>1, <2>2
  <2>5. QED
    BY <1>3, <2>1, <2>3, <2>4
<1>4. QED
  BY <1>2, <1>3

\* The lock that is taken excludes none that another request has.
LEMMA TakeRowStep ==
    ASSUME EstateInv, NEW c \in Clerks, TakeRow(c)
    PROVE  EstateInv'
<1> DEFINE w == clerk[c].next
           new == [by |-> c, row |-> w.row, mode |-> w.mode]
           more == IF w.mode = "delete" THEN Reached(w.row) \ Mine(c) ELSE {}
           rest == (clerk[c].todo \ {w}) \cup more
<1>1. /\ clerk[c].pc = "rows" /\ Opposing(c) = {} /\ w.row \in Standing
      /\ rowLocks' = rowLocks \cup {new} /\ Onward(c, rest) /\ UNCHANGED <<estate, removals>>
  BY DEF TakeRow
<1>2. Working(c) /\ clerk[c] \in Clerk /\ Sound(c) /\ w \in clerk[c].todo /\ w \in Want
  BY <1>1, WorkingTyped DEF Working, EstateInv, Sound, Taking, Clerk
<1>3. w.row \in Ids /\ w.mode \in Modes /\ w = [row |-> w.row, mode |-> w.mode]
  BY <1>2 DEF Want
<1>4. /\ w.mode \in ModeOf(clerk[c].op)
      /\ \A v \in clerk[c].todo : v.mode \in ModeOf(clerk[c].op)
      /\ clerk[c].op \in {"create", "update", "delete"}
  BY <1>2 DEF Sound, Taking, Clerk
<1>5. w.mode = "delete" => clerk[c].op = "delete"
  BY <1>4 DEF ModeOf
<1>6. /\ more \in SUBSET Want
      /\ \A v \in more : clerk[c].op = "delete" /\ v.mode \in {"delete", "update"}
  BY <1>5 DEF Reached, Want, Modes, EstateInv, EstateTypeOK, Holding
<1>7. rest \in SUBSET Want
  BY <1>2, <1>6 DEF Clerk
<1>8. PICK q \in Clerk : /\ clerk' = [clerk EXCEPT ![c] = q]
                         /\ q.op = clerk[c].op /\ q.row = clerk[c].row /\ q.todo = rest
                         /\ IF rest = {} THEN q.pc = "audit" ELSE q.pc = "rows" /\ q.next \in rest
  BY <1>1, <1>7, OnwardTyped DEF EstateInv
<1>9. clerk'[c] = q /\ \A d \in Clerks \ {c} : clerk'[d] = clerk[d]
  BY <1>8 DEF EstateInv, EstateTypeOK
<1>10. new.by = c /\ new.row = w.row /\ new.mode = w.mode
       /\ new \in [by : Clerks, row : Ids, mode : Modes]
  BY <1>3
<1>11. EstateTypeOK'
  <2>1. rowLocks' \subseteq [by : Clerks, row : Ids, mode : Modes]
    BY <1>1, <1>10 DEF EstateInv, EstateTypeOK
  <2>2. QED
    BY <1>1, <1>8, <2>1 DEF EstateInv, EstateTypeOK
<1>12. NothingDangles' /\ Standing' = Standing
  BY <1>1 DEF EstateInv, NothingDangles, Standing
<1>13. Working(c)' /\ \A d \in Clerks : Working(d)' => Working(d)
  BY <1>2, <1>8, <1>9 DEF Working
<1>14. LocksOwned'
  BY <1>1, <1>4, <1>8, <1>9, <1>10, <1>13 DEF EstateInv, EstateTypeOK, LocksOwned, Working
<1>15. LocksAgree'
  <2>1. \A k \in rowLocks : k.by # c /\ k.row = w.row => Compatible(k.mode, w.mode)
    BY <1>1 DEF Opposing
  <2>2. \A k \in rowLocks : Compatible(k.mode, w.mode) = Compatible(w.mode, k.mode)
    BY DEF Compatible
  <2>3. QED
    BY <1>1, <1>10, <2>1, <2>2 DEF EstateInv, LocksAgree
<1>16. Taking(c)'
  BY <1>4, <1>6, <1>8, <1>9 DEF Taking, ModeOf
<1>17. Referred(c)'
  <2>1. ASSUME clerk[c].op = "create",
               NEW id \in clerk[c].row.above \cup ({clerk[c].row.link} \ {Nil})
        PROVE  [row |-> id, mode |-> "share"] \in rest \/ (id \in Standing /\ Locked(c, id, "share")')
    <3>1. CASE [row |-> id, mode |-> "share"] = w
      BY <1>1, <3>1 DEF Locked
    <3>2. CASE [row |-> id, mode |-> "share"] # w
      BY <1>1, <1>2, <2>1, <3>2 DEF Sound, Referred, Locked
    <3>3. QED
      BY <3>1, <3>2
  <2>2. QED
    BY <1>8, <1>9, <1>12, <2>1 DEF Referred
<1>18. Swept(c)'
  <2>1. ASSUME NEW x \in estate, NEW id \in x.above, Locked(c, id, "delete")'
        PROVE  [row |-> x.id, mode |-> "delete"] \in rest \/ Locked(c, x.id, "delete")'
    <3>1. CASE id = w.row /\ w.mode = "delete"
      <4>1. [row |-> x.id, mode |-> "delete"] \in Reached(w.row)
        BY <2>1, <3>1 DEF Reached
      <4>2. [row |-> x.id, mode |-> "delete"] \in Mine(c) => Locked(c, x.id, "delete")
        BY MineLocked DEF EstateInv
      <4>3. QED
        BY <1>1, <3>1, <4>1, <4>2 DEF Locked
    <3>2. CASE ~ (id = w.row /\ w.mode = "delete")
      <4>1. Locked(c, id, "delete")
        BY <1>1, <1>10, <2>1, <3>2 DEF Locked
      <4>2. [row |-> x.id, mode |-> "delete"] \in clerk[c].todo \/ Locked(c, x.id, "delete")
        BY <1>2, <4>1 DEF Sound, Swept
      <4>3. QED
        BY <1>1, <4>2 DEF Locked
    <3>3. QED
      BY <3>1, <3>2
  <2>2. QED
    BY <1>1, <1>8, <1>9, <2>1 DEF Swept
<1>19. OneLock(c)'
  <2>1. clerk[c].op = "update" => rest = {}
    BY <1>1, <1>2, <1>5 DEF Sound, OneLock
  <2>2. QED
    BY <1>8, <1>9, <2>1 DEF OneLock
<1>20. ASSUME NEW d \in Clerks \ {c}, Working(d)' PROVE Sound(d)'
  <2>1. Sound(d) /\ clerk'[d] = clerk[d]
    BY <1>9, <1>13, <1>20 DEF EstateInv
  <2>2. \A row, mode : Locked(d, row, mode)' <=> Locked(d, row, mode)
    BY <1>1 DEF Locked
  <2>3. \A l \in rowLocks' : l.by = d => l \in rowLocks
    BY <1>1, <1>10
  <2>4. QED
    BY <1>1, <1>12, <2>1, <2>2, <2>3 DEF Sound, Taking, Referred, Swept, OneLock
<1>21. QED
  BY <1>11, <1>12, <1>14, <1>15, <1>16, <1>17, <1>18, <1>19, <1>20 DEF EstateInv, Sound

\* A row that is gone needs no lock.
LEMMA PassRowStep ==
    ASSUME EstateInv, NEW c \in Clerks, PassRow(c)
    PROVE  EstateInv'
<1> DEFINE w == clerk[c].next
           rest == clerk[c].todo \ {w}
<1>1. /\ clerk[c].pc = "rows" /\ clerk[c].op = "delete" /\ w.row \notin Standing
      /\ Onward(c, rest) /\ UNCHANGED <<estate, rowLocks, removals>>
  BY DEF PassRow
<1>2. Working(c) /\ clerk[c] \in Clerk /\ Sound(c)
  BY <1>1, WorkingTyped DEF Working, EstateInv
<1>3. rest \in SUBSET Want
  BY <1>2 DEF Clerk
<1>4. PICK q \in Clerk : /\ clerk' = [clerk EXCEPT ![c] = q]
                         /\ q.op = clerk[c].op /\ q.row = clerk[c].row /\ q.todo = rest
                         /\ IF rest = {} THEN q.pc = "audit" ELSE q.pc = "rows" /\ q.next \in rest
  BY <1>1, <1>3, OnwardTyped DEF EstateInv
<1>5. clerk'[c] = q /\ \A d \in Clerks \ {c} : clerk'[d] = clerk[d]
  BY <1>4 DEF EstateInv, EstateTypeOK
<1>6. EstateTypeOK'
  BY <1>1, <1>4 DEF EstateInv, EstateTypeOK
<1>7. NothingDangles' /\ LocksAgree' /\ Standing' = Standing
  BY <1>1 DEF EstateInv, NothingDangles, LocksAgree, Standing
<1>8. Working(c)' /\ \A d \in Clerks : Working(d)' => Working(d)
  BY <1>2, <1>4, <1>5 DEF Working
<1>9. LocksOwned'
  BY <1>1, <1>4, <1>5, <1>8 DEF EstateInv, EstateTypeOK, LocksOwned, Working
<1>10. Taking(c)'
  BY <1>2, <1>4, <1>5 DEF Sound, Taking
<1>11. Referred(c)' /\ OneLock(c)'
  BY <1>1, <1>4, <1>5 DEF Referred, OneLock
<1>12. Swept(c)'
  <2>1. ASSUME NEW x \in estate, [row |-> x.id, mode |-> "delete"] \in clerk[c].todo
        PROVE  [row |-> x.id, mode |-> "delete"] \in rest
    BY <1>1, <2>1 DEF Standing
  <2>2. QED
    BY <1>1, <1>2, <1>4, <1>5, <2>1 DEF Sound, Swept, Locked
<1>13. ASSUME NEW d \in Clerks \ {c}, Working(d)' PROVE Sound(d)'
  <2>1. Sound(d) /\ clerk'[d] = clerk[d]
    BY <1>5, <1>8, <1>13 DEF EstateInv
  <2>2. QED
    BY <1>1, <1>7, <2>1 DEF Sound, Taking, Referred, Swept, OneLock, Locked
<1>14. QED
  BY <1>6, <1>7, <1>9, <1>10, <1>11, <1>12, <1>13 DEF EstateInv, Sound

-------------------------------------------------------------------------------
(* The audit entry and the end.                                            *)

\* The audit entry leaves the locks of rows alone.
LEMMA EstateRecordStep ==
    ASSUME EstateInv, NEW c \in Clerks, RecordClerk(c)
    PROVE  EstateInv'
<1>1. /\ clerk[c].pc = "audit" /\ clerk' = [clerk EXCEPT ![c].pc = "commit"]
      /\ UNCHANGED <<estate, rowLocks, removals>>
  BY DEF RecordClerk
<1>2. Working(c) /\ clerk[c] \in Clerk /\ Sound(c)
  BY <1>1, WorkingTyped DEF Working, EstateInv
<1>3. PICK q : q = [clerk[c] EXCEPT !.pc = "commit"]
  OBVIOUS
<1>4. /\ q \in Clerk /\ q.pc = "commit"
      /\ q.op = clerk[c].op /\ q.row = clerk[c].row /\ q.todo = clerk[c].todo
  BY <1>2, <1>3 DEF Clerk
<1>5. /\ clerk' = [clerk EXCEPT ![c] = q] /\ clerk'[c] = q
      /\ \A d \in Clerks \ {c} : clerk'[d] = clerk[d]
  BY <1>1, <1>3 DEF EstateInv, EstateTypeOK
<1>6. EstateTypeOK'
  BY <1>1, <1>4, <1>5 DEF EstateInv, EstateTypeOK
<1>7. NothingDangles' /\ LocksAgree' /\ Standing' = Standing
  BY <1>1 DEF EstateInv, NothingDangles, LocksAgree, Standing
<1>8. Working(c)' /\ \A d \in Clerks : Working(d)' => Working(d)
  BY <1>2, <1>4, <1>5 DEF Working
<1>9. LocksOwned'
  BY <1>1, <1>4, <1>5, <1>8 DEF EstateInv, EstateTypeOK, LocksOwned, Working
<1>10. Sound(c)'
  BY <1>1, <1>2, <1>4, <1>5, <1>7 DEF Sound, Taking, Referred, Swept, OneLock, Locked
<1>11. ASSUME NEW d \in Clerks \ {c}, Working(d)' PROVE Sound(d)'
  <2>1. Sound(d) /\ clerk'[d] = clerk[d]
    BY <1>5, <1>8, <1>11 DEF EstateInv
  <2>2. QED
    BY <1>1, <1>7, <2>1 DEF Sound, Taking, Referred, Swept, OneLock, Locked
<1>12. QED
  BY <1>6, <1>7, <1>9, <1>10, <1>11 DEF EstateInv

\* Who leaves gives its locks back, and nobody else's.
LEMMA LeaveStep ==
    ASSUME EstateInv, NEW c \in Clerks, Leave(c)
    PROVE  /\ rowLocks' \subseteq [by : Clerks, row : Ids, mode : Modes]
           /\ clerk' \in [Clerks -> Clerk \cup {Off, Home}]
           /\ LocksOwned' /\ LocksAgree' /\ ~ Working(c)'
           /\ \A d \in Clerks \ {c} : /\ clerk'[d] = clerk[d]
                                       /\ \A row, mode : Locked(d, row, mode)' <=> Locked(d, row, mode)
           /\ \A l \in rowLocks' : l \in rowLocks
<1>1. /\ clerk' = [clerk EXCEPT ![c] = Home] /\ rowLocks' = {l \in rowLocks : l.by # c}
      /\ EstateTypeOK
  BY DEF Leave, EstateInv
<1>2. clerk' \in [Clerks -> Clerk \cup {Off, Home}] /\ clerk'[c] = Home
      /\ \A d \in Clerks \ {c} : clerk'[d] = clerk[d]
  BY <1>1 DEF EstateTypeOK
<1>3. \A d \in Clerks \ {c} : \A row, mode : Locked(d, row, mode)' <=> Locked(d, row, mode)
  BY <1>1 DEF Locked
<1>4. \A l \in rowLocks' : l \in rowLocks /\ l.by # c
  BY <1>1
<1>5. LocksOwned'
  BY <1>2, <1>4 DEF EstateInv, EstateTypeOK, LocksOwned, Working
<1>6. LocksAgree'
  BY <1>4 DEF EstateInv, LocksAgree
<1>7. ~ Working(c)'
  BY <1>2 DEF Working, Home
<1>8. QED
  BY <1>1, <1>2, <1>3, <1>4, <1>5, <1>6, <1>7 DEF EstateTypeOK

\* A rollback changes no row.
LEMMA EstateAbortStep ==
    ASSUME EstateInv, NEW c \in Clerks, AbortClerk(c)
    PROVE  EstateInv'
<1>1. Leave(c) /\ UNCHANGED <<estate, removals>>
  BY DEF AbortClerk
<1>2. EstateTypeOK' /\ NothingDangles' /\ Standing' = Standing
  BY <1>1, LeaveStep DEF EstateInv, EstateTypeOK, NothingDangles, Standing
<1>3. ASSUME NEW d \in Clerks, Working(d)' PROVE Sound(d)'
  <2>1. d # c /\ clerk'[d] = clerk[d] /\ Sound(d)
    BY <1>1, <1>3, LeaveStep DEF EstateInv, Working
  <2>2. QED
    BY <1>1, <1>2, <2>1, LeaveStep DEF Sound, Taking, Referred, Swept, OneLock
<1>4. QED
  BY <1>1, <1>2, <1>3, LeaveStep DEF EstateInv

\* A creation commits a row that hangs on rows whose locks it shares.
LEMMA CreateStep ==
    ASSUME EstateInv, NEW c \in Clerks, CommitClerk(c), clerk[c].op = "create"
    PROVE  EstateInv'
<1> DEFINE row == clerk[c].row
<1>1. /\ clerk[c].pc = "commit" /\ estate' = estate \cup {row}
      /\ removals' = removals /\ Leave(c)
  BY DEF CommitClerk
<1>2. Working(c) /\ clerk[c] \in Clerk /\ Sound(c) /\ clerk[c].todo = {}
  BY <1>1, WorkingTyped DEF Working, EstateInv, Sound, Taking
<1>3. row \in Holding /\ row.id \in Ids /\ row.above \subseteq Ids /\ row.link \in Ids \cup {Nil}
  BY <1>2 DEF Clerk, Holding
<1>4. \A id \in row.above \cup ({row.link} \ {Nil}) : id \in Standing /\ Locked(c, id, "share")
  BY <1>2 DEF Sound, Referred
<1>5. Standing \subseteq Standing'
  BY <1>1 DEF Standing
<1>6. NothingDangles'
  BY <1>1, <1>4, <1>5 DEF EstateInv, NothingDangles
<1>7. EstateTypeOK'
  BY <1>1, <1>3, LeaveStep DEF EstateInv, EstateTypeOK
<1>8. ASSUME NEW d \in Clerks, Working(d)' PROVE Sound(d)'
  <2>1. d # c /\ clerk'[d] = clerk[d] /\ Sound(d)
    BY <1>1, <1>8, LeaveStep DEF EstateInv, Working
  <2>2. \A id \in row.above : ~ Locked(d, id, "delete")
    <3>1. ASSUME NEW id \in row.above, Locked(d, id, "delete") PROVE FALSE
      <4>1. Locked(c, id, "share")
        BY <1>4
      <4>2. Compatible("share", "delete")
        BY <2>1, <3>1, <4>1 DEF Locked, EstateInv, LocksAgree
      <4>3. QED
        BY <4>2 DEF Compatible
    <3>2. QED
      BY <3>1
  <2>3. Taking(d)' /\ Referred(d)' /\ OneLock(d)'
    BY <1>1, <1>5, <2>1, LeaveStep DEF Sound, Taking, Referred, OneLock
  <2>4. Swept(d)'
    BY <1>1, <2>1, <2>2, LeaveStep DEF Sound, Swept
  <2>5. QED
    BY <2>3, <2>4 DEF Sound
<1>9. QED
  BY <1>1, <1>6, <1>7, <1>8, LeaveStep DEF EstateInv

\* What is left when rows are gone: the same rows with some links cleared.
LEMMA WithoutRows ==
    ASSUME EstateTypeOK, NEW gone
    PROVE  /\ Without(gone) \subseteq Holding
           /\ \A y \in Without(gone) : \E x \in estate :
                 /\ x.id \notin gone /\ y.id = x.id /\ y.above = x.above
                 /\ y.link = IF x.link \in gone THEN Nil ELSE x.link
           /\ {y.id : y \in Without(gone)} = Standing \ gone
<1> DEFINE Cleared(x) == [x EXCEPT !.link = IF @ \in gone THEN Nil ELSE @]
<1>1. \A x \in estate : /\ Cleared(x) \in Holding /\ Cleared(x).id = x.id
                         /\ Cleared(x).above = x.above
                         /\ Cleared(x).link = IF x.link \in gone THEN Nil ELSE x.link
  <2>1. \A x \in Holding : /\ Cleared(x) \in Holding /\ Cleared(x).id = x.id
                            /\ Cleared(x).above = x.above
                            /\ Cleared(x).link = IF x.link \in gone THEN Nil ELSE x.link
    BY DEF Holding
  <2>2. QED
    BY <2>1 DEF EstateTypeOK
<1>2. Without(gone) = {Cleared(x) : x \in {y \in estate : y.id \notin gone}}
  BY DEF Without
<1> HIDE DEF Cleared
<1>3. \A y \in Without(gone) : \E x \in estate : x.id \notin gone /\ y = Cleared(x)
  BY <1>2
<1>4. \A x \in estate : x.id \notin gone => Cleared(x) \in Without(gone)
  BY <1>2
<1>5. {y.id : y \in Without(gone)} = Standing \ gone
  BY <1>1, <1>3, <1>4 DEF Standing
<1>6. QED
  BY <1>1, <1>3, <1>5

\* The other commits: whatever hangs on a row that goes, goes with it, and
\* nobody shares its lock.
LEMMA DeleteStep ==
    ASSUME EstateInv, NEW c \in Clerks, CommitClerk(c), clerk[c].op # "create"
    PROVE  EstateInv'
<1> DEFINE gone == {w.row : w \in {v \in Mine(c) : v.mode = "delete"}}
<1>1. /\ clerk[c].pc = "commit" /\ estate' = Without(gone) /\ Leave(c)
      /\ removals' = IF clerk[c].op # "delete" THEN removals
                     ELSE removals \cup {<<c, clerk[c].row.id>>}
  BY DEF CommitClerk
<1>2. Working(c) /\ clerk[c] \in Clerk /\ Sound(c) /\ clerk[c].todo = {}
  BY <1>1, WorkingTyped DEF Working, EstateInv, Sound, Taking
<1>3. \A id : id \in gone <=> Locked(c, id, "delete")
  <2>1. ASSUME NEW id \in gone PROVE Locked(c, id, "delete")
    <3>1. PICK l \in rowLocks : l.by = c /\ l.row = id /\ l.mode = "delete"
      BY <2>1 DEF Mine
    <3>2. l = [by |-> l.by, row |-> l.row, mode |-> l.mode]
      BY DEF EstateInv, EstateTypeOK
    <3>3. QED
      BY <3>1, <3>2 DEF Locked
  <2>2. ASSUME NEW id, Locked(c, id, "delete") PROVE id \in gone
    <3>1. PICK w \in Mine(c) : w = [row |-> id, mode |-> "delete"]
      BY <2>2, MineLocked DEF EstateInv
    <3>2. w.row = id /\ w.mode = "delete"
      BY <3>1
    <3>3. QED
      BY <3>2
  <2>3. QED
    BY <2>1, <2>2
<1> HIDE DEF gone
<1>4. \A x \in estate : \A id \in x.above : id \in gone => x.id \in gone
  BY <1>2, <1>3 DEF Sound, Swept
<1>5. Standing' = Standing \ gone
  BY <1>1, WithoutRows DEF EstateInv, Standing
<1>6. \A y \in estate' : \E x \in estate :
         /\ x.id \notin gone /\ y.id = x.id /\ y.above = x.above
         /\ y.link = IF x.link \in gone THEN Nil ELSE x.link
  BY <1>1, WithoutRows DEF EstateInv
<1>7. NothingDangles'
  <2>1. ASSUME NEW y \in estate'
        PROVE  y.above \subseteq Standing \ gone /\ y.link \in (Standing \ gone) \cup {Nil}
    <3>1. PICK x \in estate : /\ x.id \notin gone /\ y.above = x.above
                              /\ y.link = IF x.link \in gone THEN Nil ELSE x.link
      BY <1>6
    <3>2. x.above \subseteq Standing /\ x.link \in Standing \cup {Nil}
      BY DEF EstateInv, NothingDangles
    <3>3. QED
      BY <1>4, <3>1, <3>2
  <2>2. QED
    BY <1>5, <2>1 DEF NothingDangles
<1>8. EstateTypeOK'
  <2>1. clerk[c].row.id \in Ids
    BY <1>2 DEF Clerk, Holding
  <2>2. estate' \subseteq Holding /\ removals' \subseteq Clerks \X Ids
    BY <1>1, <2>1, WithoutRows DEF EstateInv, EstateTypeOK
  <2>3. QED
    BY <1>1, <2>2, LeaveStep DEF EstateTypeOK
<1>9. ASSUME NEW d \in Clerks, Working(d)' PROVE Sound(d)'
  <2>1. d # c /\ clerk'[d] = clerk[d] /\ Sound(d)
    BY <1>1, <1>9, LeaveStep DEF EstateInv, Working
  <2>2. \A id : Locked(d, id, "share") => id \notin gone
    <3>1. ASSUME NEW id, Locked(d, id, "share"), Locked(c, id, "delete") PROVE FALSE
      <4>1. Compatible("share", "delete")
        BY <2>1, <3>1 DEF Locked, EstateInv, LocksAgree
      <4>2. QED
        BY <4>1 DEF Compatible
    <3>2. QED
      BY <1>3, <3>1
  <2>3. Taking(d)' /\ OneLock(d)'
    BY <1>1, <2>1, LeaveStep DEF Sound, Taking, OneLock
  <2>4. Referred(d)'
    BY <1>1, <1>5, <2>1, <2>2, LeaveStep DEF Sound, Referred
  <2>5. Swept(d)'
    <3>1. ASSUME NEW y \in estate', NEW id \in y.above, Locked(d, id, "delete")
          PROVE  [row |-> y.id, mode |-> "delete"] \in clerk[d].todo \/ Locked(d, y.id, "delete")
      BY <1>6, <2>1, <3>1 DEF Sound, Swept
    <3>2. QED
      BY <1>1, <2>1, <3>1, LeaveStep DEF Swept
  <2>6. QED
    BY <2>3, <2>4, <2>5 DEF Sound
<1>10. QED
  BY <1>1, <1>7, <1>8, <1>9, LeaveStep DEF EstateInv

\* One case per action.
LEMMA EstateNextInv == EstateInv /\ [EstateNext]_estateVars => EstateInv'
<1> SUFFICES ASSUME EstateInv, [EstateNext]_estateVars PROVE EstateInv'
  OBVIOUS
<1>1. ASSUME NEW c \in Clerks, NEW kind \in Kinds,
             Insert(c, kind) \/ Amend(c, kind) \/ Remove(c, kind)
      PROVE  EstateInv'
  BY <1>1, InsertStep, AmendStep, RemoveStep
<1>2. ASSUME NEW c \in Clerks,
             \/ CreateOrg(c) \/ CreateBranch(c) \/ CreateDepartment(c) \/ CreateSite(c)
             \/ CreateBuilding(c) \/ CreateZone(c) \/ CreateCheckpoint(c)
             \/ UpdateOrg(c) \/ UpdateSite(c) \/ DeleteOrg(c) \/ DeleteSite(c) \/ DeleteZone(c)
      PROVE  EstateInv'
  BY <1>1, <1>2
  DEF Kinds, CreateOrg, CreateBranch, CreateDepartment, CreateSite, CreateBuilding, CreateZone,
      CreateCheckpoint, UpdateOrg, UpdateSite, DeleteOrg, DeleteSite, DeleteZone
<1>3. ASSUME NEW c \in Clerks, TakeRow(c) \/ PassRow(c) \/ RecordClerk(c) PROVE EstateInv'
  BY <1>3, TakeRowStep, PassRowStep, EstateRecordStep
<1>4. ASSUME NEW c \in Clerks, Missed(c) \/ CommitClerk(c) \/ AbortClerk(c) \/ VictimClerk(c)
      PROVE  EstateInv'
  BY <1>4, CreateStep, DeleteStep, EstateAbortStep DEF Missed, VictimClerk
<1>5. CASE UNCHANGED estateVars
  BY <1>5
  DEF estateVars, EstateInv, EstateTypeOK, NothingDangles, LocksOwned, LocksAgree, Working, Sound,
      Taking, Referred, Swept, OneLock, Locked, Standing
<1>6. QED
  BY <1>2, <1>3, <1>4, <1>5 DEF EstateNext

-------------------------------------------------------------------------------
(* The theorems.                                                           *)

\* The invariant of the argument holds in every reachable state.
LEMMA EstateInvariant == EstateSpec => []EstateInv
BY EstateInitInv, EstateNextInv, PTL DEF EstateSpec

\* Every variable keeps its type: the rows, the locks, the requests.
THEOREM EstateTyped == EstateSpec => []EstateTypeOK
<1>1. EstateInv => EstateTypeOK
  BY DEF EstateInv
<1>2. QED
  BY <1>1, EstateInvariant, PTL

\* Who waits for the audit lock waits for one that waits for nobody, and
\* creations and updates alone never exclude each other in a circle.
LEMMA NoDeadlockWithoutDeletion == EstateInv => DeadlockNeedsDeletion
<1> SUFFICES ASSUME EstateInv, NEW S \in SUBSET Clerks, Stuck(S)
    PROVE  /\ \E c \in S : clerk[c].op = "delete" /\ clerk[c].pc = "rows"
           /\ Scribes \cap S = {}
  BY DEF DeadlockNeedsDeletion
<1>1. \A c \in S : Awaits(c) \cap S # {}
  BY DEF Stuck
<1>2. \A c \in S : clerk[c].pc \in {"rows", "audit"}
  BY <1>1 DEF Awaits
<1>3. Scribes \cap S = {}
  BY <1>2 DEF Scribes
<1>4. \A c \in S : clerk[c].pc = "rows" /\ Opposing(c) \cap S # {}
  BY <1>1, <1>2, <1>3 DEF Awaits
<1>5. \A c \in S : clerk[c] \in Clerk /\ Sound(c)
  BY <1>4, WorkingTyped DEF EstateInv, Working
<1>6. ASSUME \A c \in S : clerk[c].op # "delete" PROVE FALSE
  <2>1. PICK c \in S : TRUE
    BY DEF Stuck
  <2>2. PICK l \in rowLocks : l.by \in S /\ ~ Compatible(l.mode, clerk[c].next.mode)
    BY <1>4, <2>1 DEF Opposing
  <2>3. clerk[l.by].op = "create"
    BY <1>4, <1>5, <1>6, <2>2 DEF Sound, OneLock, Clerk
  <2>4. l.mode = "share"
    BY <2>3 DEF EstateInv, LocksOwned, ModeOf
  <2>5. clerk[c].next.mode \in {"share", "update"}
    BY <1>4, <1>5, <1>6, <2>1 DEF Sound, Taking, ModeOf, Clerk
  <2>6. QED
    BY <2>2, <2>4, <2>5 DEF Compatible
<1>7. QED
  BY <1>3, <1>4, <1>6

\* models/site.py, models/organization.py: whatever is created while it is
\* deleted, what a row refers to is there; and org_service.py can only come to
\* a deadlock over rows, with a deletion in it.
THEOREM EstateAlwaysHolds == EstateSpec => []EstateHolds
<1>1. EstateInv => EstateHolds
  BY NoDeadlockWithoutDeletion DEF EstateInv, EstateHolds
<1>2. QED
  BY <1>1, EstateInvariant, PTL

-------------------------------------------------------------------------------
(* The four of them side by side.                                          *)

\* A behaviour of the composition is one of each component.
THEOREM CaseworkIsEach == CaseworkSpec => Spec /\ ScanSpec /\ SiteSpec /\ EstateSpec
<1>1. CaseworkInit => Init /\ ScanInit /\ SiteInit /\ EstateInit
  BY DEF CaseworkInit
<1>2. [CaseworkNext]_<<vars, scanVars, siteVars, estateVars, side>> =>
        [Next]_vars /\ [ScanNext]_scanVars /\ [SiteNext]_siteVars /\ [EstateNext]_estateVars
  BY DEF CaseworkNext
<1> QED BY <1>1, <1>2, PTL DEF CaseworkSpec, Spec, ScanSpec, SiteSpec, EstateSpec

\* Every row, task, lock and request of the four has its type in every state.
THEOREM CaseworkTyped == CaseworkSpec => []CaseworkTypeOK
<1>1. TypeOK /\ ScanTypeOK /\ SiteTypeOK /\ EstateTypeOK => CaseworkTypeOK
  BY DEF CaseworkTypeOK
<1> QED BY <1>1, CaseworkIsEach, CaseAlwaysTold, AlertsAreSingle, SiteAlwaysInOrder,
           EstateTyped, PTL
===============================================================================
