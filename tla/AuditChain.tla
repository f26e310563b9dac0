----------------------------- MODULE AuditChain -----------------------------
(***************************************************************************)
(* The tamper-evident audit log: the insert trigger of audit_events,       *)
(* internal/audit (Verify, Anchor, AnchorSigned, CheckAgainstAnchor) and   *)
(* the audit step of internal/retention.                                   *)
(*                                                                         *)
(* The hash is ideal: the hash of a row is the sequence of the contents it *)
(* was computed over, so two hashes are equal exactly when they cover the  *)
(* same rows.  The trigger's advisory lock is held until commit, so an     *)
(* append is one step; created_at is when its transaction began.  Verify   *)
(* is four queries, each on what is committed when it runs.                *)
(***************************************************************************)
EXTENDS Naturals, Sequences, FiniteSets

CONSTANTS Events,      \* what an event says
          Verifiers,   \* concurrent verifications
          Retention,   \* Policy.AuditRetention
          MaxLag,      \* bound on the time a transaction takes to append
          MaxSeq,      \* bound on the sequence audit_events_seq
          MaxTime,     \* bound on the clock
          MaxDamage    \* bound on the changes made behind the program's back

ASSUME AuditAssumption ==
    /\ Retention \in Nat \ {0} /\ MaxLag \in Nat /\ MaxSeq \in Nat
    /\ MaxTime \in Nat /\ MaxDamage \in Nat

VARIABLES log,        \* audit_events in seq order
          nextSeq,    \* the sequence audit_events_seq
          watermark,  \* audit_chain_state
          anchor,     \* the latest row of audit_anchors
          shipped,    \* signed anchors kept off-box
          prune,      \* the open pruneAuditChained transaction
          verif,      \* what each verification holds
          now,
          written,    \* auxiliary: every row as it was appended, by seq
          damage,     \* auxiliary: how often the tables were changed from outside
          pruned      \* auxiliary: retention has deleted a row

vars == <<log, nextSeq, watermark, anchor, shipped, prune, verif, now,
          written, damage, pruned>>

None == [pc |-> "none"]
Genesis == << >>
Content(row) == [ev |-> row.ev, created |-> row.created]
RowHash(prev, content) == Append(prev, content)
-----------------------------------------------------------------------------
PrevHash(l) == IF l = << >> THEN Genesis ELSE l[Len(l)].hash

(* Mutant: currval in place of nextval.                                    *)
MutCurrval(ev, created) ==
    [seq |-> nextSeq - 1, ev |-> ev, created |-> created, prev |-> PrevHash(log),
     hash |-> RowHash(PrevHash(log), [ev |-> ev, created |-> created])]

NewRow(ev, created) ==
    [seq |-> nextSeq, ev |-> ev, created |-> created, prev |-> PrevHash(log),
     hash |-> RowHash(PrevHash(log), [ev |-> ev, created |-> created])]

AppendEvent(ev, lag) ==
    /\ nextSeq <= MaxSeq /\ lag <= now
    /\ log' = Append(log, NewRow(ev, now - lag))
    /\ written' = Append(written, NewRow(ev, now - lag))
    /\ nextSeq' = nextSeq + 1
    /\ UNCHANGED <<watermark, anchor, shipped, prune, verif, now, damage, pruned>>

Tick == /\ now < MaxTime
        /\ now' = now + 1
        /\ UNCHANGED <<log, nextSeq, watermark, anchor, shipped, prune, verif,
                       written, damage, pruned>>
-----------------------------------------------------------------------------
(* Verify, which runs alone (the admin page, which looks no further than   *)
(* phase store), before an anchor is stored, or, with ext, before the log  *)
(* is compared with an off-box record.  Two fields are auxiliary:          *)
(* overtaken, an anchor was stored, rows were pruned or the tables changed *)
(* from outside since the scan; skipped, the last query said nothing.      *)
Linked(rows, wm) ==
    \A i \in DOMAIN rows :
        /\ rows[i].prev = IF i = 1 THEN wm ELSE rows[i - 1].hash
        /\ rows[i].hash = RowHash(rows[i].prev, Content(rows[i]))

Move(v, rec) ==
    /\ verif' = [verif EXCEPT ![v] = rec]
    /\ UNCHANGED <<log, nextSeq, watermark, anchor, shipped, prune, now,
                   written, damage, pruned>>

Found(v) == Move(v, [verif[v] EXCEPT !.pc = "done", !.ok = FALSE])

Continue(v) == IF verif[v].ext = None THEN "store" ELSE "external"

VerifyScan(v, ext) ==
    /\ verif[v].pc \in {"none", "done"}
    /\ Move(v, [pc |-> "links", ext |-> ext, rows |-> log, against |-> None,
                ok |-> TRUE, overtaken |-> FALSE, skipped |-> FALSE])

VerifyLinks(v) ==
    /\ verif[v].pc = "links"
    /\ IF Linked(verif[v].rows, watermark)
       THEN Move(v, [verif[v] EXCEPT !.pc = "anchor"])
       ELSE Found(v)

Truncated(rows, a) == Len(rows) < a.count

VerifyAnchor(v) ==
    /\ verif[v].pc = "anchor"
    /\ CASE anchor = None -> Move(v, [verif[v] EXCEPT !.pc = Continue(v)])
         [] anchor # None /\ Truncated(verif[v].rows, anchor) -> Found(v)
         [] OTHER -> Move(v, [verif[v] EXCEPT !.pc = "prefix", !.against = anchor])

(* Mutant: the offset is the count.                                        *)
MutOffset(a) == a.count + 1

Offset(a) == a.count

(* Mutant: any row at the anchored position will do.                       *)
MutAnyHead(a) == Offset(a) \in DOMAIN log

SameHead(a) == Offset(a) \in DOMAIN log /\ log[Offset(a)].hash = a.head

(* A last query that fails or finds no row is passed over.                 *)
VerifyPrefix(v) ==
    /\ verif[v].pc = "prefix"
    /\ LET a == verif[v].against
       IN  \/ SameHead(a) /\ Move(v, [verif[v] EXCEPT !.pc = Continue(v)])
           \/ ~SameHead(a) /\ Offset(a) \in DOMAIN log /\ Found(v)
           \/ Move(v, [verif[v] EXCEPT !.pc = Continue(v), !.skipped = TRUE])

(* Any other query that fails, or a caller that goes no further.           *)
VerifyEnd(v) == verif[v].pc \notin {"none", "done", "prefix"} /\ Move(v, None)

Overtaken(c) ==
    IF c.pc \in {"none", "done"} THEN c ELSE [c EXCEPT !.overtaken = TRUE]

(* Anchor and AnchorSigned, after a verification that found nothing; an    *)
(* empty log is not anchored.                                              *)
StoreAnchor(v, signed) ==
    /\ verif[v].pc = "store"
    /\ LET rows == verif[v].rows
           rec == [pc |-> "anchor", count |-> Len(rows), head |-> rows[Len(rows)].hash]
       IN  /\ IF rows = << >> THEN UNCHANGED <<anchor, shipped>>
              ELSE /\ anchor' = rec
                   /\ shipped' = IF signed THEN shipped \cup {rec} ELSE shipped
           /\ verif' = [w \in Verifiers |->
                 IF w = v THEN [verif[v] EXCEPT !.pc = "done"] ELSE Overtaken(verif[w])]
    /\ UNCHANGED <<log, nextSeq, watermark, prune, now, written, damage, pruned>>

(* CheckAgainstAnchor, after Verify: here a missing row is a finding.      *)
CheckExternal(v) ==
    /\ verif[v].pc = "external"
    /\ LET ext == verif[v].ext
       IN  IF ~Truncated(verif[v].rows, ext) /\ SameHead(ext)
           THEN Move(v, [verif[v] EXCEPT !.pc = "done"])
           ELSE Found(v)
-----------------------------------------------------------------------------
(* pruneAuditChained, one transaction: the first row to keep, the delete,  *)
(* the watermark.  kept is auxiliary: there was a row to keep.             *)
Aged(row, cutoff) == row.created < cutoff

Kept(l, cutoff) == {i \in DOMAIN l : ~Aged(l[i], cutoff)}

(* ORDER BY seq: the k-th of the positions I, and the rows at I in order.  *)
Nth(I, k) == CHOOSE i \in I : Cardinality({j \in I : j <= i}) = k
RowsAt(l, I) == [k \in 1..Cardinality(I) |-> l[Nth(I, k)]]

(* Mutant: the hash of the first row kept, and not its prev_hash.          *)
MutOwnHash(l, cutoff) ==
    IF Kept(l, cutoff) = {} THEN Genesis ELSE l[Nth(Kept(l, cutoff), 1)].hash

NewWatermark(l, cutoff) ==
    IF Kept(l, cutoff) = {} THEN Genesis ELSE l[Nth(Kept(l, cutoff), 1)].prev

PruneRead ==
    /\ prune.pc = "none" /\ now >= Retention
    /\ LET cutoff == now - Retention
       IN  prune' = [pc |-> "delete", cutoff |-> cutoff,
                     wm |-> NewWatermark(log, cutoff),
                     kept |-> Kept(log, cutoff) # {}]
    /\ UNCHANGED <<log, nextSeq, watermark, anchor, shipped, verif, now,
                   written, damage, pruned>>

PruneDelete ==
    /\ prune.pc = "delete"
    /\ prune' = [pc |-> "commit", wm |-> prune.wm, kept |-> prune.kept,
                 doomed |-> {log[i].seq : i \in
                               {j \in DOMAIN log : Aged(log[j], prune.cutoff)}}]
    /\ UNCHANGED <<log, nextSeq, watermark, anchor, shipped, verif, now,
                   written, damage, pruned>>

PruneCommit ==
    /\ prune.pc = "commit"
    /\ log' = RowsAt(log, {i \in DOMAIN log : log[i].seq \notin prune.doomed})
    /\ watermark' = IF prune.doomed = {} THEN watermark ELSE prune.wm
    /\ pruned' = (pruned \/ prune.doomed # {})
    /\ prune' = None
    /\ verif' = IF prune.doomed = {} THEN verif
                ELSE [v \in Verifiers |-> Overtaken(verif[v])]
    /\ UNCHANGED <<nextSeq, anchor, shipped, now, written, damage>>

PruneAbort ==
    /\ prune.pc # "none"
    /\ prune' = None
    /\ UNCHANGED <<log, nextSeq, watermark, anchor, shipped, verif, now,
                   written, damage, pruned>>
-----------------------------------------------------------------------------
(* What the log is meant to reveal: the tables change other than by the    *)
(* program.  A row's content is altered, rows i to j disappear, or the     *)
(* anchors do.                                                             *)
Damaged(l, a) ==
    /\ damage < MaxDamage /\ damage' = damage + 1
    /\ log' = l /\ anchor' = a
    /\ verif' = [v \in Verifiers |-> Overtaken(verif[v])]
    /\ UNCHANGED <<nextSeq, watermark, shipped, prune, now, written, pruned>>

Alter(i, ev) == ev # log[i].ev /\ Damaged([log EXCEPT ![i].ev = ev], anchor)

Remove(i, j) ==
    i <= j /\ Damaged(SubSeq(log, 1, i - 1) \o SubSeq(log, j + 1, Len(log)), anchor)

DropAnchors == anchor # None /\ Damaged(log, None)
-----------------------------------------------------------------------------
Init ==
    /\ log = << >> /\ nextSeq = 1 /\ watermark = Genesis
    /\ anchor = None /\ shipped = {} /\ prune = None
    /\ verif = [v \in Verifiers |-> None]
    /\ now = 0 /\ written = << >> /\ damage = 0 /\ pruned = FALSE

(* `legant audit verify` and `legant audit anchor`, with --check or not.   *)
VerifyCommand(v) == VerifyScan(v, None) \/ StoreAnchor(v, FALSE)

AnchorCommand(v) ==
    \/ \E ext \in shipped \cup {None} : VerifyScan(v, ext)
    \/ StoreAnchor(v, TRUE) \/ CheckExternal(v)

VerifyStep(v) ==
    \/ VerifyCommand(v) \/ AnchorCommand(v)
    \/ VerifyLinks(v) \/ VerifyAnchor(v) \/ VerifyPrefix(v) \/ VerifyEnd(v)

(* `legant maintenance prune --audit-retention`.                           *)
MaintenancePrune == PruneRead \/ PruneDelete \/ PruneCommit \/ PruneAbort

DamageStep ==
    \/ \E i \in DOMAIN log, ev \in Events : Alter(i, ev)
    \/ \E i, j \in DOMAIN log : Remove(i, j)
    \/ DropAnchors

Next ==
    \/ \E ev \in Events, lag \in 0..MaxLag : AppendEvent(ev, lag)
    \/ Tick
    \/ \E v \in Verifiers : VerifyStep(v)
    \/ MaintenancePrune
    \/ DamageStep

Spec == Init /\ [][Next]_vars
-----------------------------------------------------------------------------
Contents == [ev : Events, created : Nat]
RowRecords == [seq : Nat, ev : Events, created : Nat,
               prev : Seq(Contents), hash : Seq(Contents)]
Anchors == [pc : {"anchor"}, count : Nat \ {0}, head : Seq(Contents)]

Verifications ==
    [pc : {"links", "anchor", "prefix", "store", "external", "done"},
     ext : Anchors \cup {None}, rows : Seq(RowRecords), against : Anchors \cup {None},
     ok : BOOLEAN, overtaken : BOOLEAN, skipped : BOOLEAN]

Deletes == [pc : {"delete"}, cutoff : Nat, wm : Seq(Contents), kept : BOOLEAN]
Commits == [pc : {"commit"}, wm : Seq(Contents), kept : BOOLEAN, doomed : SUBSET Nat]

(* Every variable is of its type; rows are in seq order.                   *)
TypeOK ==
    /\ log \in Seq(RowRecords) /\ written \in Seq(RowRecords)
    /\ \A i, j \in DOMAIN log : i < j => log[i].seq < log[j].seq
    /\ Len(written) + 1 = nextSeq
    /\ \A i \in DOMAIN written : written[i].seq = i
    /\ watermark \in Seq(Contents)
    /\ anchor \in Anchors \cup {None} /\ shipped \subseteq Anchors
    /\ prune \in {None} \cup Deletes \cup Commits
    /\ verif \in [Verifiers -> {None} \cup Verifications]
    /\ now \in Nat /\ damage \in Nat /\ pruned \in BOOLEAN

Passed(v) == verif[v].pc \in {"store", "done"} /\ verif[v].ok

(* The anchored rows, read from the head: an anchor taken after retention  *)
(* covers fewer rows than its hash does.                                   *)
Holds(rows, a) ==
    /\ Len(rows) >= a.count
    /\ \A i \in 1..a.count :
          Content(rows[i]) = a.head[Len(a.head) - a.count + i]

(* What a verification that finds nothing means: each row it scanned is as *)
(* it was appended, and, unless it was overtaken, the rows under the       *)
(* anchor it compared with, of the database or off-box, are the rows that  *)
(* were anchored, whatever was removed, appended or pruned before.         *)
TamperEvident ==
    \A v \in Verifiers : Passed(v) =>
        LET c == verif[v]
        IN  /\ \A i \in DOMAIN c.rows : c.rows[i] = written[c.rows[i].seq]
            /\ ~c.overtaken =>
                  /\ c.against # None /\ ~c.skipped => Holds(c.rows, c.against)
                  /\ c.ext # None /\ c.pc = "done" => Holds(c.rows, c.ext)

(* A verification that finds something is right: the tables were changed   *)
(* from outside, whatever was appended while its four queries ran.  Two    *)
(* cases are excepted: retention has deleted rows, or another run stored   *)
(* an anchor after this one's scan.                                        *)
NoFalseAlarm ==
    \A v \in Verifiers :
        verif[v].pc = "done" /\ ~verif[v].ok =>
            damage > 0 \/ pruned \/ verif[v].overtaken

InOrder(rows) == \A i, j \in DOMAIN rows : i < j => rows[i].created <= rows[j].created

(* Retention keeps the chain linked from the new watermark, whatever was   *)
(* appended since it read the first row to keep, if there was one and the  *)
(* rows are in the order of their creation.                                *)
PruneKeepsChain ==
    [][PruneCommit /\ damage = 0 /\ prune.kept /\ InOrder(log) /\ Linked(log, watermark)
          => Linked(log', watermark')]_vars

(* What retention says: a pruned prefix is not mistaken for tampering.  A  *)
(* log only the program wrote, linked from its watermark, verifies, at     *)
(* least when nothing overtakes the verification.                          *)
PrunedLogVerifies ==
    \A v \in Verifiers :
        /\ verif[v].pc = "done" /\ ~verif[v].ok
        /\ ~verif[v].overtaken /\ Linked(verif[v].rows, watermark)
        => damage > 0
=============================================================================
