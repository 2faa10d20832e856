------------------------ MODULE MorningStaysProofs ------------------------
(***************************************************************************)
(* For any number of stays, attempts, slots and nights: guests meet in the *)
(* apartment only over a stay reopened after its money was seen or an edit *)
(* saved over a new night, and a stay is charged once.                     *)
(***************************************************************************)
EXTENDS MorningStays, TLAPS

USE MorningAssumption

\* One attempt of a stay is unresolved or succeeded (one_unresolved_morning_payment).
OneLive == \A s \in Stays : \A n, m \in Tries : Live(s, n) /\ Live(s, m) => n = m

\* What an attempt's row tells about HyperPay's decision.
Told ==
    \A s \in Stays : \A n \in Tries :
        /\ outcome[s][n] # "open" => try[s][n].checkout
        /\ try[s][n].checkout => try[s][n].status # "none"
        /\ try[s][n].status = "failed" => outcome[s][n] = "declined"
        /\ try[s][n].status # "none" => stay[s].status # "none"

\* Who may yet come to hold the apartment without being asked again: an attempt
\* that HyperPay has not refused may still be paid.
Pledged(s) ==
    \/ Holds(s)
    \/ \E n \in Tries : try[s][n].status \in UNRESOLVED /\ outcome[s][n] # "declined"

PledgesApart ==
    /\ \A s, t \in Stays \ Reopened :
          s # t /\ Pledged(s) /\ Pledged(t) => ~Clash(stay[s].window, stay[t].window)
    /\ \A s \in Stays \ (Reopened \cup crossed), k \in Nights :
          Pledged(s) /\ night[k] = "held" =>
             ~(Meets(stay[s].window, Hours(k)) /\ Meets(stay[s].window, AssumedHours(k)))

\* What the money seen says of a stay's attempts and status.
Books ==
    \A s \in Stays :
        /\ stay[s].paid => /\ stay[s].status \in {"paid", "review", "cancelled", "open"}
                           /\ \E n \in Tries : try[s][n].status = "succeeded"
        /\ stay[s].status = "cancelled" =>
              \A n \in Tries : try[s][n].status \in UNRESOLVED => outcome[s][n] = "declined"

MorningIInv == MorningTypeOK /\ PledgesApart /\ OneLive /\ Told /\ Books

\* Nothing is offered yet.
LEMMA MorningInitial == Init => MorningIInv
<1> SUFFICES ASSUME Init PROVE MorningIInv
  OBVIOUS
<1>1. stay \in [Stays -> StayRow] /\ notice \in [Requests -> NoticeRow]
  BY DEF Init, StayRow, StayStatus, NoticeRow, NoNotice
<1>2. MorningTypeOK
  BY <1>1 DEF Init, MorningTypeOK, TryStatus
<1>3. PledgesApart
  <2>1. \A s \in Stays : ~Pledged(s)
    BY DEF Init, Pledged, Holds, UNRESOLVED
  <2> QED BY <2>1 DEF PledgesApart
<1>4. OneLive /\ Told /\ Books
  BY DEF Init, OneLive, Told, Live, UNRESOLVED, Books
<1> QED BY <1>2, <1>3, <1>4 DEF MorningIInv

\* A step that writes the row of one stay.
LEMMA OneStayChanges ==
  ASSUME MorningTypeOK, NEW s \in Stays, NEW row \in StayRow,
         row.status # "none" => row.window \in Windows,
         stay' = [stay EXCEPT ![s] = row]
  PROVE /\ stay' \in [Stays -> StayRow]
        /\ \A t \in Stays : stay'[t].status # "none" => stay'[t].window \in Windows
        /\ stay'[s] = row
        /\ \A t \in Stays \ {s} : stay'[t] = stay[t]
  BY DEF MorningTypeOK

\* Whose slot is pledged keeps it among the allocations that active_stays names.
LEMMA PledgedIsActive ==
  ASSUME MorningIInv, NEW s \in Stays \ Reopened, Pledged(s)
  PROVE Active(s)
<1>1. CASE stay[s].paid /\ stay[s].status # "cancelled"
  BY <1>1 DEF MorningIInv, Books, Active, Reopened
<1>2. CASE stay[s].status = "processing"
  BY <1>2 DEF Active
<1>3. CASE \E n \in Tries : try[s][n].status \in UNRESOLVED
  <2>1. stay[s].status # "none"
    BY <1>3 DEF MorningIInv, Told, UNRESOLVED
  <2> QED BY <1>3, <2>1 DEF Active, Unresolved
<1> QED BY <1>1, <1>2, <1>3 DEF Pledged, Holds

\* A stay none of whose rows is written.
LEMMA Untouched ==
  ASSUME NEW t \in Stays, stay'[t] = stay[t],
         \A n \in Tries : try'[t][n] = try[t][n] /\ outcome'[t][n] = outcome[t][n]
  PROVE /\ Pledged(t)' <=> Pledged(t)
        /\ t \in Reopened' <=> t \in Reopened
<1>1. Holds(t)' <=> Holds(t)
  BY DEF Holds
<1>2. t \in Reopened' <=> t \in Reopened
  BY DEF Reopened
<1>3. Pledged(t)' <=> \/ Holds(t)'
                      \/ \E n \in Tries : /\ try'[t][n].status \in UNRESOLVED
                                          /\ outcome'[t][n] # "declined"
  BY DEF Pledged, UNRESOLVED
<1>4. (\E n \in Tries : try'[t][n].status \in UNRESOLVED /\ outcome'[t][n] # "declined")
        <=> \E n \in Tries : try[t][n].status \in UNRESOLVED /\ outcome[t][n] # "declined"
  OBVIOUS
<1> QED BY <1>1, <1>2, <1>3, <1>4 DEF Pledged

\* Whose slot is pledged already and stays the same disturbs nobody.
LEMMA SamePledges ==
  ASSUME PledgesApart, crossed \subseteq crossed',
         \A k \in Nights : night'[k] = "held" => night[k] = "held",
         \A s \in Stays : Pledged(s)' /\ s \notin Reopened' =>
            Pledged(s) /\ s \notin Reopened /\ stay'[s].window = stay[s].window
  PROVE PledgesApart'
<1>1. \A s, t \in Stays \ Reopened' :
         s # t /\ Pledged(s)' /\ Pledged(t)' => ~Clash(stay'[s].window, stay'[t].window)
  BY DEF PledgesApart
<1>2. \A s \in Stays \ (Reopened' \cup crossed'), k \in Nights :
         Pledged(s)' /\ night'[k] = "held" =>
            ~(Meets(stay'[s].window, Hours(k)) /\ Meets(stay'[s].window, AssumedHours(k)))
  BY DEF PledgesApart
<1> QED BY <1>1, <1>2 DEF PledgesApart, Clash, Meets, Hours, AssumedHours

\* A stay that is given a free slot disturbs nobody either.
LEMMA NewPledge ==
  ASSUME MorningIInv, NEW s \in Stays, NEW w, ~Taken(w, {s}),
         s \notin crossed' => ~InFlight(w),
         stay'[s].window = w, crossed \subseteq crossed', night' = night, outcome' = outcome,
         \A t \in Stays \ {s} : stay'[t] = stay[t] /\ \A n \in Tries : try'[t][n] = try[t][n]
  PROVE PledgesApart'
<1>1. \A t \in Stays \ {s} : /\ Pledged(t)' <=> Pledged(t)
                             /\ t \in Reopened' <=> t \in Reopened
  BY Untouched
<1>2. ASSUME NEW t \in Stays \ {s}, t \notin Reopened, Pledged(t)
      PROVE  ~Clash(stay[t].window, w) /\ ~Clash(w, stay[t].window)
  BY <1>2, PledgedIsActive DEF Taken, Clash
<1>3. ASSUME NEW t \in Stays \ Reopened', NEW u \in Stays \ Reopened',
             t # u, Pledged(t)', Pledged(u)'
      PROVE  ~Clash(stay'[t].window, stay'[u].window)
  <2>1. CASE t # s /\ u # s
    <3>1. /\ t \in Stays \ Reopened /\ Pledged(t) /\ u \in Stays \ Reopened /\ Pledged(u)
          /\ stay'[t] = stay[t] /\ stay'[u] = stay[u]
      BY <1>1, <1>3, <2>1
    <3> QED BY <1>3, <3>1 DEF MorningIInv, PledgesApart
  <2>2. CASE u = s
    <3>1. t \notin Reopened /\ Pledged(t) /\ stay'[t] = stay[t] /\ t # s
      BY <1>1, <1>3, <2>2
    <3> QED BY <1>2, <2>2, <3>1
  <2>3. CASE t = s
    <3>1. u \notin Reopened /\ Pledged(u) /\ stay'[u] = stay[u] /\ u # s
      BY <1>1, <1>3, <2>3
    <3> QED BY <1>2, <2>3, <3>1
  <2> QED BY <2>1, <2>2, <2>3
<1>4. \A t \in Stays \ (Reopened' \cup crossed'), k \in Nights :
         Pledged(t)' /\ night'[k] = "held" =>
            ~(Meets(stay'[t].window, Hours(k)) /\ Meets(stay'[t].window, AssumedHours(k)))
  <2> SUFFICES ASSUME NEW t \in Stays \ (Reopened' \cup crossed'), NEW k \in Nights,
                      Pledged(t)', night'[k] = "held"
               PROVE  ~(/\ Meets(stay'[t].window, Hours(k))
                        /\ Meets(stay'[t].window, AssumedHours(k)))
    OBVIOUS
  <2>1. CASE t = s
    BY <2>1 DEF InFlight
  <2>2. CASE t # s
    <3>1. /\ t \in Stays \ (Reopened \cup crossed) /\ Pledged(t) /\ night[k] = "held"
          /\ stay'[t] = stay[t]
      BY <1>1, <2>2
    <3> QED BY <3>1 DEF MorningIInv, PledgesApart
  <2> QED BY <2>1, <2>2
<1> QED BY <1>3, <1>4 DEF PledgesApart, Clash, Meets, Hours, AssumedHours

\* The attempts are as they were.
LEMMA SameTries ==
  ASSUME OneLive, Told, UNCHANGED <<try, outcome>>,
         \A s \in Stays : stay[s].status # "none" => stay'[s].status # "none"
  PROVE (OneLive /\ Told)'
  BY DEF OneLive, Told, Live

\* A step of the operations team or the clock, which gives a stay a row of the
\* right type and takes the apartment only where it is free.
LEMMA StayRowStep ==
  ASSUME MorningIInv, NEW s \in Stays, NEW row \in StayRow,
         row.status # "none" => row.window \in Windows,
         stay[s].status # "none" => row.status # "none",
         row.paid = stay[s].paid,
         \/ row.status = stay[s].status /\ row.window = stay[s].window
         \/ row.status = "cancelled" /\ ~Unresolved(s)
         \/ row.status = "open" /\ stay[s].status = "none"
         \/ /\ row.status = stay[s].status /\ ~Taken(row.window, {s})
            /\ s \notin crossed' => ~InFlight(row.window),
         stay' = [stay EXCEPT ![s] = row],
         edit' \in [Stays -> Windows \cup {NoWindow}],
         notice' \in [Requests -> NoticeRow],
         crossed \subseteq crossed', crossed' \subseteq Stays,
         UNCHANGED <<try, outcome, night>>
  PROVE MorningIInv'
<1> USE DEF MorningIInv
<1>1. MorningTypeOK'
  BY OneStayChanges DEF MorningTypeOK
<1>2. stay'[s] = row /\ \A t \in Stays \ {s} : stay'[t] = stay[t]
  BY OneStayChanges
<1>3. PledgesApart'
  <2>0. \A t \in Stays \ {s} : /\ Pledged(t)' <=> Pledged(t)
                               /\ t \in Reopened' <=> t \in Reopened
    BY <1>2, Untouched
  <2> DEFINE Keeps(t) == Pledged(t)' /\ t \notin Reopened' =>
                            Pledged(t) /\ t \notin Reopened /\ stay'[t].window = stay[t].window
  <2>5. \A t \in Stays \ {s} : Keeps(t)
    BY <1>2, <2>0
  <2>6. ASSUME Keeps(s) PROVE PledgesApart'
    <3>1. \A t \in Stays : Keeps(t)
      BY <2>5, <2>6
    <3> QED BY <3>1, SamePledges
  <2>1. CASE row.status = stay[s].status /\ row.window = stay[s].window
    <3>1. (Pledged(s)' <=> Pledged(s)) /\ (s \in Reopened' <=> s \in Reopened)
      BY <1>2, <2>1 DEF Pledged, Holds, Reopened
    <3> QED BY <1>2, <2>1, <2>6, <3>1
  <2>2. CASE row.status = "cancelled" /\ ~Unresolved(s)
    <3>1. ~Pledged(s)'
      BY <1>2, <2>2 DEF Pledged, Holds, Unresolved
    <3> QED BY <2>6, <3>1
  <2>3. CASE row.status = "open" /\ stay[s].status = "none"
    <3>1. ~Pledged(s)'
      BY <1>2, <2>3 DEF Pledged, Holds, Told, UNRESOLVED, Books
    <3> QED BY <2>6, <3>1
  <2>4. CASE ~Taken(row.window, {s}) /\ (s \notin crossed' => ~InFlight(row.window))
    BY <1>2, <2>4, NewPledge
  <2> QED BY <2>1, <2>2, <2>3, <2>4
<1>4. Books'
  <2>1. /\ row.paid => row.status \in {"paid", "review", "cancelled", "open"}
        /\ row.status = "cancelled" =>
              \A n \in Tries : try[s][n].status \in UNRESOLVED => outcome[s][n] = "declined"
    BY DEF Books, Unresolved
  <2> QED BY <1>2, <2>1 DEF Books
<1> QED BY <1>1, <1>2, <1>3, <1>4, SameTries

\* The operations team and the passing of time.
LEMMA StaySteps ==
  ASSUME MorningIInv, NEW s \in Stays,
         \/ SaveEdit(s) \/ Cancel(s) \/ LeaseEnds(s) \/ StayEnds(s)
         \/ \E w \in Windows : Create(s, w) \/ VerifyEdit(s, w)
         \/ \E r \in Requests : Resend(s, r)
  PROVE MorningIInv'
<1>0. /\ stay \in [Stays -> StayRow] /\ stay[s] \in StayRow
      /\ edit \in [Stays -> Windows \cup {NoWindow}] /\ notice \in [Requests -> NoticeRow]
      /\ stay[s].status # "none" => stay[s].window \in Windows
      /\ crossed \subseteq Stays
  BY DEF MorningIInv, MorningTypeOK
<1>1. CASE SaveEdit(s)
  <2>1. /\ edit[s] \in Windows /\ edit' \in [Stays -> Windows \cup {NoWindow}]
        /\ crossed \subseteq crossed' /\ crossed' \subseteq Stays
    BY <1>0, <1>1 DEF SaveEdit, Save, Saved
  <2>2. CASE EditAllowed(s)
    <3> DEFINE row == [stay[s] EXCEPT !.window = edit[s]]
    <3>1. /\ row \in StayRow /\ row.window = edit[s] /\ row.status = stay[s].status
          /\ row.paid = stay[s].paid
      BY <1>0, <2>1 DEF StayRow
    <3>2. stay' = [stay EXCEPT ![s] = row]
      BY <1>1, <2>2 DEF SaveEdit, Save
    <3>3. ~Taken(row.window, {s}) /\ (s \notin crossed' => ~InFlight(row.window))
      BY <1>1, <2>2, <3>1 DEF EditAllowed, SaveEdit, Save
    <3>4. UNCHANGED <<try, outcome, night, notice>>
      BY <1>1 DEF SaveEdit, Save
    <3> HIDE DEF row
    <3> QED BY <1>0, <2>1, <3>1, <3>2, <3>3, <3>4, StayRowStep
  <2>3. CASE ~EditAllowed(s)
    <3>1. stay' = [stay EXCEPT ![s] = stay[s]]
      BY <1>0, <1>1, <2>3 DEF SaveEdit, Save
    <3>2. UNCHANGED <<try, outcome, night, notice>>
      BY <1>1 DEF SaveEdit, Save
    <3> QED BY <1>0, <2>1, <3>1, <3>2, StayRowStep
  <2> QED BY <2>2, <2>3
<1>2. CASE Cancel(s)
  <2> DEFINE row == [stay[s] EXCEPT !.status = "cancelled"]
  <2>1. /\ row \in StayRow /\ row.status = "cancelled" /\ row.paid = stay[s].paid
        /\ row.window = stay[s].window
    BY <1>0 DEF StayRow, StayStatus
  <2>2. stay' = [stay EXCEPT ![s] = row] /\ edit' \in [Stays -> Windows \cup {NoWindow}]
    BY <1>0, <1>2 DEF Cancel, Saved
  <2>3. stay[s].status # "none"
    BY <1>2 DEF Cancel
  <2> HIDE DEF row
  <2> QED BY <1>0, <1>2, <2>1, <2>2, <2>3, StayRowStep DEF Cancel
<1>3. CASE LeaseEnds(s)
  <2> DEFINE row == [stay[s] EXCEPT !.leased = FALSE]
  <2>1. /\ row \in StayRow /\ row.status = stay[s].status /\ row.window = stay[s].window
        /\ row.paid = stay[s].paid
    BY <1>0 DEF StayRow, StayStatus
  <2>2. stay' = [stay EXCEPT ![s] = row]
    BY <1>3 DEF LeaseEnds
  <2> HIDE DEF row
  <2> QED BY <1>0, <1>3, <2>1, <2>2, StayRowStep DEF LeaseEnds
<1>4. CASE StayEnds(s)
  <2> DEFINE row == [stay[s] EXCEPT !.ended = TRUE, !.leased = FALSE]
  <2>1. /\ row \in StayRow /\ row.status = stay[s].status /\ row.window = stay[s].window
        /\ row.paid = stay[s].paid
    BY <1>0 DEF StayRow, StayStatus
  <2>2. stay' = [stay EXCEPT ![s] = row]
    BY <1>0, <1>4 DEF StayEnds
  <2> HIDE DEF row
  <2> QED BY <1>0, <1>4, <2>1, <2>2, StayRowStep DEF StayEnds
<1>5. ASSUME NEW w \in Windows, Create(s, w) PROVE MorningIInv'
  <2> DEFINE row == [stay[s] EXCEPT !.status = "open", !.window = w, !.leased = TRUE]
  <2>1. /\ row \in StayRow /\ row.status = "open" /\ row.window = w
        /\ row.paid = stay[s].paid
    BY <1>0 DEF StayRow, StayStatus
  <2>2. stay' = [stay EXCEPT ![s] = row]
    BY <1>0, <1>5 DEF Create
  <2> HIDE DEF row
  <2> QED BY <1>0, <1>5, <2>1, <2>2, StayRowStep DEF Create
<1>6. ASSUME NEW w \in Windows, VerifyEdit(s, w) PROVE MorningIInv'
  <2>1. edit' \in [Stays -> Windows \cup {NoWindow}] /\ stay' = [stay EXCEPT ![s] = stay[s]]
    BY <1>0, <1>6 DEF VerifyEdit
  <2> QED BY <1>0, <1>6, <2>1, StayRowStep DEF VerifyEdit
<1>7. ASSUME NEW r \in Requests, Resend(s, r) PROVE MorningIInv'
  <2> DEFINE row == [stay[s] EXCEPT !.leased = ~stay[s].ended, !.renewal = r]
  <2>1. /\ row \in StayRow /\ row.status = stay[s].status /\ row.window = stay[s].window
        /\ row.paid = stay[s].paid
    BY <1>0 DEF StayRow, StayStatus
  <2>2. stay' = [stay EXCEPT ![s] = row] /\ edit' \in [Stays -> Windows \cup {NoWindow}]
    BY <1>0, <1>7 DEF Resend, Saved
  <2>3. stay[s].status = "open"
    BY <1>7 DEF Resend, Unpaid
  <2>4. notice' \in [Requests -> NoticeRow]
    <3>1. [state |-> "queued", stay |-> s, window |-> stay[s].window, renewal |-> r] \in NoticeRow
      BY <1>0, <2>3 DEF NoticeRow
    <3> QED BY <1>0, <1>7, <3>1 DEF Resend
  <2>5. UNCHANGED <<try, outcome, night, crossed>>
    BY <1>7 DEF Resend
  <2> HIDE DEF row
  <2> QED BY <1>0, <2>1, <2>2, <2>3, <2>4, <2>5, StayRowStep
<1> QED BY <1>1, <1>2, <1>3, <1>4, <1>5, <1>6, <1>7

\* A status written into the row of one attempt.
LEMMA StatusWritten ==
  ASSUME MorningTypeOK, NEW s \in Stays, NEW n \in Tries, NEW x \in TryStatus
  PROVE LET new == Written(s, n, x) IN
        /\ new \in [Stays -> [Tries -> [status : TryStatus, checkout : BOOLEAN]]]
        /\ new[s][n].status = x /\ new[s][n].checkout = try[s][n].checkout
        /\ \A t \in Stays, m \in Tries : t # s \/ m # n => new[t][m] = try[t][m]
<1> DEFINE Row == [status : TryStatus, checkout : BOOLEAN]
           row == [try[s][n] EXCEPT !.status = x]
           tries == [try[s] EXCEPT ![n] = row]
<1>1. try \in [Stays -> [Tries -> Row]] /\ try[s] \in [Tries -> Row] /\ try[s][n] \in Row
  BY DEF MorningTypeOK
<1>2. row \in Row /\ row.status = x /\ row.checkout = try[s][n].checkout
  BY <1>1
<1>3. Written(s, n, x) = [try EXCEPT ![s] = tries]
  BY DEF Written
<1> HIDE DEF Row, row
<1>4. tries \in [Tries -> Row] /\ tries[n] = row /\ \A m \in Tries \ {n} : tries[m] = try[s][m]
  BY <1>1, <1>2
<1> HIDE DEF tries
<1>5. /\ Written(s, n, x) \in [Stays -> [Tries -> Row]] /\ Written(s, n, x)[s] = tries
      /\ \A t \in Stays \ {s} : Written(s, n, x)[t] = try[t]
  BY <1>1, <1>3, <1>4
<1> QED BY <1>2, <1>4, <1>5 DEF Row

\* What the rows tell stays true when one attempt gets a status that is true.
LEMMA ToldKept ==
  ASSUME Told, outcome' = outcome, NEW s \in Stays, NEW n \in Tries, NEW x,
         x # "none", x = "failed" => outcome[s][n] = "declined",
         try'[s][n].status = x, try'[s][n].checkout = try[s][n].checkout,
         \A t \in Stays, m \in Tries : t # s \/ m # n => try'[t][m] = try[t][m],
         \A t \in Stays : stay[t].status # "none" => stay'[t].status # "none",
         stay'[s].status # "none"
  PROVE Told'
<1> SUFFICES ASSUME NEW t \in Stays, NEW m \in Tries
             PROVE /\ outcome[t][m] # "open" => try'[t][m].checkout
                   /\ try'[t][m].checkout => try'[t][m].status # "none"
                   /\ try'[t][m].status = "failed" => outcome[t][m] = "declined"
                   /\ try'[t][m].status # "none" => stay'[t].status # "none"
  BY DEF Told
<1>1. CASE t = s /\ m = n
  BY <1>1 DEF Told
<1>2. CASE t # s \/ m # n
  BY <1>2 DEF Told
<1> QED BY <1>1, <1>2

\* create_checkout's claim: the slot is free of others, the stay of live attempts.
LEMMA ClaimStep ==
  ASSUME MorningIInv, NEW s \in Stays, NEW n \in Tries, Claim(s, n)
  PROVE MorningIInv'
<1> USE DEF MorningIInv
<1>3. /\ try' \in [Stays -> [Tries -> [status : TryStatus, checkout : BOOLEAN]]]
      /\ try'[s][n].status = "created" /\ try'[s][n].checkout = try[s][n].checkout
      /\ \A t \in Stays, m \in Tries : t # s \/ m # n => try'[t][m] = try[t][m]
  <2>1. "created" \in TryStatus
    BY DEF TryStatus, UNRESOLVED
  <2>2. MorningTypeOK /\ try' = Written(s, n, "created")
    BY DEF Claim
  <2> QED BY <2>1, <2>2, StatusWritten
<1> DEFINE new == [stay[s] EXCEPT !.status = "processing"]
<1>1. /\ new \in StayRow /\ new.status = "processing" /\ new.window = stay[s].window
      /\ new.paid = stay[s].paid /\ ~stay[s].paid
      /\ stay' = [stay EXCEPT ![s] = new] /\ stay[s].window \in Windows
  BY DEF Claim, MorningTypeOK, StayRow, StayStatus
<1> HIDE DEF new
<1>2. /\ MorningTypeOK' /\ PledgesApart' /\ Books'
      /\ \A t \in Stays : stay[t].status # "none" => stay'[t].status # "none"
      /\ stay'[s].status # "none"
  <2>1. edit' \in [Stays -> Windows \cup {NoWindow}]
    BY DEF Claim, Saved, MorningTypeOK
  <2>2. /\ stay' \in [Stays -> StayRow]
        /\ \A t \in Stays : stay'[t].status # "none" => stay'[t].window \in Windows
        /\ stay'[s] = new /\ \A t \in Stays \ {s} : stay'[t] = stay[t]
    BY <1>1, OneStayChanges
  <2>3. MorningTypeOK'
    BY <1>3, <2>1, <2>2 DEF Claim, MorningTypeOK
  <2>4. /\ ~Taken(stay[s].window, {s}) /\ ~InFlight(stay[s].window)
        /\ crossed' = crossed /\ night' = night /\ outcome' = outcome
    BY DEF Claim
  <2>5. PledgesApart'
    BY <1>1, <1>3, <2>2, <2>4, NewPledge
  <2>6. Books'
    <3>1. \A t \in Stays \ {s} : stay'[t] = stay[t] /\ \A m \in Tries : try'[t][m] = try[t][m]
      BY <1>3, <2>2
    <3>2. stay'[s].status = "processing" /\ ~stay'[s].paid
      BY <1>1, <2>2
    <3> QED BY <2>4, <3>1, <3>2 DEF Books
  <2> QED BY <1>1, <2>2, <2>3, <2>5, <2>6
<1>5. OneLive'
  BY <1>3 DEF OneLive, Live, Claim
<1>6. Told'
  BY <1>2, <1>3 DEF Told, Claim
<1> QED BY <1>2, <1>5, <1>6

\* The answer to the POST of a checkout, and the guest's payment.
LEMMA CheckoutSteps ==
  ASSUME MorningIInv, NEW s \in Stays, NEW n \in Tries,
         OpenCheckout(s, n) \/ LoseCheckout(s, n) \/ Decide(s, n)
  PROVE MorningIInv'
<1> USE DEF MorningIInv
<1>1. CASE OpenCheckout(s, n)
  <2> DEFINE row == [status |-> "pending", checkout |-> TRUE]
  <2>1. MorningTypeOK'
    BY <1>1 DEF OpenCheckout, MorningTypeOK, TryStatus, UNRESOLVED
  <2>3. /\ try'[s][n] = row
        /\ \A t \in Stays, m \in Tries : t # s \/ m # n => try'[t][m] = try[t][m]
    BY <1>1 DEF OpenCheckout, MorningTypeOK
  <2>0. /\ try[s][n].status = "created" /\ "created" \in UNRESOLVED
        /\ UNCHANGED <<stay, outcome, night, crossed>>
    BY <1>1 DEF OpenCheckout, UNRESOLVED
  <2>2. PledgesApart'
    <3>1. \A t \in Stays : Pledged(t)' => Pledged(t)
      BY <2>0, <2>3 DEF Pledged, Holds
    <3> QED BY <2>0, <3>1, SamePledges DEF Reopened
  <2>7. Books'
    BY <2>0, <2>3 DEF Books
  <2>4. Live(s, n)
    BY <1>1 DEF OpenCheckout, Live, UNRESOLVED
  <2>5. OneLive'
    BY <2>3, <2>4 DEF OneLive, Live
  <2>6. Told'
    BY <1>1, <2>3 DEF Told, OpenCheckout
  <2> QED BY <2>1, <2>2, <2>5, <2>6, <2>7
<1>2. CASE LoseCheckout(s, n)
  <2>3. /\ try' \in [Stays -> [Tries -> [status : TryStatus, checkout : BOOLEAN]]]
        /\ try'[s][n].status = "unknown" /\ try'[s][n].checkout = try[s][n].checkout
        /\ \A t \in Stays, m \in Tries : t # s \/ m # n => try'[t][m] = try[t][m]
    <3>1. "unknown" \in TryStatus
      BY DEF TryStatus, UNRESOLVED
    <3>2. MorningTypeOK /\ try' = Written(s, n, "unknown")
      BY <1>2 DEF LoseCheckout
    <3> QED BY <3>1, <3>2, StatusWritten
  <2> DEFINE new == [stay[s] EXCEPT !.status = "review"]
  <2>0. /\ new \in StayRow /\ new.status = "review" /\ new.window = stay[s].window
        /\ new.paid = stay[s].paid /\ stay' = [stay EXCEPT ![s] = new]
    <3>1. stay[s] \in StayRow
      BY DEF MorningTypeOK
    <3> QED BY <1>2, <3>1 DEF LoseCheckout, StayRow, StayStatus
  <2> HIDE DEF new
  <2>8. /\ try[s][n].status = "created" /\ "created" \in UNRESOLVED
        /\ UNCHANGED <<outcome, night, crossed>>
    BY <1>2 DEF LoseCheckout, UNRESOLVED
  <2>9. ~stay[s].paid
    BY <2>8 DEF Books, OneLive, Live
  <2>1. /\ MorningTypeOK' /\ PledgesApart' /\ Books'
        /\ \A t \in Stays : stay[t].status # "none" => stay'[t].status # "none"
    <3>2. stay[s].status # "none" /\ stay[s].window \in Windows
      BY <1>2 DEF LoseCheckout, Told, MorningTypeOK
    <3>3. /\ stay' \in [Stays -> StayRow]
          /\ \A t \in Stays : stay'[t].status # "none" => stay'[t].window \in Windows
          /\ stay'[s] = new /\ \A t \in Stays \ {s} : stay'[t] = stay[t]
      BY <2>0, <3>2, OneStayChanges
    <3>4. MorningTypeOK'
      BY <1>2, <2>3, <3>3 DEF LoseCheckout, MorningTypeOK
    <3>5. PledgesApart'
      <4>1. \A t \in Stays : /\ Pledged(t)' => Pledged(t)
                             /\ t \in Reopened => t \in Reopened'
                             /\ stay'[t].window = stay[t].window
        BY <2>0, <2>3, <2>8, <2>9, <3>3 DEF Pledged, Holds, Reopened
      <4> QED BY <2>8, <4>1, SamePledges
    <3>7. Books'
      <4>1. \A t \in Stays \ {s}, m \in Tries : try'[t][m] = try[t][m]
        BY <2>3
      <4>2. ~stay'[s].paid /\ stay'[s].status = "review"
        BY <2>0, <2>9, <3>3
      <4> QED BY <2>8, <3>3, <4>1, <4>2 DEF Books
    <3>6. \A t \in Stays : stay[t].status # "none" => stay'[t].status # "none"
      BY <2>0, <3>3
    <3> QED BY <3>4, <3>5, <3>6, <3>7
  <2>5. Live(s, n)
    BY <1>2 DEF LoseCheckout, Live, UNRESOLVED
  <2>6. OneLive'
    <3>1. \A t \in Stays, m \in Tries : Live(t, m)' => Live(t, m)
      BY <2>3, <2>5 DEF Live
    <3> QED BY <3>1 DEF OneLive
  <2>7. Told'
    <3>1. outcome' = outcome /\ try[s][n].status = "created"
      BY <1>2 DEF LoseCheckout
    <3>2. stay'[s].status # "none"
      BY <1>2, <2>1 DEF Told, LoseCheckout
    <3> QED BY <2>1, <2>3, <3>1, <3>2, ToldKept
  <2> QED BY <2>1, <2>6, <2>7
<1>3. CASE Decide(s, n)
  <2>1. PICK decided \in {"charged", "declined"} : outcome' = [outcome EXCEPT ![s][n] = decided]
    BY <1>3 DEF Decide
  <2>2. MorningTypeOK'
    BY <1>3, <2>1 DEF Decide, MorningTypeOK
  <2>0. /\ outcome[s][n] = "open" /\ UNCHANGED <<stay, try, night, crossed>>
        /\ \A t \in Stays, m \in Tries : t # s \/ m # n => outcome'[t][m] = outcome[t][m]
    BY <1>3, <2>1 DEF Decide, MorningTypeOK
  <2>3. PledgesApart'
    <3>1. \A t \in Stays : Pledged(t)' => Pledged(t)
      BY <2>0 DEF Pledged, Holds
    <3> QED BY <2>0, <3>1, SamePledges DEF Reopened
  <2>6. Books'
    BY <2>0 DEF Books
  <2>4. OneLive'
    BY <1>3 DEF Decide, OneLive, Live
  <2>5. Told'
    BY <1>3, <2>1 DEF Decide, Told, MorningTypeOK
  <2> QED BY <2>2, <2>3, <2>4, <2>5, <2>6
<1> QED BY <1>1, <1>2, <1>3

\* What a reading may make of the stay.
LEMMA StayAfterReading ==
  ASSUME MorningTypeOK, NEW s \in Stays, NEW answer
  PROVE LET after == StayAfter(s, answer) IN
        /\ after \in StayRow
        /\ after.window = stay[s].window
        /\ after.status = "paid" /\ stay[s].status # "paid" =>
              /\ answer = "succeeded" /\ after.paid
              /\ stay[s].status = "processing" /\ ~stay[s].ended
        /\ answer = "succeeded" => after.paid /\ after.status \in {"paid", "review"}
        /\ answer # "succeeded" => after.paid = stay[s].paid
        /\ answer = "failed" => after.status = "open"
        /\ answer \in {"review", "unknown"} => after.status = "review"
        /\ answer \notin {"succeeded", "failed", "review", "unknown"} => after = stay[s]
        /\ after.status = "none" => stay[s].status = "none"
<1>0. stay[s] \in StayRow
  BY DEF MorningTypeOK
<1>1. CASE answer = "succeeded"
  <2> DEFINE x == IF stay[s].status = "processing" /\ ~stay[s].ended THEN "paid" ELSE "review"
  <2>1. StayAfter(s, answer) = [stay[s] EXCEPT !.paid = TRUE, !.status = x]
    BY <1>1 DEF StayAfter
  <2>2. x \in StayStatus /\ x \in {"paid", "review"}
    BY DEF StayStatus
  <2>4. /\ [stay[s] EXCEPT !.paid = TRUE, !.status = x] \in StayRow
        /\ [stay[s] EXCEPT !.paid = TRUE, !.status = x].status = x
        /\ [stay[s] EXCEPT !.paid = TRUE, !.status = x].paid
        /\ [stay[s] EXCEPT !.paid = TRUE, !.status = x].window = stay[s].window
    BY <1>0, <2>2 DEF StayRow
  <2>3. x = "paid" => stay[s].status = "processing" /\ ~stay[s].ended
    OBVIOUS
  <2> HIDE DEF x
  <2> QED BY <1>1, <2>1, <2>2, <2>3, <2>4
<1>2. CASE answer \in {"review", "unknown", "failed"}
  <2> DEFINE x == IF answer = "failed" THEN "open" ELSE "review"
  <2>1. StayAfter(s, answer) = [stay[s] EXCEPT !.status = x]
    BY <1>2 DEF StayAfter
  <2>2. /\ x \in StayStatus /\ x \notin {"paid", "none"}
        /\ answer = "failed" => x = "open"
        /\ answer # "failed" => x = "review"
    BY DEF StayStatus
  <2> HIDE DEF x
  <2>3. /\ [stay[s] EXCEPT !.status = x] \in StayRow
        /\ [stay[s] EXCEPT !.status = x].status = x
        /\ [stay[s] EXCEPT !.status = x].window = stay[s].window
        /\ [stay[s] EXCEPT !.status = x].paid = stay[s].paid
    BY <1>0, <2>2 DEF StayRow
  <2> QED BY <1>2, <2>1, <2>2, <2>3
<1>4. CASE answer \notin {"succeeded", "review", "unknown", "failed"}
  <2>1. StayAfter(s, answer) = stay[s]
    BY <1>4 DEF StayAfter
  <2> QED BY <1>0, <1>4, <2>1
<1> QED BY <1>1, <1>2, <1>4

\* verify_payment writes an answer of HyperPay's, this time's or an old one.
LEMMA VerifyStep ==
  ASSUME MorningIInv, NEW s \in Stays, NEW n \in Tries, NEW answer, Verify(s, n, answer)
  PROVE MorningIInv'
<1> USE DEF MorningIInv
<1>1. /\ answer \in {"pending", "unknown", "review", "succeeded", "failed"}
      /\ answer = "succeeded" => outcome[s][n] = "charged"
      /\ answer = "failed" => outcome[s][n] = "declined"
  BY DEF Verify, Answers
<1>3. /\ try' \in [Stays -> [Tries -> [status : TryStatus, checkout : BOOLEAN]]]
      /\ try'[s][n].status = answer /\ try'[s][n].checkout = try[s][n].checkout
      /\ \A t \in Stays, m \in Tries : t # s \/ m # n => try'[t][m] = try[t][m]
  <2>1. answer \in TryStatus
    BY <1>1 DEF TryStatus, UNRESOLVED
  <2>2. MorningTypeOK /\ try' = Written(s, n, answer)
    BY DEF Verify
  <2> QED BY <2>1, <2>2, StatusWritten
<1>4. stay[s].status # "none" /\ stay[s].window \in Windows
  BY DEF Verify, Told, MorningTypeOK
<1>5. /\ stay'[s] = StayAfter(s, answer)
      /\ \A t \in Stays \ {s} : stay'[t] = stay[t]
  BY DEF Verify, MorningTypeOK
<1>6. MorningTypeOK'
  <2> DEFINE row == StayAfter(s, answer)
  <2>1. row \in StayRow /\ row.window \in Windows
    BY <1>4, StayAfterReading
  <2>2. stay' = [stay EXCEPT ![s] = row]
    BY DEF Verify
  <2> HIDE DEF row
  <2>3. /\ stay' \in [Stays -> StayRow]
        /\ \A t \in Stays : stay'[t].status # "none" => stay'[t].window \in Windows
    BY <2>1, <2>2, OneStayChanges
  <2> QED BY <1>3, <2>3 DEF Verify, Saved, MorningTypeOK
<1>2. /\ try[s][n].checkout /\ try[s][n].status \notin {"none", "succeeded"}
      /\ UNCHANGED <<outcome, night, crossed>>
  BY DEF Verify, Told
<1>10. ASSUME answer # "failed" PROVE ~stay[s].paid
  BY <1>2, <1>10 DEF Verify, Admitted, Books, Live
<1>11. ASSUME outcome[s][n] # "declined" PROVE try[s][n].status \in UNRESOLVED
  BY <1>2, <1>11 DEF Told, MorningTypeOK, TryStatus
<1>12. ASSUME NEW t \in Stays, NEW m \in Tries,
              try'[t][m].status \in UNRESOLVED, outcome[t][m] # "declined"
       PROVE  try[t][m].status \in UNRESOLVED
  BY <1>3, <1>11, <1>12
<1>7. PledgesApart'
  <2>1. \A t \in Stays \ {s} : /\ Pledged(t)' => Pledged(t)
                               /\ t \in Reopened => t \in Reopened'
    BY <1>2, <1>5, <1>12 DEF Pledged, Holds, Reopened
  <2>2. ASSUME s \notin Reopened' PROVE s \notin Reopened
    <3>1. CASE answer = "failed"
      BY <1>5, <2>2, <3>1, StayAfterReading DEF Reopened
    <3>2. CASE answer # "failed"
      BY <1>10, <3>2 DEF Reopened
    <3> QED BY <3>1, <3>2
  <2>3. ASSUME s \notin Reopened', Pledged(s)' PROVE Pledged(s)
    <3>1. CASE \E m \in Tries : try'[s][m].status \in UNRESOLVED /\ outcome'[s][m] # "declined"
      BY <1>2, <1>12, <3>1 DEF Pledged
    <3>2. CASE answer = "succeeded"
      BY <1>1, <1>11, <3>2 DEF Pledged
    <3>3. CASE Holds(s)' /\ answer # "succeeded"
      <4>1. stay'[s].paid = stay[s].paid /\ Holds(s)'
        BY <1>5, <3>3, StayAfterReading
      <4>2. CASE answer \in {"failed", "review", "unknown"}
        <5>1. /\ stay'[s].status \in {"open", "review"}
              /\ answer = "failed" => stay'[s].status = "open"
          BY <1>5, <4>2, StayAfterReading
        <5>2. stay[s].paid
          BY <4>1, <5>1 DEF Holds
        <5> QED BY <1>10, <2>3, <4>1, <5>1, <5>2 DEF Reopened
      <4>3. CASE answer \notin {"failed", "review", "unknown"}
        <5>1. stay'[s] = stay[s]
          BY <1>5, <3>3, <4>3, StayAfterReading
        <5> QED BY <4>1, <5>1 DEF Holds, Pledged
      <4> QED BY <4>2, <4>3
    <3> QED BY <2>3, <3>1, <3>2, <3>3 DEF Pledged
  <2>4. \A t \in Stays : stay'[t].window = stay[t].window
    BY <1>5, StayAfterReading
  <2>5. \A t \in Stays : Pledged(t)' /\ t \notin Reopened' =>
           Pledged(t) /\ t \notin Reopened /\ stay'[t].window = stay[t].window
    BY <2>1, <2>2, <2>3, <2>4
  <2> QED BY <1>2, <2>5, SamePledges
<1>13. Books'
  <2>1. \A t \in Stays \ {s} : stay'[t] = stay[t] /\ \A m \in Tries : try'[t][m] = try[t][m]
    BY <1>3, <1>5
  <2>2. CASE answer = "succeeded"
    <3>1. stay'[s].status \in {"paid", "review"} /\ try'[s][n].status = "succeeded"
      BY <1>3, <1>5, <2>2, StayAfterReading
    <3> QED BY <1>2, <2>1, <3>1 DEF Books
  <2>3. CASE answer = "failed"
    <3>1. stay'[s].status = "open" /\ stay'[s].paid = stay[s].paid
      BY <1>5, <2>3, StayAfterReading
    <3>2. stay[s].paid => \E m \in Tries : try'[s][m].status = "succeeded"
      BY <1>2, <1>3 DEF Books
    <3> QED BY <1>2, <2>1, <3>1, <3>2 DEF Books
  <2>4. CASE answer \notin {"succeeded", "failed"}
    <3>1. ~stay'[s].paid /\ (stay'[s].status = "cancelled" => stay[s].status = "cancelled")
      BY <1>5, <1>10, <2>4, StayAfterReading
    <3>2. stay'[s].status = "cancelled" =>
             \A m \in Tries : try'[s][m].status \in UNRESOLVED => outcome[s][m] = "declined"
      BY <1>12, <3>1 DEF Books
    <3> QED BY <1>2, <2>1, <3>1, <3>2 DEF Books
  <2> QED BY <2>2, <2>3, <2>4
<1>8. OneLive'
  <2>1. CASE answer = "failed"
    BY <1>3, <2>1 DEF OneLive, Live, UNRESOLVED
  <2>2. CASE answer # "failed"
    <3>1. \A m \in Tries \ {n} : ~Live(s, m)
      BY <2>2 DEF Verify, Admitted
    <3>2. \A m \in Tries \ {n} : ~Live(s, m)'
      BY <1>3, <3>1 DEF Live
    <3>3. \A t \in Stays \ {s}, m \in Tries : Live(t, m)' <=> Live(t, m)
      BY <1>3 DEF Live
    <3> QED BY <3>2, <3>3 DEF OneLive
  <2> QED BY <2>1, <2>2
<1>9. Told'
  <2>1. stay'[s].status # "none"
    BY <1>4, <1>5, StayAfterReading
  <2>2. \A t \in Stays : stay[t].status # "none" => stay'[t].status # "none"
    BY <1>5, <2>1
  <2>3. outcome' = outcome /\ try[s][n].checkout /\ answer # "none"
    BY <1>1 DEF Verify
  <2> QED BY <1>1, <1>3, <2>1, <2>2, <2>3, ToldKept
<1> QED BY <1>6, <1>7, <1>8, <1>9, <1>13

\* Notices and nights touch neither stays nor attempts.
LEMMA OtherSteps ==
  ASSUME MorningIInv,
         \/ \E r \in Requests : SendLink(r)
         \/ \E k \in Nights : NightClaim(k) \/ NightFails(k)
  PROVE MorningIInv'
<1>1. MorningTypeOK'
  <2>1. \A x \in {"closed", "expired"} : [NoNotice EXCEPT !.state = x] \in NoticeRow
    BY DEF NoNotice, NoticeRow
  <2>2. CASE \E r \in Requests : SendLink(r)
    <3>1. notice' \in [Requests -> NoticeRow]
      BY <2>1, <2>2 DEF SendLink, MorningIInv, MorningTypeOK
    <3> QED BY <2>2, <3>1 DEF SendLink, MorningIInv, MorningTypeOK
  <2>3. CASE \E k \in Nights : NightClaim(k) \/ NightFails(k)
    BY <2>3 DEF NightClaim, NightFails, MorningIInv, MorningTypeOK
  <2> QED BY <2>2, <2>3
<1>2. UNCHANGED <<stay, try, outcome, crossed>>
  BY DEF SendLink, NightClaim, NightFails
<1>3. \A s \in Stays : (Pledged(s)' <=> Pledged(s)) /\ (s \in Reopened' <=> s \in Reopened)
  BY <1>2 DEF Pledged, Holds, Reopened
<1>4. PledgesApart'
  <2>1. CASE \A k \in Nights : night'[k] = "held" => night[k] = "held"
    BY <1>2, <1>3, <2>1, SamePledges DEF MorningIInv
  <2>2. ASSUME NEW k \in Nights, NightClaim(k) PROVE PledgesApart'
    <3>1. \A s \in Stays \ Reopened : Pledged(s) => ~Meets(stay[s].window, Hours(k))
      BY <2>2, PledgedIsActive DEF NightClaim, MorningTaken
    <3>2. \A j \in Nights \ {k} : night'[j] = night[j]
      BY <2>2 DEF NightClaim, MorningIInv, MorningTypeOK
    <3>3. \A s \in Stays \ (Reopened' \cup crossed'), j \in Nights :
             Pledged(s)' /\ night'[j] = "held" =>
                ~(Meets(stay'[s].window, Hours(j)) /\ Meets(stay'[s].window, AssumedHours(j)))
      BY <1>2, <1>3, <3>1, <3>2 DEF MorningIInv, PledgesApart
    <3>4. \A s, t \in Stays \ Reopened' :
             s # t /\ Pledged(s)' /\ Pledged(t)' => ~Clash(stay'[s].window, stay'[t].window)
      BY <1>2, <1>3 DEF MorningIInv, PledgesApart
    <3> QED BY <3>3, <3>4 DEF PledgesApart, Clash, Meets, Hours, AssumedHours
  <2>3. ASSUME NEW k \in Nights, NightFails(k), NEW j \in Nights, night'[j] = "held"
        PROVE  night[j] = "held"
    BY <2>3 DEF NightFails, MorningIInv, MorningTypeOK
  <2>4. ASSUME NEW r \in Requests, SendLink(r) PROVE night' = night
    BY <2>4 DEF SendLink
  <2> QED BY <2>1, <2>2, <2>3, <2>4
<1>5. Books'
  BY <1>2 DEF MorningIInv, Books
<1> QED BY <1>1, <1>2, <1>4, <1>5, SameTries DEF MorningIInv

\* The invariant is inductive.
LEMMA MorningInductive == MorningIInv /\ [Next]_vars => MorningIInv'
<1> SUFFICES ASSUME MorningIInv, [Next]_vars PROVE MorningIInv'
  OBVIOUS
<1>1. CASE UNCHANGED vars
  BY <1>1 DEF vars, MorningIInv, MorningTypeOK, PledgesApart, Pledged, Holds, Reopened, OneLive,
      Live, Told, Books
<1>2. CASE Next
  BY <1>2, StaySteps, ClaimStep, CheckoutSteps, VerifyStep, OtherSteps DEF Next
<1> QED BY <1>1, <1>2

\* Every reachable state is of the types and meets what the steps rely on.
THEOREM MorningInvariant == Spec => []MorningIInv
  BY MorningInitial, MorningInductive, PTL DEF Spec

\* The rows of the stays, the attempts and the notices keep their types.
THEOREM MorningTypeCorrect == Spec => []MorningTypeOK
<1>1. MorningIInv => MorningTypeOK
  BY DEF MorningIInv
<1> QED BY <1>1, MorningInvariant, PTL

\* What is asked under the property's lock keeps guests apart: two that hold the
\* apartment meet only if one was reopened though its money was seen, and a
\* guest and a night only then or after an edit saved over a new night.
THEOREM GuestsMeetOnlyAfterASlip == Spec => []ApartUnlessSlipped
<1>1. MorningIInv => ApartUnlessSlipped
  BY DEF MorningIInv, PledgesApart, Pledged, ApartUnlessSlipped, MorningsApart, NightsApart
<1> QED BY <1>1, MorningInvariant, PTL

\* A stay is charged once: whoever is charged has a live attempt.
THEOREM ChargedAtMostOnce == Spec => []ChargedOnce
<1>1. MorningIInv => ChargedOnce
  <2> SUFFICES ASSUME MorningIInv, NEW s \in Stays, NEW n \in Tries, NEW m \in Tries,
                      outcome[s][n] = "charged", outcome[s][m] = "charged"
               PROVE n = m
    BY DEF ChargedOnce
  <2>1. Live(s, n) /\ Live(s, m)
    BY DEF MorningIInv, MorningTypeOK, Told, Live, TryStatus
  <2> QED BY <2>1 DEF MorningIInv, OneLive
<1> QED BY <1>1, MorningInvariant, PTL

\* Only a verified payment of a running stay that waits for it admits a guest.
THEOREM AdmissionIsPaid == Spec => AdmittedHasPaid
<1> DEFINE Admission ==
      \A s \in Stays :
          stay'[s].status = "paid" /\ stay[s].status # "paid" =>
             /\ stay'[s].paid /\ stay[s].status = "processing" /\ ~stay[s].ended
             /\ \E n \in Tries : outcome[s][n] = "charged" /\ try'[s][n].status = "succeeded"
<1>1. MorningIInv /\ [Next]_vars => [Admission]_vars
  <2> SUFFICES ASSUME MorningIInv, Next, NEW s \in Stays,
                      stay'[s].status = "paid", stay[s].status # "paid"
               PROVE /\ stay'[s].paid /\ stay[s].status = "processing" /\ ~stay[s].ended
                     /\ \E n \in Tries : /\ outcome[s][n] = "charged"
                                         /\ try'[s][n].status = "succeeded"
    OBVIOUS
  <2>1. PICK t \in Stays, n \in Tries, answer \in TryStatus : Verify(t, n, answer)
    <3>0. /\ stay \in [Stays -> StayRow]
          /\ \A t \in Stays : stay[t] \in StayRow
      BY DEF MorningIInv, MorningTypeOK
    <3>1. ASSUME NEW t \in Stays,
                 \/ SaveEdit(t) \/ Cancel(t) \/ LeaseEnds(t) \/ StayEnds(t)
                 \/ \E w \in Windows : Create(t, w) \/ VerifyEdit(t, w)
                 \/ \E r \in Requests : Resend(t, r)
          PROVE FALSE
      <4>1. CASE SaveEdit(t)
        BY <3>0, <4>1 DEF SaveEdit, Save, StayRow
      <4>2. CASE Cancel(t)
        BY <3>0, <4>2 DEF Cancel, StayRow
      <4>3. CASE LeaseEnds(t)
        BY <3>0, <4>3 DEF LeaseEnds, StayRow
      <4>4. CASE StayEnds(t)
        BY <3>0, <4>4 DEF StayEnds, StayRow
      <4>5. CASE \E w \in Windows : Create(t, w) \/ VerifyEdit(t, w)
        BY <3>0, <4>5 DEF Create, VerifyEdit, StayRow
      <4>6. CASE \E r \in Requests : Resend(t, r)
        BY <3>0, <4>6 DEF Resend, StayRow
      <4> QED BY <3>1, <4>1, <4>2, <4>3, <4>4, <4>5, <4>6
    <3>2. ASSUME NEW t \in Stays, NEW n \in Tries,
                 Claim(t, n) \/ OpenCheckout(t, n) \/ LoseCheckout(t, n) \/ Decide(t, n)
          PROVE FALSE
      <4>1. CASE Claim(t, n)
        BY <3>0, <4>1 DEF Claim, StayRow
      <4>2. CASE LoseCheckout(t, n)
        BY <3>0, <4>2 DEF LoseCheckout, StayRow
      <4>3. CASE OpenCheckout(t, n) \/ Decide(t, n)
        BY <4>3 DEF OpenCheckout, Decide
      <4> QED BY <3>2, <4>1, <4>2, <4>3
    <3>3. ASSUME \/ \E r \in Requests : SendLink(r)
                 \/ \E k \in Nights : NightClaim(k) \/ NightFails(k)
          PROVE FALSE
      BY <3>3 DEF SendLink, NightClaim, NightFails
    <3> QED BY <3>1, <3>2, <3>3 DEF Next
  <2>2. t = s /\ stay'[s] = StayAfter(s, answer)
    BY <2>1 DEF Verify, MorningIInv, MorningTypeOK
  <2>3. /\ answer = "succeeded" /\ stay'[s].paid
        /\ stay[s].status = "processing" /\ ~stay[s].ended
    BY <2>2, StayAfterReading DEF MorningIInv
  <2>4. outcome[s][n] = "charged" /\ try'[s][n].status = "succeeded"
    <3>1. outcome[s][n] = "charged"
      BY <2>1, <2>2, <2>3 DEF Verify, Answers
    <3>2. MorningTypeOK /\ try' = Written(s, n, answer)
      BY <2>1, <2>2 DEF Verify, MorningIInv
    <3> QED BY <2>3, <3>1, <3>2, StatusWritten
  <2> QED BY <2>3, <2>4
<1> QED BY <1>1, MorningInvariant, PTL DEF Spec, AdmittedHasPaid
===========================================================================
