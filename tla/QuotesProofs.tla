----------------------------- MODULE QuotesProofs ------------------------------
(***************************************************************************)
(* For any number of requests, keys, drafts, prices and quotes: a draft    *)
(* asks Hostaway for one stay at most, and what is booked was offered      *)
(* while the request was dealt with.  And for every calendar: it is read   *)
(* as a stay needs it read.                                                *)
(***************************************************************************)
EXTENDS MCQuotes, FiniteSetTheorems, WellFoundedInduction, TLAPS

USE QuotesAssumption

QuoteRow == [status : QuoteStatus, price : 0 .. MaxPrice, late : BOOLEAN, owners : BOOLEAN]
DraftRow == [status : DraftStatus, quote : 0 .. MaxQuotes, started : BOOLEAN]

RowsTyped ==
    /\ quote \in [QuoteIds -> QuoteRow]
    /\ intent \in [QuoteIds -> Keys \cup Drafts \cup {None}]
    /\ draft \in [Drafts -> DraftRow]

RequestsTyped ==
    /\ offer \in Offers
    /\ step \in [Requests -> Steps] /\ purpose \in [Requests -> Purposes]
    /\ subject \in [Requests -> QuoteIds \cup Drafts \cup {None}]
    /\ key \in [Requests -> Keys \cup {None}]
    /\ readPrice \in [Requests -> 0 .. MaxPrice]
    /\ opened \in [Requests -> BOOLEAN] /\ prices \in [Requests -> SUBSET (1 .. MaxPrice)]

StaysTyped == posts \in [Drafts -> 0 .. 1] /\ stays \in [Drafts -> 0 .. 1]

\* A quote has an intent only when it is consumed, and a draft has one of the owner's quotes.
RowFacts ==
    /\ \A q \in QuoteIds : quote[q].status \in {"none", "active"} => intent[q] = None
    /\ \A d \in Drafts : draft[d].status # "none" =>
          /\ draft[d].quote \in QuoteIds
          /\ quote[draft[d].quote].owners /\ quote[draft[d].quote].status # "none"

\* What a request is at tells what it is for and what it knows.
Consistent(w) ==
    /\ step[w] = "idle" => purpose[w] = "none"
    /\ step[w] \in {"idle", "create", "calendar", "price"} => readPrice[w] = 0
    /\ step[w] \in {"create", "book"} => purpose[w] = "create"
    /\ step[w] = "consume" => purpose[w] = "details"
    /\ purpose[w] = "details" => subject[w] \in QuoteIds
    /\ purpose[w] \in {"draft", "recheck", "create"} => subject[w] \in Drafts

\* A request that ends in a booking has seen what Hostaway held since it began.
Witnessed(w) ==
    /\ offer.open => opened[w]
    /\ offer.price \in prices[w]
    /\ step[w] = "price" => opened[w]
    /\ readPrice[w] # 0 => opened[w] /\ readPrice[w] \in prices[w]

RequestFacts ==
    /\ \A w \in Requests : Consistent(w)
    /\ \A w \in Binding : Witnessed(w)

\* A request that creates a draft's stay and is past its first transaction.
Creating(w) == purpose[w] = "create" /\ step[w] # "create"

\* A draft's key is taken before its stay is asked for, by the one request that asks.
DraftFacts ==
    /\ \A d \in Drafts :
         /\ stays[d] <= posts[d]
         /\ posts[d] > 0 => Taken(d)
         /\ draft[d].status = "booked" => stays[d] = 1
    /\ \A w \in Requests : Creating(w) =>
         /\ Taken(subject[w]) /\ draft[subject[w]].status # "none"
         /\ IF step[w] = "book" THEN stays[subject[w]] = 1 ELSE posts[subject[w]] = 0
         /\ \A v \in Requests : Creating(v) /\ subject[v] = subject[w] => v = w

QuotesIInv == RowsTyped /\ RequestsTyped /\ StaysTyped /\ RowFacts /\ RequestFacts /\ DraftFacts

-----------------------------------------------------------------------------
(* Requests.                                                               *)

\* Nobody has asked anything.
LEMMA QuotesInitial == QuotesInit => QuotesIInv
<1> SUFFICES ASSUME QuotesInit PROVE QuotesIInv
  OBVIOUS
<1>1. RowsTyped /\ RowFacts
  BY DEF QuotesInit, RowsTyped, RowFacts, QuoteRow, DraftRow, QuoteStatus, DraftStatus
<1>2. RequestsTyped /\ RequestFacts
  BY DEF QuotesInit, RequestsTyped, RequestFacts, Consistent, Binding, Steps, Purposes
<1>3. StaysTyped /\ DraftFacts
  BY DEF QuotesInit, StaysTyped, DraftFacts, Creating
<1> QED BY <1>1, <1>2, <1>3 DEF QuotesIInv

\* A request's variables are those of no other.
Others(w) ==
    \A v \in Requests \ {w} :
        /\ step'[v] = step[v] /\ purpose'[v] = purpose[v] /\ subject'[v] = subject[v]
        /\ readPrice'[v] = readPrice[v] /\ opened'[v] = opened[v] /\ prices'[v] = prices[v]

LEMMA OneRequest ==
  ASSUME RequestFacts, NEW w \in Requests, Others(w), UNCHANGED offer,
         Consistent(w)', w \in Binding' => Witnessed(w)'
  PROVE  RequestFacts'
<1>1. \A v \in Requests : Consistent(v)'
  BY DEF RequestFacts, Others, Consistent
<1>2. \A v \in Binding' : Witnessed(v)'
  BY DEF RequestFacts, Others, Binding, Witnessed
<1> QED BY <1>1, <1>2 DEF RequestFacts

\* A request ends, or its process dies.
LEMMA EndsKeeps ==
  ASSUME RequestsTyped, RequestFacts, NEW w \in Requests, Ends(w), UNCHANGED offer
  PROVE  /\ RequestsTyped' /\ RequestFacts' /\ Others(w)
         /\ step'[w] = "idle" /\ purpose'[w] = "none"
<1>1. RequestsTyped'
  BY DEF RequestsTyped, Ends, Steps, Purposes
<1>2. Others(w)
  BY DEF RequestsTyped, Ends, Others
<1>3. /\ step'[w] = "idle" /\ purpose'[w] = "none" /\ readPrice'[w] = 0
  BY DEF RequestsTyped, Ends
<1> QED BY <1>1, <1>2, <1>3, OneRequest DEF Consistent, Binding

\* A request goes to ask Hostaway.
LEMMA AskKeeps ==
  ASSUME RequestsTyped, RequestFacts, NEW w \in Requests, step[w] \in {"idle", "create"},
         NEW p \in Purposes \ {"none"}, NEW s \in QuoteIds \cup Drafts \cup {None},
         NEW k \in Keys \cup {None}, Ask(w, p, s, k), UNCHANGED offer,
         p = "details" => s \in QuoteIds,
         p \in {"draft", "recheck", "create"} => s \in Drafts
  PROVE  /\ RequestsTyped' /\ RequestFacts' /\ Others(w)
         /\ step'[w] = "calendar" /\ purpose'[w] = p /\ subject'[w] = s
<1>1. RequestsTyped'
  BY DEF RequestsTyped, Ask, Steps, Offers
<1>2. Others(w)
  BY DEF RequestsTyped, Ask, Others
<1>3. /\ step'[w] = "calendar" /\ purpose'[w] = p /\ subject'[w] = s
      /\ readPrice'[w] = readPrice[w] /\ readPrice[w] = 0
      /\ opened'[w] = (w \in Binding' /\ offer.open)
      /\ prices'[w] = IF w \in Binding' THEN {offer.price} ELSE {}
  BY DEF RequestsTyped, RequestFacts, Consistent, Ask
<1>4. Consistent(w)'
  BY <1>3 DEF Consistent
<1>5. w \in Binding' => Witnessed(w)'
  BY <1>3 DEF Witnessed
<1> QED BY <1>1, <1>2, <1>3, <1>4, <1>5, OneRequest

\* A request goes on, to a step that fits its purpose.
LEMMA GoesKeeps ==
  ASSUME RequestsTyped, RequestFacts, NEW w \in Requests, NEW s \in Steps, Goes(w, s),
         UNCHANGED offer, step[w] \notin {"idle", "create"},
         NEW r \in 0 .. MaxPrice, readPrice' = [readPrice EXCEPT ![w] = r],
         s \in {"price", "write", "consume", "book"},
         s = "price" => r = 0 /\ offer.open,
         s = "consume" => purpose[w] = "details",
         s = "book" => purpose[w] = "create",
         w \in Binding /\ r # 0 => opened[w] /\ r \in prices[w]
  PROVE  /\ RequestsTyped' /\ RequestFacts' /\ Others(w)
         /\ step'[w] = s /\ purpose'[w] = purpose[w] /\ subject'[w] = subject[w]
<1>1. RequestsTyped'
  BY DEF RequestsTyped, Goes
<1>2. Others(w)
  BY DEF RequestsTyped, Goes, Others
<1>3. /\ step'[w] = s /\ readPrice'[w] = r
      /\ UNCHANGED <<purpose, subject, opened, prices>>
  BY DEF RequestsTyped, Goes
<1>4. Consistent(w)'
  BY <1>3 DEF RequestFacts, Consistent
<1>5. w \in Binding' => Witnessed(w)'
  BY <1>3 DEF RequestFacts, Binding, Witnessed
<1> QED BY <1>1, <1>2, <1>3, <1>4, <1>5, OneRequest

\* Nothing happens to requests or the offer.
LEMMA QuietRequests ==
  ASSUME RequestsTyped, RequestFacts, UNCHANGED requestVars, UNCHANGED offer
  PROVE  RequestsTyped' /\ RequestFacts'
<1>1. RequestsTyped'
  BY DEF RequestsTyped, requestVars
<1>2. RequestFacts'
  BY DEF RequestFacts, Consistent, Binding, Witnessed, requestVars
<1> QED BY <1>1, <1>2

\* The requests' part of the invariant: one case for every action.
LEMMA RequestsPreserved ==
  ASSUME QuotesIInv, QuotesNext
  PROVE  RequestsTyped' /\ RequestFacts'
<1> USE DEF QuotesIInv
<1>1. ASSUME NEW o \in Offers, HostMoves(o) PROVE RequestsTyped' /\ RequestFacts'
  <2>1. RequestsTyped'
    BY <1>1 DEF HostMoves, RequestsTyped, Offers
  <2>2. \A w \in Requests : Consistent(w)'
    BY <1>1 DEF HostMoves, RequestFacts, Consistent
  <2>3. \A w \in Binding' : Witnessed(w)'
    BY <1>1 DEF HostMoves, RequestsTyped, RequestFacts, Binding, Witnessed
  <2> QED BY <2>1, <2>2, <2>3 DEF RequestFacts
<1>2. CASE \/ \E q \in QuoteIds : QuoteGetsOld(q) \/ ExpireQuote(q)
           \/ \E d \in Drafts : Finalize(d)
  BY <1>2, QuietRequests DEF QuoteGetsOld, ExpireQuote, Finalize, hostVars
<1>3. ASSUME NEW w \in Requests, RequestNext(w) PROVE RequestsTyped' /\ RequestFacts'
  <2>0. /\ readPrice[w] \in 0 .. MaxPrice /\ offer \in Offers
        /\ readPrice' = readPrice => readPrice' = [readPrice EXCEPT ![w] = readPrice[w]]
        /\ Consistent(w) /\ (w \in Binding => Witnessed(w))
    BY DEF RequestsTyped, RequestFacts
  <2>1. CASE ReadCalendar(w)
    BY <2>0, <2>1, GoesKeeps DEF ReadCalendar, hostVars, Seen, Steps, Consistent, Witnessed
  <2>2. CASE ReadPrice(w)
    <3>1. PICK p \in {0, offer.price} : readPrice' = [readPrice EXCEPT ![w] = p]
      BY <2>2 DEF ReadPrice, Seen
    <3>2. p \in 0 .. MaxPrice /\ (w \in Binding /\ p # 0 => opened[w] /\ p \in prices[w])
      BY <2>0, <2>2, <3>1 DEF ReadPrice, Offers, Witnessed
    <3> QED BY <2>2, <3>1, <3>2, GoesKeeps DEF ReadPrice, hostVars, Steps
  <2>3. CASE Search(w)
    BY <2>3, AskKeeps DEF Search, hostVars, Purposes
  <2>4. CASE NoQuote(w) \/ SaveQuote(w) \/ SaveDraft(w) \/ SaveRecheck(w) \/ NotPosted(w)
             \/ MarkBooked(w) \/ Consume(w) \/ Crash(w)
    BY <2>4, EndsKeeps DEF NoQuote, SaveQuote, SaveDraft, SaveRecheck, NotPosted, MarkBooked,
       Consume, Crash, hostVars
  <2>5. ASSUME NEW q \in QuoteIds, NEW k \in Keys, Submit(w, q, k)
        PROVE  RequestsTyped' /\ RequestFacts'
    <3>1. step[w] = "idle" /\ UNCHANGED offer
      BY <2>5 DEF Submit, hostVars
    <3>2. Ask(w, "search", None, None) \/ Ask(w, "details", q, k)
      BY <2>5 DEF Submit
    <3> QED BY <3>1, <3>2, AskKeeps DEF Purposes
  <2>6. CASE LookForKey(w)
    <3>1. CASE Taken(key[w])
      BY <2>6, <3>1, EndsKeeps DEF LookForKey, hostVars
    <3>2. CASE ~Taken(key[w])
      BY <2>0, <2>6, <3>2, GoesKeeps DEF LookForKey, hostVars, Steps, Witnessed
    <3> QED BY <3>1, <3>2
  <2>7. ASSUME NEW d \in Drafts, StartDraft(w, d) \/ StartRecheck(w, d)
        PROVE  RequestsTyped' /\ RequestFacts'
    BY <2>7, AskKeeps DEF StartDraft, StartRecheck, hostVars, Purposes
  <2>8. ASSUME NEW d \in Drafts, SamaConfirms(w, d)
        PROVE  RequestsTyped' /\ RequestFacts'
    <3>1. CASE Usable(draft[d].quote)
      <4>1. /\ step' = [step EXCEPT ![w] = "create"]
            /\ purpose' = [purpose EXCEPT ![w] = "create"]
            /\ subject' = [subject EXCEPT ![w] = d]
            /\ UNCHANGED <<key, readPrice, opened, prices, offer>> /\ step[w] = "idle"
        BY <2>8, <3>1 DEF SamaConfirms, hostVars
      <4>2. RequestsTyped' /\ Others(w)
        BY <4>1 DEF RequestsTyped, Others, Steps, Purposes
      <4>3. Consistent(w)' /\ w \notin Binding'
        BY <2>0, <4>1 DEF RequestsTyped, Consistent, Binding
      <4> QED BY <4>1, <4>2, <4>3, OneRequest
    <3>2. CASE ~Usable(draft[d].quote)
      BY <2>8, <3>2, QuietRequests DEF SamaConfirms, hostVars
    <3> QED BY <3>1, <3>2
  <2>9. ASSUME NEW d \in Drafts, Create(w, d) PROVE RequestsTyped' /\ RequestFacts'
    <3>1. step[w] \in {"idle", "create"} /\ UNCHANGED offer
      BY <2>9 DEF Create, hostVars
    <3>2. Ask(w, "create", d, None) \/ UNCHANGED requestVars \/ Ends(w)
      BY <2>9 DEF Create
    <3> QED BY <3>1, <3>2, AskKeeps, EndsKeeps, QuietRequests DEF Purposes
  <2>10. ASSUME NEW made \in BOOLEAN, NEW answered \in BOOLEAN, Post(w, made, answered)
         PROVE  RequestsTyped' /\ RequestFacts'
    <3>1. CASE made /\ answered
      BY <2>0, <2>10, <3>1, GoesKeeps DEF Post, Steps, Witnessed
    <3>2. CASE ~(made /\ answered)
      BY <2>10, <3>2, EndsKeeps DEF Post
    <3> QED BY <3>1, <3>2
  <2> QED BY <1>3, <2>1, <2>2, <2>3, <2>4, <2>5, <2>6, <2>7, <2>8, <2>9, <2>10 DEF RequestNext
<1> QED BY <1>1, <1>2, <1>3 DEF QuotesNext

-----------------------------------------------------------------------------
(* Quotes, intents and drafts.                                             *)

\* An intent keeps its quote, and a draft stays.
Kept ==
    /\ \A q \in QuoteIds : intent[q] # None => intent'[q] = intent[q]
    /\ \A d \in Drafts : draft[d].status # "none" => draft'[d].status # "none"

RowsKeep == RowsTyped' /\ RowFacts' /\ Kept

\* A quote gets old, or is over.
LEMMA QuoteOver ==
  ASSUME RowsTyped, RowFacts, NEW q \in QuoteIds, quote[q].status = "active",
         NEW row \in QuoteRow, row.status # "none", row.owners = quote[q].owners,
         row.status = "active" => intent'[q] = None,
         quote' = [quote EXCEPT ![q] = row],
         NEW k \in Keys \cup Drafts \cup {None}, intent' = [intent EXCEPT ![q] = k],
         UNCHANGED draft
  PROVE  RowsKeep
<1>1. RowsTyped'
  BY DEF RowsTyped
<1>2. RowFacts'
  BY DEF RowsTyped, RowFacts, DraftRow
<1>3. Kept
  BY DEF RowsTyped, RowFacts, Kept
<1> QED BY <1>1, <1>2, <1>3 DEF RowsKeep

\* What a quote becomes that is over.
LEMMA OverTyped ==
  ASSUME RowsTyped, NEW q \in QuoteIds, NEW s \in QuoteStatus
  PROVE  /\ Over(q, s) \in QuoteRow /\ Over(q, s).status = s
         /\ Over(q, s).owners = quote[q].owners
<1>1. quote[q] \in QuoteRow
  BY DEF RowsTyped
<1> QED BY <1>1 DEF QuoteRow, Over

LEMMA NewTyped ==
  ASSUME RequestsTyped, NEW w \in Requests, NEW o \in BOOLEAN
  PROVE  /\ NewQuote(w, o) \in QuoteRow
         /\ NewQuote(w, o).status = "active" /\ NewQuote(w, o).owners = o
  BY DEF RequestsTyped, QuoteRow, NewQuote, QuoteStatus

\* The rows' part of the invariant, for what a guest does.
LEMMA ConsumeKeeps ==
  ASSUME QuotesIInv, NEW w \in Requests, Consume(w)
  PROVE  RowsKeep
<1> DEFINE q == subject[w]
<1>1. /\ q \in QuoteIds /\ UNCHANGED draft /\ RowsTyped /\ RowFacts /\ RequestsTyped
      /\ intent[q] \in Keys \cup Drafts \cup {None} /\ key[w] \in Keys \cup Drafts \cup {None}
      /\ intent' = intent => intent' = [intent EXCEPT ![q] = intent[q]]
  BY DEF Consume, QuotesIInv, RequestFacts, Consistent, RequestsTyped, RowsTyped
<1>2. CASE Refuse(w, q) /\ UNCHANGED intent
  <2>1. CASE UNCHANGED quote
    BY <1>1, <1>2, <2>1 DEF RowsKeep, RowsTyped, RowFacts, Kept
  <2>2. CASE /\ quote[q].status = "active"
             /\ QuoteBecomes(q, "expired") \/ QuoteBecomes(q, "unavailable")
    BY <1>1, <1>2, <2>2, QuoteOver, OverTyped DEF QuoteBecomes, QuoteStatus
  <2> QED BY <1>2, <2>1, <2>2 DEF Refuse
<1>3. CASE Requote(w, q) /\ UNCHANGED intent
  <2>1. PICK n \in QuoteIds :
          /\ Fresh(n)
          /\ quote' = [quote EXCEPT ![q] = Over(q, "price_changed"), ![n] = NewQuote(w, FALSE)]
    BY <1>3 DEF Requote
  <2>2. Over(q, "price_changed") \in QuoteRow /\ NewQuote(w, FALSE) \in QuoteRow
    BY <1>1, OverTyped, NewTyped DEF QuoteStatus
  <2>3. quote[q].status = "active" /\ n # q /\ quote[n].status = "none"
    BY <1>3, <2>1 DEF Requote, Live, Fresh
  <2>4. /\ quote'[q] = Over(q, "price_changed") /\ quote'[n] = NewQuote(w, FALSE)
        /\ \A r \in QuoteIds \ {q, n} : quote'[r] = quote[r]
    BY <1>1, <2>1, <2>3 DEF RowsTyped
  <2>5. RowsTyped'
    BY <1>1, <1>3, <2>1, <2>2 DEF RowsTyped
  <2>6. RowFacts'
    BY <1>1, <1>3, <2>3, <2>4, OverTyped, NewTyped DEF RowFacts, QuoteStatus
  <2> QED BY <1>1, <1>3, <2>5, <2>6 DEF RowsKeep, Kept
<1>4. CASE Book(w, q)
  BY <1>1, <1>4, QuoteOver, OverTyped DEF Book, Live, QuoteBecomes, QuoteStatus
<1>5. CASE UNCHANGED <<quote, intent>>
  BY <1>1, <1>5 DEF RowsKeep, RowsTyped, RowFacts, Kept
<1> QED BY <1>2, <1>3, <1>4, <1>5 DEF Consume

\* A draft gets a new quote, and the one it had is over.
LEMMA DraftQuoted ==
  ASSUME RowsTyped, RowFacts, NEW d \in Drafts, NEW n \in QuoteIds, Fresh(n),
         NEW row \in QuoteRow, row.status = "active", row.owners,
         \/ quote' = [quote EXCEPT ![n] = row]
         \/ /\ draft[d].status # "none"
            /\ quote' = [quote EXCEPT ![draft[d].quote] = Over(draft[d].quote, "invalidated"),
                                      ![n] = row],
         draft' = [draft EXCEPT ![d] = Quoted(d, n)],
         UNCHANGED intent
  PROVE  RowsKeep
<1> DEFINE q == draft[d].quote
<1>1. quote[n].status = "none"
  BY DEF Fresh
<1>2. draft[d].status # "none" => q \in QuoteIds /\ q # n
  BY <1>1 DEF RowFacts
<1>3. q \in QuoteIds => /\ Over(q, "invalidated") \in QuoteRow
                        /\ Over(q, "invalidated").status = "invalidated"
                        /\ Over(q, "invalidated").owners = quote[q].owners
  BY OverTyped DEF QuoteStatus
<1>4. /\ quote' \in [QuoteIds -> QuoteRow] /\ quote'[n] = row
      /\ \A r \in QuoteIds \ {n} : quote'[r] = quote[r]
            \/ (r = q /\ draft[d].status # "none" /\ quote'[r] = Over(q, "invalidated"))
  BY <1>2, <1>3 DEF RowsTyped
<1>5. /\ draft' \in [Drafts -> DraftRow] /\ draft'[d].quote = n
      /\ \A e \in Drafts \ {d} : draft'[e] = draft[e]
  <2>1. n \in 0 .. MaxQuotes /\ draft[d] \in DraftRow
    BY DEF QuoteIds, RowsTyped
  <2>2. Quoted(d, n) \in DraftRow /\ Quoted(d, n).quote = n
    BY <2>1 DEF DraftRow, DraftStatus, Quoted
  <2> QED BY <2>2 DEF RowsTyped
<1>6. RowsTyped'
  BY <1>4, <1>5 DEF RowsTyped
<1>7. RowFacts'
  BY <1>1, <1>2, <1>3, <1>4, <1>5 DEF RowFacts
<1>8. Kept
  BY <1>5 DEF RowsTyped, Quoted, Kept
<1> QED BY <1>6, <1>7, <1>8 DEF RowsKeep

\* A draft's status changes.
LEMMA DraftMoves ==
  ASSUME RowsTyped, RowFacts, NEW d \in Drafts, draft[d].status # "none",
         NEW row \in DraftRow, row.status # "none", row.quote = draft[d].quote,
         draft' = [draft EXCEPT ![d] = row], UNCHANGED <<quote, intent>>
  PROVE  RowsKeep
  BY DEF RowsTyped, RowFacts, RowsKeep, Kept

LEMMA RowsPreserved ==
  ASSUME QuotesIInv, QuotesNext
  PROVE  RowsKeep
<1>0. RowsTyped /\ RowFacts /\ RequestsTyped
  BY DEF QuotesIInv
<1>1. ASSUME UNCHANGED rowVars PROVE RowsKeep
  BY <1>0, <1>1 DEF rowVars, RowsKeep, RowsTyped, RowFacts, Kept
<1>2. ASSUME NEW q \in QuoteIds, UNCHANGED <<intent, draft>>, quote[q].status = "active",
             \/ quote' = [quote EXCEPT ![q].late = TRUE]
             \/ QuoteBecomes(q, "expired")
      PROVE  RowsKeep
  <2>1. intent' = [intent EXCEPT ![q] = intent[q]] /\ intent[q] = None
    BY <1>0, <1>2 DEF RowsTyped, RowFacts
  <2>2. CASE QuoteBecomes(q, "expired")
    BY <1>0, <1>2, <2>1, <2>2, QuoteOver, OverTyped DEF QuoteBecomes, QuoteStatus
  <2>3. CASE quote' = [quote EXCEPT ![q].late = TRUE]
    <3> DEFINE row == [quote[q] EXCEPT !.late = TRUE]
    <3>1. row \in QuoteRow /\ row.owners = quote[q].owners /\ row.status = "active"
      BY <1>0, <1>2 DEF RowsTyped, QuoteRow
    <3>2. quote' = [quote EXCEPT ![q] = row]
      BY <2>3
    <3> HIDE DEF row
    <3> QED BY <1>0, <1>2, <2>1, <3>1, <3>2, QuoteOver
  <2> QED BY <1>2, <2>2, <2>3
<1>3. ASSUME NEW d \in Drafts, NEW s \in {"ready", "expired", "booked"}, NEW t \in BOOLEAN,
             draft[d].status # "none", UNCHANGED <<quote, intent>>,
             \/ draft' = [draft EXCEPT ![d].status = s]
             \/ draft' = [draft EXCEPT ![d].status = s, ![d].started = t]
      PROVE  RowsKeep
  <2>1. \/ draft' = [draft EXCEPT ![d] = [draft[d] EXCEPT !.status = s]]
        \/ draft' = [draft EXCEPT ![d] = [draft[d] EXCEPT !.status = s, !.started = t]]
    BY <1>0, <1>3 DEF RowsTyped, DraftRow
  <2>2. ASSUME NEW row,
               \/ row = [draft[d] EXCEPT !.status = s]
               \/ row = [draft[d] EXCEPT !.status = s, !.started = t]
        PROVE  row \in DraftRow /\ row.status # "none" /\ row.quote = draft[d].quote
    BY <1>0, <2>2 DEF RowsTyped, DraftRow, DraftStatus
  <2> QED BY <1>0, <1>3, <2>1, <2>2, DraftMoves
<1>4. ASSUME NEW w \in Requests, RequestNext(w) PROVE RowsKeep
  <2>1. CASE SaveQuote(w)
    <3>1. PICK q \in QuoteIds : Fresh(q) /\ quote' = [quote EXCEPT ![q] = NewQuote(w, FALSE)]
      BY <2>1 DEF SaveQuote
    <3>2. quote[q].status = "none" /\ UNCHANGED <<intent, draft>>
      BY <2>1, <3>1 DEF SaveQuote, Fresh
    <3>3. RowsTyped' /\ RowFacts'
      BY <1>0, <3>1, <3>2, NewTyped DEF RowsTyped, RowFacts
    <3> QED BY <3>2, <3>3 DEF RowsKeep, Kept
  <2>2. ASSUME NEW q \in QuoteIds, NEW k \in Keys, Submit(w, q, k) PROVE RowsKeep
    BY <1>1, <1>2, <2>2 DEF Submit, rowVars
  <2>3. CASE SaveDraft(w) \/ SaveRecheck(w)
    <3>1. CASE UNCHANGED <<quote, draft>>
      BY <1>1, <2>3, <3>1 DEF SaveDraft, SaveRecheck, rowVars
    <3>2. subject[w] \in Drafts /\ UNCHANGED intent
      BY <2>3 DEF SaveDraft, SaveRecheck, QuotesIInv, RequestFacts, Consistent
    <3>3. CASE SaveDraft(w) /\ draft[subject[w]].status = "none"
      BY <1>0, <3>2, <3>3, DraftQuoted, NewTyped DEF SaveDraft
    <3>4. CASE SaveRecheck(w) /\ Recheckable(subject[w])
      BY <1>0, <3>2, <3>4, DraftQuoted, NewTyped DEF SaveRecheck, Recheckable
    <3> QED BY <2>3, <3>1, <3>3, <3>4 DEF SaveDraft, SaveRecheck
  <2>4. ASSUME NEW d \in Drafts, StartDraft(w, d) \/ StartRecheck(w, d) PROVE RowsKeep
    BY <1>1, <2>4 DEF StartDraft, StartRecheck
  <2>5. ASSUME NEW d \in Drafts, SamaConfirms(w, d) PROVE RowsKeep
    <3>1. Usable(draft[d].quote) \in BOOLEAN /\ Finalized(d) \in {"ready", "expired", "booked"}
      BY DEF Usable, Finalized
    <3> QED BY <1>3, <2>5, <3>1 DEF SamaConfirms
  <2>6. ASSUME NEW d \in Drafts, Create(w, d) PROVE RowsKeep
    <3>1. CASE draft[d].status = "ready" /\ Usable(draft[d].quote) /\ ~Taken(KeyOf(d))
      <4>1. draft[d].quote \in QuoteIds
        BY <1>0, <3>1 DEF RowFacts
      <4> QED BY <1>0, <2>6, <3>1, <4>1, QuoteOver, OverTyped
              DEF Create, Usable, QuoteBecomes, KeyOf, QuoteStatus
    <3>2. CASE ~(draft[d].status = "ready" /\ Usable(draft[d].quote) /\ ~Taken(KeyOf(d)))
      BY <1>1, <1>3, <2>6, <3>2 DEF Create, rowVars
    <3> QED BY <3>1, <3>2
  <2>7. CASE MarkBooked(w)
    <3>1. subject[w] \in Drafts /\ draft[subject[w]].status # "none"
      BY <2>7 DEF MarkBooked, QuotesIInv, RequestFacts, Consistent, DraftFacts, Creating
    <3> QED BY <1>3, <2>7, <3>1 DEF MarkBooked
  <2>8. CASE Consume(w)
    BY <2>8, ConsumeKeeps
  <2>9. CASE \/ ReadCalendar(w) \/ ReadPrice(w) \/ Search(w) \/ NoQuote(w) \/ LookForKey(w)
             \/ NotPosted(w) \/ Crash(w)
    BY <1>1, <2>9 DEF ReadCalendar, ReadPrice, Search, NoQuote, LookForKey, NotPosted, Crash
  <2>10. ASSUME NEW made \in BOOLEAN, NEW answered \in BOOLEAN, Post(w, made, answered)
         PROVE  RowsKeep
    BY <1>1, <2>10 DEF Post
  <2> QED BY <1>4, <2>1, <2>2, <2>3, <2>4, <2>5, <2>6, <2>7, <2>8, <2>9, <2>10 DEF RequestNext
<1>5. ASSUME NEW d \in Drafts, Finalize(d) PROVE RowsKeep
  BY <1>3, <1>5 DEF Finalize, Finalized
<1>6. ASSUME NEW q \in QuoteIds, QuoteGetsOld(q) \/ ExpireQuote(q) PROVE RowsKeep
  BY <1>2, <1>6 DEF QuoteGetsOld, ExpireQuote
<1>7. ASSUME NEW o \in Offers, HostMoves(o) PROVE RowsKeep
  BY <1>1, <1>7 DEF HostMoves
<1> QED BY <1>4, <1>5, <1>6, <1>7 DEF QuotesNext

-----------------------------------------------------------------------------
(* A draft's stay.                                                         *)

\* A draft whose key is taken stays so.
TakenThen(d) == \E q \in QuoteIds : intent'[q] = d

LEMMA TakenKept ==
  ASSUME Kept, NEW d \in Drafts, Taken(d)
  PROVE  TakenThen(d)
  BY DEF Kept, Taken, TakenThen

\* Nobody begins to create, asks Hostaway for a stay or books a draft.
SameCalls ==
    \A v \in Requests : Creating(v)' =>
        Creating(v) /\ subject'[v] = subject[v] /\ (step'[v] = "book" <=> step[v] = "book")
SameDrafts ==
    /\ UNCHANGED <<posts, stays>>
    /\ \A d \in Drafts : draft'[d].status = "booked" => draft[d].status = "booked"

DraftsKeep == StaysTyped' /\ DraftFacts'

LEMMA DraftsQuiet ==
  ASSUME QuotesIInv, Kept, SameCalls, SameDrafts
  PROVE  DraftsKeep
<1>1. StaysTyped'
  BY DEF SameDrafts, QuotesIInv, StaysTyped
<1>2. ASSUME NEW d \in Drafts
      PROVE  /\ stays'[d] <= posts'[d]
             /\ posts'[d] > 0 => TakenThen(d)
             /\ draft'[d].status = "booked" => stays'[d] = 1
  BY TakenKept DEF SameDrafts, QuotesIInv, DraftFacts
<1>3. ASSUME NEW w \in Requests, Creating(w)'
      PROVE  /\ TakenThen(subject[w]) /\ draft'[subject[w]].status # "none"
             /\ IF step'[w] = "book" THEN stays[subject[w]] = 1 ELSE posts[subject[w]] = 0
             /\ \A v \in Requests : Creating(v)' /\ subject[v] = subject[w] => v = w
  <2>1. Creating(w) /\ subject[w] \in Drafts
    BY <1>3 DEF SameCalls, Creating, QuotesIInv, RequestFacts, Consistent
  <2> QED BY <1>3, <2>1, TakenKept DEF SameCalls, Kept, QuotesIInv, DraftFacts
<1>4. \A w \in Requests : Creating(w)' =>
         /\ TakenThen(subject'[w]) /\ draft'[subject'[w]].status # "none"
         /\ IF step'[w] = "book" THEN stays'[subject'[w]] = 1 ELSE posts'[subject'[w]] = 0
         /\ \A v \in Requests : Creating(v)' /\ subject'[v] = subject'[w] => v = w
  BY <1>3 DEF SameCalls, SameDrafts
<1> QED BY <1>1, <1>2, <1>4 DEF DraftsKeep, DraftFacts, Taken, TakenThen

\* When one request's variables change, the others' calls are the same.
LEMMA SameBut ==
  ASSUME NEW w \in Requests, Others(w),
         Creating(w)' => /\ Creating(w) /\ subject'[w] = subject[w]
                         /\ step'[w] = "book" <=> step[w] = "book"
  PROVE  SameCalls
  BY DEF Others, SameCalls, Creating

\* The first transaction: the draft's key was free, so nobody creates its stay or has.
LEMMA CreateKeeps ==
  ASSUME QuotesIInv, Kept, NEW w \in Requests, NEW d \in Drafts, Create(w, d)
  PROVE  DraftsKeep
<1>0. RequestsTyped /\ RequestFacts /\ step[w] \in {"idle", "create"} /\ UNCHANGED hostVars
  BY DEF Create, QuotesIInv
<1>1. CASE draft[d].status = "ready" /\ Usable(draft[d].quote) /\ ~Taken(KeyOf(d))
  <2>1. /\ Ask(w, "create", d, None) /\ UNCHANGED <<draft, offer, posts, stays>>
        /\ intent' = [intent EXCEPT ![draft[d].quote] = d]
    BY <1>1 DEF Create, KeyOf, hostVars
  <2>2. Others(w) /\ step'[w] = "calendar" /\ purpose'[w] = "create" /\ subject'[w] = d
    BY <1>0, <2>1, AskKeeps DEF Purposes
  <2>3. TakenThen(d) /\ ~Taken(d)
    <3>1. draft[d].quote \in QuoteIds /\ intent \in [QuoteIds -> Keys \cup Drafts \cup {None}]
      BY <1>1 DEF QuotesIInv, RowFacts, RowsTyped
    <3> QED BY <1>1, <2>1, <3>1 DEF Taken, TakenThen, KeyOf
  <2>4. posts[d] = 0
    BY <2>3 DEF QuotesIInv, StaysTyped, DraftFacts
  <2>5. StaysTyped'
    BY <2>1 DEF QuotesIInv, StaysTyped
  <2>6. \A e \in Drafts : /\ stays[e] <= posts[e]
                          /\ posts[e] > 0 => TakenThen(e)
                          /\ draft[e].status = "booked" => stays[e] = 1
    BY TakenKept DEF QuotesIInv, DraftFacts
  <2>7. ASSUME NEW v \in Requests \ {w}, Creating(v)'
        PROVE  /\ Creating(v) /\ subject'[v] = subject[v] /\ step'[v] = step[v]
               /\ subject[v] \in Drafts \ {d} /\ TakenThen(subject[v])
    BY <2>2, <2>3, <2>7, TakenKept
    DEF Others, Creating, QuotesIInv, RequestFacts, Consistent, DraftFacts
  <2>8. ASSUME NEW v \in Requests, Creating(v)'
        PROVE  /\ TakenThen(subject'[v]) /\ draft'[subject'[v]].status # "none"
               /\ IF step'[v] = "book" THEN stays'[subject'[v]] = 1 ELSE posts'[subject'[v]] = 0
               /\ \A u \in Requests : Creating(u)' /\ subject'[u] = subject'[v] => u = v
    <3>1. CASE v = w
      BY <1>1, <2>1, <2>2, <2>3, <2>4, <2>7, <3>1
    <3>2. CASE v # w
      BY <2>1, <2>2, <2>7, <2>8, <3>2 DEF QuotesIInv, DraftFacts
    <3> QED BY <3>1, <3>2
  <2> QED BY <2>1, <2>5, <2>6, <2>8 DEF DraftsKeep, DraftFacts, Taken, TakenThen
<1>2. CASE ~(draft[d].status = "ready" /\ Usable(draft[d].quote) /\ ~Taken(KeyOf(d)))
  <2>1. SameDrafts
    BY <1>0, <1>2 DEF Create, SameDrafts, hostVars, QuotesIInv, RowsTyped, DraftRow
  <2>2. SameCalls
    <3>1. CASE UNCHANGED requestVars
      BY <3>1 DEF requestVars, SameCalls, Creating
    <3>2. CASE Ends(w)
      BY <1>0, <3>2, EndsKeeps, SameBut DEF Creating, hostVars
    <3> QED BY <1>2, <3>1, <3>2 DEF Create
  <2> QED BY <2>1, <2>2, DraftsQuiet
<1> QED BY <1>1, <1>2

\* The reservation is asked for by the only request that creates the draft's stay.
LEMMA PostKeeps ==
  ASSUME QuotesIInv, Kept, NEW w \in Requests, NEW made \in BOOLEAN, NEW answered \in BOOLEAN,
         Post(w, made, answered)
  PROVE  DraftsKeep
<1> DEFINE d == subject[w]
<1>1. /\ RequestsTyped /\ RequestFacts /\ RowsTyped
      /\ d \in Drafts /\ Creating(w) /\ UNCHANGED <<offer, intent, draft>>
      /\ posts[d] = 0 /\ stays[d] = 0 /\ Taken(d) /\ draft[d].status # "none"
      /\ \A v \in Requests : Creating(v) /\ subject[v] = d => v = w
  BY DEF Post, QuotesIInv, RequestFacts, Consistent, Creating, DraftFacts, StaysTyped, rowVars
<1>2. /\ posts' = [posts EXCEPT ![d] = 1]
      /\ stays' = [stays EXCEPT ![d] = IF made THEN 1 ELSE 0]
  BY <1>1 DEF Post, QuotesIInv, StaysTyped
<1>3. StaysTyped'
  BY <1>1, <1>2 DEF QuotesIInv, StaysTyped
<1>4. \A e \in Drafts : /\ stays'[e] <= posts'[e]
                        /\ posts'[e] > 0 => TakenThen(e)
                        /\ draft'[e].status = "booked" => stays'[e] = 1
  BY <1>1, <1>2, TakenKept DEF QuotesIInv, StaysTyped, DraftFacts
<1>5. /\ Others(w)
      /\ Creating(w)' => made /\ step'[w] = "book" /\ subject'[w] = d
  <2>0. /\ readPrice[w] \in 0 .. MaxPrice /\ Consistent(w) /\ (w \in Binding => Witnessed(w))
        /\ readPrice' = readPrice => readPrice' = [readPrice EXCEPT ![w] = readPrice[w]]
    BY <1>1 DEF RequestsTyped, RequestFacts
  <2>1. CASE made /\ answered
    BY <1>1, <2>0, <2>1, GoesKeeps DEF Post, Steps, Witnessed
  <2>2. CASE ~(made /\ answered)
    BY <1>1, <2>2, EndsKeeps DEF Post, Creating
  <2> QED BY <2>1, <2>2
<1>6. ASSUME NEW v \in Requests, Creating(v)'
      PROVE  /\ TakenThen(subject'[v]) /\ draft'[subject'[v]].status # "none"
             /\ IF step'[v] = "book" THEN stays'[subject'[v]] = 1 ELSE posts'[subject'[v]] = 0
             /\ \A u \in Requests : Creating(u)' /\ subject'[u] = subject'[v] => u = v
  <2>1. \A u \in Requests : Creating(u)' =>
          /\ Creating(u) /\ subject'[u] = subject[u] /\ subject[u] \in Drafts
          /\ u # w => step'[u] = step[u] /\ subject[u] # d
    BY <1>1, <1>5 DEF Others, Creating, QuotesIInv, RequestFacts, Consistent
  <2>2. TakenThen(subject[v]) /\ draft'[subject[v]].status # "none"
    BY <1>1, <1>6, <2>1, TakenKept DEF QuotesIInv, DraftFacts
  <2>3. IF step'[v] = "book" THEN stays'[subject[v]] = 1 ELSE posts'[subject[v]] = 0
    BY <1>1, <1>2, <1>5, <1>6, <2>1 DEF QuotesIInv, DraftFacts, StaysTyped
  <2>4. \A u \in Requests : Creating(u)' /\ subject'[u] = subject'[v] => u = v
    BY <1>6, <2>1 DEF QuotesIInv, DraftFacts
  <2> QED BY <1>6, <2>1, <2>2, <2>3, <2>4
<1> QED BY <1>3, <1>4, <1>6 DEF DraftsKeep, DraftFacts, Taken, TakenThen

\* The draft says booked when Hostaway has answered that the stay is made.
LEMMA MarkKeeps ==
  ASSUME QuotesIInv, Kept, NEW w \in Requests, MarkBooked(w)
  PROVE  DraftsKeep
<1>1. /\ RequestsTyped /\ RequestFacts /\ Creating(w) /\ subject[w] \in Drafts
      /\ stays[subject[w]] = 1 /\ UNCHANGED <<offer, posts, stays, intent>>
  BY DEF MarkBooked, QuotesIInv, RequestFacts, Consistent, Creating, DraftFacts, hostVars
<1>2. SameCalls
  BY <1>1, EndsKeeps, SameBut DEF MarkBooked, Creating
<1>3. \A d \in Drafts : draft'[d].status = "booked" => draft[d].status = "booked" \/ d = subject[w]
  BY <1>1 DEF MarkBooked, QuotesIInv, RowsTyped
<1>4. StaysTyped'
  BY <1>1 DEF QuotesIInv, StaysTyped
<1>5. \A d \in Drafts : /\ stays'[d] <= posts'[d]
                        /\ posts'[d] > 0 => TakenThen(d)
                        /\ draft'[d].status = "booked" => stays'[d] = 1
  BY <1>1, <1>3, TakenKept DEF QuotesIInv, DraftFacts
<1>6. ASSUME NEW v \in Requests, Creating(v)'
      PROVE  /\ TakenThen(subject[v]) /\ draft'[subject[v]].status # "none"
             /\ IF step'[v] = "book" THEN stays[subject[v]] = 1 ELSE posts[subject[v]] = 0
             /\ \A u \in Requests : Creating(u)' /\ subject[u] = subject[v] => u = v
  <2>1. Creating(v) /\ subject[v] \in Drafts
    BY <1>2, <1>6 DEF SameCalls, Creating, QuotesIInv, RequestFacts, Consistent
  <2> QED BY <1>2, <1>6, <2>1, TakenKept DEF SameCalls, Kept, QuotesIInv, DraftFacts
<1>7. \A v \in Requests : Creating(v)' =>
         /\ TakenThen(subject'[v]) /\ draft'[subject'[v]].status # "none"
         /\ IF step'[v] = "book" THEN stays'[subject'[v]] = 1 ELSE posts'[subject'[v]] = 0
         /\ \A u \in Requests : Creating(u)' /\ subject'[u] = subject'[v] => u = v
  BY <1>1, <1>2, <1>6 DEF SameCalls
<1> QED BY <1>4, <1>5, <1>7 DEF DraftsKeep, DraftFacts, Taken, TakenThen

LEMMA DraftsPreserved ==
  ASSUME QuotesIInv, QuotesNext
  PROVE  DraftsKeep
<1>0. RequestsTyped /\ RequestFacts /\ RowsTyped /\ RowFacts /\ Kept
  BY RowsPreserved DEF QuotesIInv, RowsKeep
<1>1. ASSUME NEW o \in Offers, HostMoves(o) PROVE DraftsKeep
  BY <1>0, <1>1, DraftsQuiet DEF HostMoves, rowVars, SameCalls, SameDrafts, Creating
<1>2. ASSUME NEW q \in QuoteIds, QuoteGetsOld(q) \/ ExpireQuote(q) PROVE DraftsKeep
  BY <1>0, <1>2, DraftsQuiet
  DEF QuoteGetsOld, ExpireQuote, hostVars, requestVars, SameCalls, SameDrafts, Creating
<1>3. ASSUME NEW d \in Drafts, Finalize(d) PROVE DraftsKeep
  <2>1. SameDrafts
    BY <1>0, <1>3 DEF Finalize, Finalized, hostVars, SameDrafts, RowsTyped, DraftRow
  <2>2. SameCalls
    BY <1>3 DEF Finalize, requestVars, SameCalls, Creating
  <2> QED BY <1>0, <2>1, <2>2, DraftsQuiet
<1>4. ASSUME NEW w \in Requests, RequestNext(w) PROVE DraftsKeep
  <2>0. /\ readPrice[w] \in 0 .. MaxPrice /\ offer \in Offers
        /\ readPrice' = readPrice => readPrice' = [readPrice EXCEPT ![w] = readPrice[w]]
        /\ Consistent(w) /\ (w \in Binding => Witnessed(w))
    BY <1>0 DEF RequestsTyped, RequestFacts
  <2>1. CASE ReadCalendar(w) \/ ReadPrice(w) \/ (LookForKey(w) /\ ~Taken(key[w]))
    <3>1. /\ step[w] \notin {"create", "book"} /\ UNCHANGED <<posts, stays, draft>>
          /\ \E s \in {"price", "write", "consume"} : Goes(w, s)
      BY <2>1 DEF ReadCalendar, ReadPrice, LookForKey, hostVars, rowVars
    <3>2. PICK s \in {"price", "write", "consume"} : Goes(w, s)
      BY <3>1
    <3>3. step' = [step EXCEPT ![w] = s] /\ UNCHANGED <<purpose, subject>>
      BY <3>2 DEF Goes
    <3>4. SameCalls
      BY <1>0, <3>1, <3>3 DEF SameCalls, Creating, RequestsTyped
    <3> QED BY <1>0, <3>1, <3>4, DraftsQuiet DEF SameDrafts
  <2>2. ASSUME NEW p \in {"search", "details", "draft", "recheck"},
               NEW s \in QuoteIds \cup Drafts \cup {None}, NEW k \in Keys \cup {None},
               step[w] = "idle", Ask(w, p, s, k), UNCHANGED <<posts, stays, draft>>
        PROVE  DraftsKeep
    <3>1. step' = [step EXCEPT ![w] = "calendar"] /\ purpose' = [purpose EXCEPT ![w] = p]
          /\ subject' = [subject EXCEPT ![w] = s]
      BY <2>2 DEF Ask
    <3>2. SameCalls
      BY <1>0, <3>1 DEF SameCalls, Creating, RequestsTyped
    <3> QED BY <1>0, <2>2, <3>2, DraftsQuiet DEF SameDrafts
  <2>3. CASE Search(w)
    BY <2>2, <2>3 DEF Search, hostVars, rowVars
  <2>4. ASSUME NEW q \in QuoteIds, NEW k \in Keys, Submit(w, q, k) PROVE DraftsKeep
    BY <2>2, <2>4 DEF Submit, hostVars
  <2>5. ASSUME NEW d \in Drafts, StartDraft(w, d) \/ StartRecheck(w, d) PROVE DraftsKeep
    BY <2>2, <2>5 DEF StartDraft, StartRecheck, hostVars, rowVars
  <2>6. CASE \/ NoQuote(w) \/ SaveQuote(w) \/ SaveDraft(w) \/ SaveRecheck(w) \/ NotPosted(w)
             \/ Consume(w) \/ Crash(w) \/ (LookForKey(w) /\ Taken(key[w]))
    <3>1. Ends(w) /\ UNCHANGED hostVars
      BY <2>6 DEF NoQuote, SaveQuote, SaveDraft, SaveRecheck, NotPosted, Consume, Crash, LookForKey
    <3>2. SameCalls
      BY <1>0, <3>1, EndsKeeps, SameBut DEF Creating, hostVars
    <3>3. CASE UNCHANGED draft
      BY <1>0, <3>1, <3>2, <3>3, DraftsQuiet DEF SameDrafts, hostVars
    <3>4. CASE \E q \in QuoteIds : draft' = [draft EXCEPT ![subject[w]] = Quoted(subject[w], q)]
      BY <1>0, <3>1, <3>2, <3>4, DraftsQuiet DEF SameDrafts, hostVars, Quoted, RowsTyped
    <3> QED BY <2>6, <3>3, <3>4 DEF NoQuote, SaveQuote, SaveDraft, SaveRecheck, NotPosted, Consume,
         Crash, LookForKey, rowVars
  <2>7. ASSUME NEW d \in Drafts, SamaConfirms(w, d) PROVE DraftsKeep
    <3>1. SameDrafts
      <4>1. \A e \in Drafts : draft'[e].status \in {draft[e].status, "ready", "expired"}
        BY <1>0, <2>7 DEF SamaConfirms, Finalized, RowsTyped, DraftRow
      <4> QED BY <2>7, <4>1 DEF SamaConfirms, SameDrafts, hostVars
    <3>2. SameCalls
      <4>1. CASE UNCHANGED requestVars
        BY <4>1 DEF requestVars, SameCalls, Creating
      <4>2. CASE /\ step' = [step EXCEPT ![w] = "create"]
                 /\ purpose' = [purpose EXCEPT ![w] = "create"]
                 /\ subject' = [subject EXCEPT ![w] = d]
        BY <1>0, <4>2 DEF RequestsTyped, SameCalls, Creating
      <4> QED BY <2>7, <4>1, <4>2 DEF SamaConfirms
    <3> QED BY <1>0, <3>1, <3>2, DraftsQuiet
  <2>8. ASSUME NEW d \in Drafts, Create(w, d) PROVE DraftsKeep
    BY <1>0, <2>8, CreateKeeps
  <2>9. ASSUME NEW made \in BOOLEAN, NEW answered \in BOOLEAN, Post(w, made, answered)
        PROVE  DraftsKeep
    BY <1>0, <2>9, PostKeeps
  <2>10. CASE MarkBooked(w)
    BY <1>0, <2>10, MarkKeeps
  <2> QED BY <1>4, <2>1, <2>3, <2>4, <2>5, <2>6, <2>7, <2>8, <2>9, <2>10 DEF RequestNext, LookForKey
<1> QED BY <1>1, <1>2, <1>3, <1>4 DEF QuotesNext

-----------------------------------------------------------------------------
\* The inductive invariant: a request knows what Hostaway held since it began, a quote has an
\* intent only when it is consumed, and the one request that creates a draft's stay has the
\* draft's key (_manual_intent_idempotency_key).
THEOREM QuotesInvariant == QuotesSpec => []QuotesIInv
<1>1. QuotesIInv /\ [QuotesNext]_quotesVars => QuotesIInv'
  <2>1. ASSUME QuotesIInv, QuotesNext PROVE QuotesIInv'
    BY <2>1, RequestsPreserved, RowsPreserved, DraftsPreserved DEF RowsKeep, DraftsKeep, QuotesIInv
  <2>2. ASSUME QuotesIInv, UNCHANGED quotesVars PROVE QuotesIInv'
    <3>1. RequestsTyped' /\ RequestFacts'
      BY <2>2, QuietRequests DEF quotesVars, hostVars, QuotesIInv
    <3>2. RowsTyped' /\ RowFacts' /\ Kept
      BY <2>2 DEF quotesVars, rowVars, QuotesIInv, RowsTyped, RowFacts, Kept
    <3>3. SameCalls /\ SameDrafts
      BY <2>2 DEF quotesVars, hostVars, rowVars, requestVars, SameCalls, SameDrafts, Creating
    <3> QED BY <2>2, <3>1, <3>2, <3>3, DraftsQuiet DEF QuotesIInv, DraftsKeep
  <2> QED BY <2>1, <2>2
<1> QED BY <1>1, QuotesInitial, PTL DEF QuotesSpec

\* Every quote, draft and request holds a value the code writes.
THEOREM QuotesTypeCorrect == QuotesSpec => []QuotesTypeOK
<1>1. QuotesIInv => QuotesTypeOK
  BY DEF QuotesIInv, RowsTyped, RequestsTyped, QuoteRow, DraftRow, QuotesTypeOK
<1> QED BY <1>1, QuotesInvariant, PTL

\* One stay at most is asked of Hostaway for a draft, and a draft that says booked has its
\* stay there, however it is rechecked, completed and clicked.
THEOREM DraftsBookOnce == QuotesSpec => []DraftBooksOnce
<1>1. QuotesIInv => DraftBooksOnce
  BY DEF QuotesIInv, StaysTyped, DraftFacts, DraftBooksOnce
<1> QED BY <1>1, QuotesInvariant, PTL

\* Only Post asks Hostaway for a stay.
LEMMA PostedByPost ==
  ASSUME QuotesNext, posts' # posts
  PROVE  \E w \in Requests, made \in BOOLEAN, answered \in BOOLEAN : Post(w, made, answered)
<1>1. ASSUME NEW w \in Requests, RequestNext(w),
             ~\E made, answered \in BOOLEAN : Post(w, made, answered)
      PROVE  UNCHANGED posts
  <2>1. CASE \/ ReadCalendar(w) \/ ReadPrice(w) \/ Search(w) \/ NoQuote(w) \/ SaveQuote(w)
             \/ LookForKey(w) \/ Consume(w) \/ SaveDraft(w) \/ SaveRecheck(w) \/ NotPosted(w)
             \/ MarkBooked(w) \/ Crash(w)
    BY <2>1 DEF ReadCalendar, ReadPrice, Search, NoQuote, SaveQuote, LookForKey, Consume,
       SaveDraft, SaveRecheck, NotPosted, MarkBooked, Crash, hostVars
  <2>2. CASE \/ \E q \in QuoteIds, k \in Keys : Submit(w, q, k)
             \/ \E d \in Drafts : StartDraft(w, d) \/ StartRecheck(w, d)
             \/ \E d \in Drafts : SamaConfirms(w, d) \/ Create(w, d)
    BY <2>2 DEF Submit, StartDraft, StartRecheck, SamaConfirms, Create, hostVars
  <2> QED BY <1>1, <2>1, <2>2 DEF RequestNext
<1>2. CASE \/ \E o \in Offers : HostMoves(o)
           \/ \E q \in QuoteIds : QuoteGetsOld(q) \/ ExpireQuote(q)
           \/ \E d \in Drafts : Finalize(d)
  BY <1>2 DEF HostMoves, QuoteGetsOld, ExpireQuote, Finalize, hostVars
<1> QED BY <1>1, <1>2 DEF QuotesNext

\* Only Book consumes a guest's quote.
Consumes(q) ==
    quote[q].status # "consumed" /\ quote'[q].status = "consumed" /\ ~quote[q].owners

LEMMA ConsumedByBook ==
  ASSUME QuotesIInv, QuotesNext, NEW q \in QuoteIds, Consumes(q)
  PROVE  \E w \in Requests : Consume(w) /\ subject[w] = q /\ Book(w, q)
<1>0. RowsTyped /\ RowFacts /\ quote[q].status # "consumed" /\ quote'[q].status = "consumed"
  BY DEF Consumes, QuotesIInv
<1>1. ASSUME UNCHANGED quote PROVE FALSE
  BY <1>0, <1>1
<1>2. ASSUME NEW r \in QuoteIds, NEW s \in QuoteStatus \ {"consumed"}, QuoteBecomes(r, s)
      PROVE  FALSE
  BY <1>0, <1>2 DEF QuoteBecomes, Over, RowsTyped
<1>3. ASSUME NEW w \in Requests, RequestNext(w), ~(Consume(w) /\ subject[w] = q /\ Book(w, q))
      PROVE  FALSE
  <2>1. CASE \/ ReadCalendar(w) \/ ReadPrice(w) \/ Search(w) \/ NoQuote(w) \/ LookForKey(w)
             \/ NotPosted(w) \/ MarkBooked(w) \/ Crash(w)
             \/ \E made, answered \in BOOLEAN : Post(w, made, answered)
             \/ \E d \in Drafts : StartDraft(w, d) \/ StartRecheck(w, d) \/ SamaConfirms(w, d)
    BY <1>1, <2>1 DEF ReadCalendar, ReadPrice, Search, NoQuote, LookForKey, NotPosted, MarkBooked,
       Crash, Post, StartDraft, StartRecheck, SamaConfirms, rowVars
  <2>2. CASE SaveQuote(w) \/ SaveDraft(w)
    BY <1>0, <1>1, <2>2 DEF SaveQuote, SaveDraft, NewQuote, RowsTyped
  <2>3. CASE SaveRecheck(w)
    BY <1>0, <1>1, <2>3 DEF SaveRecheck, NewQuote, Over, RowsTyped
  <2>4. CASE \E r \in QuoteIds, k \in Keys : Submit(w, r, k)
    BY <1>1, <1>2, <2>4 DEF Submit, QuoteStatus
  <2>5. CASE Consume(w)
    <3>1. subject[w] \in QuoteIds
      BY <2>5 DEF Consume, QuotesIInv, RequestFacts, Consistent
    <3>2. CASE Refuse(w, subject[w])
      BY <1>1, <1>2, <3>1, <3>2 DEF Refuse, QuoteStatus
    <3>3. CASE Requote(w, subject[w])
      BY <1>0, <3>1, <3>3 DEF Requote, NewQuote, Over, RowsTyped
    <3>4. CASE Book(w, subject[w])
      BY <1>0, <1>3, <2>5, <3>1, <3>4 DEF Book, QuoteBecomes, RowsTyped
    <3> QED BY <1>1, <2>5, <3>2, <3>3, <3>4 DEF Consume
  <2>6. CASE \E d \in Drafts : Create(w, d)
    <3>1. PICK d \in Drafts : Create(w, d)
      BY <2>6
    <3>2. draft[d].status = "ready" /\ QuoteBecomes(draft[d].quote, "consumed")
      BY <1>1, <3>1 DEF Create
    <3>3. quote[draft[d].quote].owners /\ draft[d].quote \in QuoteIds
      BY <1>0, <3>2 DEF RowFacts
    <3>4. q = draft[d].quote
      BY <1>0, <3>2, <3>3 DEF QuoteBecomes, RowsTyped
    <3> QED BY <3>3, <3>4 DEF Consumes
  <2> QED BY <1>3, <2>1, <2>2, <2>3, <2>4, <2>5, <2>6 DEF RequestNext
<1>4. ASSUME NEW r \in QuoteIds, QuoteGetsOld(r) \/ ExpireQuote(r) PROVE FALSE
  BY <1>0, <1>2, <1>4 DEF QuoteGetsOld, ExpireQuote, QuoteStatus, RowsTyped, QuoteRow
<1>5. CASE (\E o \in Offers : HostMoves(o)) \/ (\E d \in Drafts : Finalize(d))
  BY <1>1, <1>5 DEF HostMoves, Finalize, rowVars
<1> QED BY <1>3, <1>4, <1>5 DEF QuotesNext

\* What the code promises of a step that consumes a quote or asks for a stay.
Honoured ==
    /\ \A q \in QuoteIds : Consumes(q) =>
         \E w \in Requests : subject[w] = q /\ opened[w] /\ quote[q].price \in prices[w]
    /\ \A d \in Drafts : posts'[d] # posts[d] =>
         \E w \in Requests : subject[w] = d /\ opened[w]

\* A guest's quote is consumed, and a draft's stay asked for, only by a request that saw the
\* stay open at Hostaway since it began, and the quote's price there.
THEOREM OffersAreHonoured == QuotesSpec => BookedAsOffered
<1>1. ASSUME QuotesIInv, QuotesNext PROVE Honoured
  <2>0. RowsTyped /\ RowFacts /\ RequestsTyped /\ RequestFacts /\ StaysTyped
    BY <1>1 DEF QuotesIInv
  <2>1. ASSUME NEW q \in QuoteIds, Consumes(q)
        PROVE  \E w \in Requests : subject[w] = q /\ opened[w] /\ quote[q].price \in prices[w]
    <3>1. PICK w \in Requests : Consume(w) /\ subject[w] = q /\ Book(w, q)
      BY <1>1, <2>1, ConsumedByBook
    <3> QED BY <2>0, <3>1
        DEF Consume, Book, Live, PriceHolds, Available, RequestFacts, Consistent, Binding, Witnessed
  <2>2. ASSUME NEW d \in Drafts, posts'[d] # posts[d]
        PROVE  \E w \in Requests : subject[w] = d /\ opened[w]
    <3>1. PICK w \in Requests, made \in BOOLEAN, answered \in BOOLEAN : Post(w, made, answered)
      BY <1>1, <2>2, PostedByPost
    <3> QED BY <2>0, <2>2, <3>1 DEF Post, Available, StaysTyped, RequestFacts, Binding, Witnessed
  <2> QED BY <2>1, <2>2 DEF Honoured
<1>2. QuotesIInv /\ [QuotesNext]_quotesVars => [Honoured]_quotesVars
  BY <1>1
<1>3. QuotesSpec => [][Honoured]_quotesVars
  BY <1>2, QuotesInvariant, PTL DEF QuotesSpec
<1>4. Honoured =>
        /\ \A q \in QuoteIds : quote[q].status # "consumed" /\ quote'[q].status = "consumed"
                /\ ~quote[q].owners =>
             \E w \in Requests : subject[w] = q /\ opened[w] /\ quote[q].price \in prices[w]
        /\ \A d \in Drafts : posts'[d] # posts[d] =>
             \E w \in Requests : subject[w] = d /\ opened[w]
  BY DEF Honoured, Consumes
<1> QED BY <1>3, <1>4, PTL DEF BookedAsOffered

-----------------------------------------------------------------------------
(* The calendar.                                                           *)

\* A day as Hostaway's answer is read: flags, limits and unit counts, which may be unknown.
Day == [closedOnArrival : BOOLEAN, closedOnDeparture : BOOLEAN,
        min : Nat \cup {None}, max : Nat \cup {None},
        sell : Int \cup {None}, count : Int \cup {None}, desired : Int \cup {None},
        reserved : BOOLEAN, open : BOOLEAN \cup {None}]

\* What a number of units says: nothing when unknown, else whether it is positive.
LEMMA SaysIt ==
  ASSUME NEW u \in Int \cup {None}
  PROVE  /\ Says(u) \in SUBSET BOOLEAN
         /\ (TRUE \in Says(u)) <=> (u # None /\ u > 0)
         /\ (FALSE \in Says(u)) <=> (u # None /\ ~(u > 0))
<1>1. CASE u = None BY <1>1 DEF Says
<1>2. CASE u # None /\ u > 0
  <2>1. (u > 0) = TRUE BY <1>2
  <2> QED BY <1>2, <2>1 DEF Says
<1>3. CASE u # None /\ ~(u > 0)
  <2>1. (u > 0) = FALSE BY <1>3
  <2> QED BY <1>3, <2>1 DEF Says
<1> QED BY <1>1, <1>2, <1>3

\* The unit counts a day has.
UnitsKnown(day) == {day.sell, day.count, day.desired} \ {None}

\* The signals of a day: yes and no, from its unit counts and the flag.
LEMMA SignalsMean ==
  ASSUME NEW day \in Day
  PROVE  /\ Signals(day) \in SUBSET BOOLEAN
         /\ (FALSE \in Signals(day)) <=> ((\E v \in UnitsKnown(day) : ~(v > 0)) \/ day.open = FALSE)
         /\ (TRUE \in Signals(day)) <=> ((\E v \in UnitsKnown(day) : v > 0) \/ day.open = TRUE)
<1> DEFINE U == UnitSignals(day)
<1>1. U[1] = Says(day.sell) /\ U[2] = Says(day.count) /\ U[3] = Says(day.desired)
  BY DEF UnitSignals
<1>2. 1 .. 3 = {1, 2, 3}
  OBVIOUS
<1> HIDE DEF U
<1> DEFINE D == IF day.open = None THEN {} ELSE {day.open}
<1> HIDE DEF D
<1>3. \A x : x \in Signals(day) <=> (\E i \in 1 .. 3 : x \in U[i]) \/ x \in D
  <2>1. Signals(day) = (UNION {U[i] : i \in 1 .. 3}) \cup D BY DEF Signals, U, D
  <2> QED BY ONLY <2>1
<1>4. \A x : x \in Signals(day) <=> \/ x \in Says(day.sell) \/ x \in Says(day.count)
                                  \/ x \in Says(day.desired) \/ x \in D
  BY <1>1, <1>2, <1>3
<1>5. D \in SUBSET BOOLEAN /\ (TRUE \in D <=> day.open = TRUE) /\ (FALSE \in D <=> day.open = FALSE)
  <2>1. day.open \in BOOLEAN \cup {None} BY DEF Day
  <2> QED BY <2>1, NoneAssumption DEF D
<1>6. day.sell \in Int \cup {None} /\ day.count \in Int \cup {None}
      /\ day.desired \in Int \cup {None}
  BY DEF Day
<1>7. Signals(day) \in SUBSET BOOLEAN
  BY <1>4, <1>5, <1>6, SaysIt
<1>9. UnitsKnown(day) = {day.sell, day.count, day.desired} \ {None}
  BY DEF UnitsKnown
<1>10. (FALSE \in Signals(day)) <=> ((\E v \in UnitsKnown(day) : ~(v > 0)) \/ day.open = FALSE)
  <2>1. (FALSE \in Signals(day)) <=>
           \/ (day.sell # None /\ ~(day.sell > 0)) \/ (day.count # None /\ ~(day.count > 0))
           \/ (day.desired # None /\ ~(day.desired > 0)) \/ day.open = FALSE
    BY <1>4, <1>5, <1>6, SaysIt
  <2> QED BY <2>1, <1>9
<1>11. (TRUE \in Signals(day)) <=> ((\E v \in UnitsKnown(day) : v > 0) \/ day.open = TRUE)
  <2>1. (TRUE \in Signals(day)) <=>
           \/ (day.sell # None /\ day.sell > 0) \/ (day.count # None /\ day.count > 0)
           \/ (day.desired # None /\ day.desired > 0) \/ day.open = TRUE
    BY <1>4, <1>5, <1>6, SaysIt
  <2> QED BY <2>1, <1>9
<1> QED BY <1>7, <1>10, <1>11

\* Two elements of two make more than one.
LEMMA OfTwo ==
  ASSUME NEW a, NEW b, a # b, NEW S \in SUBSET {a, b}
  PROVE  Cardinality(S) > 1 <=> a \in S /\ b \in S
<1>1. IsFiniteSet({}) /\ Cardinality({}) = 0 BY FS_EmptySet
<1>2. \A x : IsFiniteSet({x}) /\ Cardinality({x}) = 1 BY FS_Singleton
<1>3. Cardinality({a} \cup {b}) = 2
  <2> DEFINE T == {a}
  <2>1. IsFiniteSet(T) /\ Cardinality(T) = 1 /\ b \notin T BY <1>2
  <2> HIDE DEF T
  <2>2. Cardinality(T \cup {b}) = 2 BY <2>1, FS_AddElement
  <2> QED BY <2>2 DEF T
<1>4. CASE a \in S /\ b \in S
  <2>1. S = {a} \cup {b} BY <1>4
  <2> QED BY <1>3, <1>4, <2>1
<1>5. CASE ~(a \in S /\ b \in S)
  <2>1. S = {} \/ S = {a} \/ S = {b} BY <1>5
  <2>2. Cardinality(S) \in {0, 1} BY <1>1, <1>2, <2>1
  <2> QED BY <1>5, <2>2
<1> QED BY <1>4, <1>5

\* A day's answers conflict when one says yes and another no.
LEMMA Conflicting ==
  ASSUME NEW day \in Day
  PROVE  Conflict(day) <=> TRUE \in Signals(day) /\ FALSE \in Signals(day)
<1>1. Signals(day) \in SUBSET {TRUE, FALSE} /\ TRUE # FALSE BY SignalsMean
<1> QED BY <1>1, OfTwo DEF Conflict


\* resolve_day_inventory, in the words of what a night for sale is.
LEMMA Selling ==
  ASSUME NEW day \in Day
  PROVE  Sells(day) <=> ForSale(day)
<1> DEFINE U == UnitSignals(day)
<1>1. U[1] = Says(day.sell) /\ U[2] = Says(day.count) /\ U[3] = Says(day.desired)
  BY DEF UnitSignals
<1>2. 1 .. 3 = {1, 2, 3}
  OBVIOUS
<1> HIDE DEF U
<1>3. /\ day.sell \in Int \cup {None} /\ day.count \in Int \cup {None}
      /\ day.desired \in Int \cup {None} /\ day.open \in BOOLEAN \cup {None}
      /\ day.reserved \in BOOLEAN
  BY DEF Day
<1>4. \A u \in Int \cup {None} : /\ (Says(u) # {}) <=> u # None
                                 /\ (Says(u) = {TRUE}) <=> (u # None /\ u > 0)
  BY SaysIt DEF Says
<1>5. MultiUnit(day) <=> day.reserved \/ UnitsKnown(day) # {}
  <2>1. MultiUnit(day) <=> day.reserved \/ U[1] # {} \/ U[2] # {} \/ U[3] # {}
    BY <1>2 DEF MultiUnit, U
  <2> QED BY <1>1, <1>3, <1>4, <2>1 DEF UnitsKnown
<1>6. (\E i \in 1 .. 3 : U[i] = {TRUE}) <=> \E v \in UnitsKnown(day) : v > 0
  <2>1. (\E i \in 1 .. 3 : U[i] = {TRUE}) <=> U[1] = {TRUE} \/ U[2] = {TRUE} \/ U[3] = {TRUE}
    BY <1>2
  <2> QED BY <1>1, <1>3, <1>4, <2>1 DEF UnitsKnown
<1>7. Sells(day) <=> /\ ~(TRUE \in Signals(day) /\ FALSE \in Signals(day))
                     /\ IF day.reserved \/ UnitsKnown(day) # {}
                        THEN \E v \in UnitsKnown(day) : v > 0
                        ELSE day.open = TRUE
  BY <1>5, <1>6, Conflicting DEF Sells, U
<1>8. ForSale(day) <=> /\ \A v \in UnitsKnown(day) : v > 0
                       /\ day.open # FALSE
                       /\ UnitsKnown(day) # {} \/ (~day.reserved /\ day.open = TRUE)
  BY DEF ForSale, UnitsKnown
<1> QED BY <1>3, <1>7, <1>8, SignalsMean

\* evaluate_calendar: on every calendar, for every stay and every extension, "available" is
\* answered exactly when every night is known and for sale and no rule of the arrival, of the
\* departure or of the length forbids it.
THEOREM EvaluateIsRight ==
  ASSUME NEW D \in SUBSET Int, NEW days \in [D -> Day], NEW i \in Int, NEW o \in Int,
         NEW e \in Int \cup {None}, e # None => e < i
  PROVE  EvaluateCalendar(days, i, o, e) = "available"
           <=> MayStay(days, IF e = None THEN i ELSE e, i, o)
<1> DEFINE first == IF e = None THEN i ELSE e
           nights == Nights(i, o)
<1>1. first \in Int /\ (e = None <=> first = i) /\ (e # None => first < i)
  OBVIOUS
<1> HIDE DEF first
<1>2. CASE ~(i < o /\ o - first <= 366)
  BY <1>1, <1>2 DEF EvaluateCalendar, MayStay, first
<1>3. CASE i < o /\ o - first <= 366
  <2>1. nights \cup {i, o} \subseteq D <=> \A n \in i .. o : n \in D
    BY <1>3 DEF Nights
  <2>2. CASE ~(nights \cup {i, o} \subseteq D)
    BY <1>1, <1>3, <2>1, <2>2 DEF EvaluateCalendar, MayStay, first
  <2>3. CASE nights \cup {i, o} \subseteq D
    <3>1. /\ i \in D /\ o \in D /\ days[i] \in Day /\ days[o] \in Day
          /\ \A n \in nights : days[n] \in Day
      BY <2>3
    <3>2. /\ days[i].closedOnArrival \in BOOLEAN /\ days[o].closedOnDeparture \in BOOLEAN
          /\ days[i].min \in Nat \cup {None} /\ days[i].max \in Nat \cup {None}
      BY <3>1 DEF Day
    <3>3. (\A n \in nights : ForSale(days[n])) <=> \A n \in nights : Sells(days[n])
      BY <3>1, Selling
    <3>4. EvaluateCalendar(days, i, o, e) = "available" <=>
            /\ ~(e = None /\ days[i].closedOnArrival) /\ ~days[o].closedOnDeparture
            /\ days[i].min = None \/ ~(o - first < days[i].min)
            /\ days[i].max = None \/ ~(o - first > days[i].max)
            /\ \A n \in nights : ~Conflict(days[n])
            /\ \A n \in nights : Sells(days[n])
      BY <1>1, <1>3, <2>3 DEF EvaluateCalendar, first
    <3>5. MayStay(days, first, i, o) <=>
            /\ \A n \in nights : ForSale(days[n])
            /\ (e = None) => ~days[i].closedOnArrival
            /\ ~days[o].closedOnDeparture
            /\ days[i].min = None \/ o - first >= days[i].min
            /\ days[i].max = None \/ o - first <= days[i].max
      BY <1>1, <1>3, <2>1, <2>3 DEF MayStay, Nights
    <3>6. (\A n \in nights : Sells(days[n])) => \A n \in nights : ~Conflict(days[n])
      BY DEF Sells
    <3> HIDE DEF nights
    <3>7. /\ days[i].min = None \/ (~(o - first < days[i].min) <=> o - first >= days[i].min)
          /\ days[i].max = None \/ (~(o - first > days[i].max) <=> o - first <= days[i].max)
      BY <1>1, <3>2
    <3>8. EvaluateCalendar(days, i, o, e) = "available" <=> MayStay(days, first, i, o)
      BY <3>3, <3>4, <3>5, <3>6, <3>7
    <3> QED BY <3>8 DEF first
  <2> QED BY <2>2, <2>3
<1> QED BY <1>2, <1>3

\* A set of dates not before a first one has an earliest.
LEMMA Earliest ==
  ASSUME NEW start \in Int, NEW S \in SUBSET Int, S # {}, \A d \in S : start <= d
  PROVE  \E d \in S : \A e \in S : d <= e
<1> DEFINE T == {n \in Nat : start + n \in S}
<1>1. T \subseteq Nat /\ T # {}
  <2>1. PICK d \in S : TRUE OBVIOUS
  <2>2. d - start \in T BY <2>1
  <2> QED BY <2>2
<1>2. PICK R : R = {ss \in Nat \X Nat : ss[1] < ss[2]} /\ IsWellFoundedOn(R, Nat)
  BY NatLessThanWellFounded DEF OpToRel
<1>3. PICK n \in T : \A m \in T : n <= m
  <2>1. PICK n \in T : \A m \in T : ~(<<m, n>> \in R)
    <3> HIDE DEF T
    <3> QED BY <1>1, <1>2, WFMin
  <2>2. ASSUME NEW m \in T PROVE n <= m
    <3>1. m \in Nat /\ n \in Nat /\ ~(<<m, n>> \in R) BY <1>1, <2>1
    <3> HIDE DEF T
    <3> QED BY <1>2, <3>1
  <2> QED BY <2>2
<1>4. start + n \in S /\ n \in Nat /\ \A e \in S : e - start \in T
  OBVIOUS
<1>5. \A e \in S : start + n <= e
  BY <1>3, <1>4
<1> QED BY <1>4, <1>5

\* A stay of so many nights from day d on may be had.
Fits(days, d, nights) == MayStay(days, d, d, d + nights)

\* find_first_available: on every calendar and in every window, the arrival found is the
\* earliest that fits, and none is found only when none fits.
THEOREM FirstIsEarliest ==
  ASSUME NEW D \in SUBSET Int, NEW days \in [D -> Day],
         NEW start \in Int, NEW scan \in Nat, NEW nights \in Nat,
         NEW found, found = FirstAvailable(days, start, scan, nights)
  PROVE  /\ found = None <=> \A d \in start .. start + scan - nights : ~Fits(days, d, nights)
         /\ found # None =>
               /\ found \in start .. start + scan - nights /\ Fits(days, found, nights)
               /\ \A d \in start .. start + scan - nights : Fits(days, d, nights) => found <= d
<1> DEFINE window == start .. start + scan - nights
           fit == {d \in window : EvaluateCalendar(days, d, d + nights, None) = "available"}
<1>1. ASSUME NEW d \in window
      PROVE  Fits(days, d, nights) <=> EvaluateCalendar(days, d, d + nights, None) = "available"
  <2>1. d \in Int /\ d + nights \in Int OBVIOUS
  <2>2. EvaluateCalendar(days, d, d + nights, None) = "available"
           <=> MayStay(days, IF None = None THEN d ELSE None, d, d + nights)
    BY <2>1, EvaluateIsRight
  <2> QED BY <2>2 DEF Fits
<1>2. fit \in SUBSET Int /\ \A d \in fit : start <= d
  OBVIOUS
<1>3. found = IF fit = {} THEN None ELSE CHOOSE d \in fit : \A e \in fit : d <= e
  BY DEF FirstAvailable
<1>4. \A d \in window : Fits(days, d, nights) <=> d \in fit
  BY <1>1
<1>5. fit \subseteq window
  OBVIOUS
<1> HIDE DEF fit
<1>6. CASE fit = {}
  BY <1>3, <1>4, <1>6
<1>7. CASE fit # {}
  <2>1. found \in fit /\ \A e \in fit : found <= e
    BY <1>2, <1>3, <1>7, Earliest
  <2>2. found # None
    BY <1>2, <2>1, NoneAssumption
  <2> HIDE DEF window
  <2> QED BY <1>4, <1>5, <2>1, <2>2 DEF window
<1> QED BY <1>6, <1>7

\* The calendar looked at, if any, says of each of its days what a day may say.
CalendarTyped == calendar # None => \E D \in SUBSET Int : calendar \in [D -> Day]

\* A day is a record of what Hostaway says about it.
Parts(day) ==
    [closedOnArrival |-> day.closedOnArrival, closedOnDeparture |-> day.closedOnDeparture,
     min |-> day.min, max |-> day.max,
     sell |-> day.sell, count |-> day.count, desired |-> day.desired,
     reserved |-> day.reserved, open |-> day.open]

LEMMA Fields ==
  ASSUME NEW day, day = Parts(day),
         day.closedOnArrival \in BOOLEAN, day.closedOnDeparture \in BOOLEAN,
         day.min \in Nat \cup {None}, day.max \in Nat \cup {None},
         day.sell \in Int \cup {None}, day.count \in Int \cup {None},
         day.desired \in Int \cup {None}, day.reserved \in BOOLEAN,
         day.open \in BOOLEAN \cup {None}
  PROVE  day \in Day
  BY DEF Parts, Day

\* The calendars of the instance are of that kind.
LEMMA CalendarsTyped ==
  ASSUME NEW c \in Calendars
  PROVE  \E D \in SUBSET Int : c \in [D -> Day]
<1>1. Plain \in Day
  BY DEF Plain, Day
<1>2. ASSUME NEW day \in RuledDays PROVE day \in Day
  <2>1. CASE day = [Plain EXCEPT !.open = FALSE] BY <1>1, <2>1 DEF Day
  <2>2. CASE day # [Plain EXCEPT !.open = FALSE]
    <3>1. day \in [closedOnArrival : BOOLEAN, closedOnDeparture : BOOLEAN,
                   min : {None, 2}, max : {None, 1}, sell : {None}, count : {None},
                   desired : {None}, reserved : {FALSE}, open : {TRUE}]
      BY <2>2 DEF RuledDays
    <3>2. /\ day.closedOnArrival \in BOOLEAN /\ day.closedOnDeparture \in BOOLEAN
          /\ day.min \in Nat \cup {None} /\ day.max \in Nat \cup {None}
          /\ day.sell = None /\ day.count = None /\ day.desired = None
      BY <3>1
    <3>3. day.reserved = FALSE /\ day.open = TRUE
      BY <3>1
    <3>4. day = Parts(day)
      BY <3>1 DEF Parts
    <3> QED BY <3>2, <3>3, <3>4, Fields
  <2> QED BY <2>1, <2>2
<1>3. ASSUME NEW day \in StockedDays PROVE day \in Day
  <2>1. /\ day.closedOnArrival = FALSE /\ day.closedOnDeparture = FALSE
        /\ day.min = None /\ day.max = None
    BY DEF StockedDays
  <2>2. /\ day.sell \in {None, 0, 1} /\ day.count \in {None, 0, 1}
        /\ day.desired \in {None, 0, 1}
    BY DEF StockedDays
  <2>3. day.reserved \in BOOLEAN /\ day.open \in BOOLEAN \cup {None}
    BY DEF StockedDays
  <2>4. day = Parts(day)
    BY DEF StockedDays, Parts
  <2>5. \A u \in {None, 0, 1} : u \in Int \cup {None}
    OBVIOUS
  <2>6. /\ day.sell \in Int \cup {None} /\ day.count \in Int \cup {None}
        /\ day.desired \in Int \cup {None}
    BY <2>2, <2>5
  <2>7. /\ day.closedOnArrival \in BOOLEAN /\ day.closedOnDeparture \in BOOLEAN
        /\ day.min \in Nat \cup {None} /\ day.max \in Nat \cup {None}
    BY <2>1
  <2> QED BY ONLY <2>3, <2>4, <2>6, <2>7, Fields
<1>4. CASE c \in UNION {[D -> RuledDays] : D \in (SUBSET (1 .. 3)) \ {{}}}
  <2>1. PICK D \in SUBSET (1 .. 3) : c \in [D -> RuledDays] BY <1>4
  <2> QED BY <1>2, <2>1
<1>5. CASE c \in {<<day, Plain>> : day \in StockedDays}
  <2>1. PICK day \in StockedDays : c = <<day, Plain>> BY <1>5
  <2>2. c \in [1 .. 2 -> Day] BY <1>1, <1>3, <2>1
  <2> QED BY <2>2
<1> QED BY <1>4, <1>5 DEF Calendars

\* So the two theorems speak of them.
LEMMA TypedAgrees == ASSUME CalendarTyped PROVE CalendarAgrees
<1> SUFFICES ASSUME calendar # None PROVE CalendarAgrees
  BY DEF CalendarAgrees
<1>1. PICK D \in SUBSET Int : calendar \in [D -> Day] BY DEF CalendarTyped
<1>2. ASSUME NEW i \in 1 .. 3, NEW o \in 1 .. 3, NEW e \in {None, 0, 1}, e # None => e < i
      PROVE  EvaluateCalendar(calendar, i, o, e) = "available"
               <=> MayStay(calendar, IF e = None THEN i ELSE e, i, o)
  <2>1. i \in Int /\ o \in Int /\ e \in Int \cup {None} OBVIOUS
  <2> QED BY <1>1, <1>2, <2>1, EvaluateIsRight
<1>3. PICK found : found = FirstAvailable(calendar, 1, 2, 1) OBVIOUS
<1>4. /\ found = None <=> \A d \in 1 .. 1 + 2 - 1 : ~Fits(calendar, d, 1)
      /\ found # None => /\ found \in 1 .. 1 + 2 - 1 /\ Fits(calendar, found, 1)
                         /\ \A d \in 1 .. 1 + 2 - 1 : Fits(calendar, d, 1) => found <= d
  BY <1>1, <1>3, FirstIsEarliest
<1>5. /\ found # None => MayStay(calendar, found, found, found + 1)
      /\ \A i \in 1 .. 2 : MayStay(calendar, i, i, i + 1) => found # None /\ found <= i
  BY <1>4 DEF Fits
<1> QED BY <1>2, <1>3, <1>5 DEF CalendarAgrees

\* The property TLC checks, evaluate_calendar and find_first_available agreeing with what a
\* stay needs, on the calendars of MCQuotes.
THEOREM CalendarAlwaysAgrees == MCSpec => []CalendarAgrees
<1>1. MCInit => CalendarTyped BY DEF MCInit, CalendarTyped
<1>2. CalendarTyped /\ [MCNext]_<<calendar, quotesVars>> => CalendarTyped'
  BY CalendarsTyped DEF CalendarTyped, MCNext
<1>3. CalendarTyped => CalendarAgrees BY TypedAgrees
<1> QED BY <1>1, <1>2, <1>3, PTL DEF MCSpec
=============================================================================
