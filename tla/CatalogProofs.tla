---------------------------- MODULE CatalogProofs ----------------------------
(***************************************************************************)
(* Proofs about Catalog.tla, for any number of routes, any tags, lengths,  *)
(* ceiling and headroom.                                                   *)
(*                                                                         *)
(* What an answer says is traced to what the tower has had: IInv adds to   *)
(* the types that whatever is cached, on its way back, or present, is in   *)
(* ever.                                                                   *)
(***************************************************************************)
EXTENDS Catalog, TLAPS

\* A reply on its way holds a catalog the tower has had.
ServedIsReal == \A r \in Requests : fetch[r].at = "served" => fetch[r].tags \in ever

IInv == TypeOK /\ CacheIsReal /\ ServedIsReal /\ present \in ever

\* An answer agrees with the tower's history, whatever that is by now.
UnknownIn(a, history) == a.is = "unknown" => \E c \in history : a.tag \notin DOMAIN c

ReportedIn(tag, history) == {c[tag] : c \in {d \in history : tag \in DOMAIN d}}

WindowIn(a, history) ==
    a.is = "model" =>
        \E length \in (IF a.ok THEN ReportedIn(a.tag, history) ELSE {0}) :
            Fits(a.num_ctx, length)

\* What derive_num_ctx returns: the largest positive number that leaves the headroom free
\* below the ceiling and below the length reported, or 1 if the headroom is all there is.
LEMMA Derived ==
    ASSUME NEW length \in Nat
    PROVE  /\ derive_num_ctx(length) \in Nat
           /\ Fits(derive_num_ctx(length), length)
  BY WindowAssumption
  DEF WindowAssumption, derive_num_ctx, Larger, Smaller, Fits, LeavesHeadroom

\* A catalog gives each of its tags a length.
LEMMA CatalogLengths ==
    ASSUME NEW c \in Catalogs
    PROVE  DOMAIN c \subseteq Tags /\ \A tag \in DOMAIN c : c[tag] \in Nat
  BY CatalogAssumption DEF CatalogAssumption, Catalogs

\* Whatever Returns puts into answer[r] is an answer, agrees with any history that the
\* catalog it was made from is part of, and leaves the other answers alone.
LEMMA ReturnedAnswer ==
    ASSUME TypeOK, NEW r \in Requests, NEW what \in Tags \cup {AllTags},
           NEW tags \in Catalogs, NEW ok \in BOOLEAN, NEW history,
           ok => tags \in history,
           Returns(r, what, tags, ok)
    PROVE  \E a \in Answers :
               /\ answer' = [answer EXCEPT ![r] = a]
               /\ UnknownIn(a, history)
               /\ WindowIn(a, history)
<1>1. DOMAIN tags \subseteq Tags /\ \A tag \in DOMAIN tags : tags[tag] \in Nat
  BY CatalogLengths
<1>2. CASE what = AllTags
      /\ answer' = [answer EXCEPT ![r] = [is |-> "list", tags |-> DOMAIN tags, ok |-> ok]]
  <2> DEFINE a == [is |-> "list", tags |-> DOMAIN tags, ok |-> ok]
  <2>1. a \in Answers
    BY <1>1 DEF Answers
  <2>2. UnknownIn(a, history) /\ WindowIn(a, history)
    BY DEF UnknownIn, WindowIn
  <2> QED
    BY <1>2, <2>1, <2>2
<1>3. CASE /\ what # AllTags
           /\ ok /\ what \notin DOMAIN tags
           /\ answer' = [answer EXCEPT ![r] = [is |-> "unknown", tag |-> what]]
  <2> DEFINE a == [is |-> "unknown", tag |-> what]
  <2>1. a \in Answers
    BY <1>3 DEF Answers
  <2>2. UnknownIn(a, history) /\ WindowIn(a, history)
    BY <1>3 DEF UnknownIn, WindowIn
  <2> QED
    BY <1>3, <2>1, <2>2
<1>4. CASE /\ what # AllTags
           /\ ok => what \in DOMAIN tags
           /\ \E url \in PrimaryUrls :
                  answer' = [answer EXCEPT ![r] =
                      [is |-> "model", tag |-> what, url |-> url, ok |-> ok,
                       num_ctx |-> derive_num_ctx(IF ok THEN tags[what] ELSE 0)]]
  <2> DEFINE length == IF ok THEN tags[what] ELSE 0
             num_ctx == derive_num_ctx(length)
  <2>1. PICK url \in PrimaryUrls :
            answer' = [answer EXCEPT ![r] =
                [is |-> "model", tag |-> what, url |-> url, ok |-> ok, num_ctx |-> num_ctx]]
    BY <1>4
  <2> DEFINE a == [is |-> "model", tag |-> what, url |-> url, ok |-> ok, num_ctx |-> num_ctx]
  <2>2. length \in Nat
    BY <1>1, <1>4
  <2>3. num_ctx \in Nat /\ Fits(num_ctx, length)
    BY <2>2, Derived
  <2>4. length \in IF ok THEN ReportedIn(what, history) ELSE {0}
    BY <1>4 DEF ReportedIn
  <2> HIDE DEF num_ctx, length
  <2>5. a \in Answers
    BY <1>4, <2>3 DEF Answers, PrimaryUrls, Urls
  <2>6. WindowIn(a, history)
    BY <2>3, <2>4 DEF WindowIn
  <2>7. UnknownIn(a, history)
    BY DEF UnknownIn
  <2> QED
    BY <2>1, <2>5, <2>6, <2>7
<1> QED
  BY <1>2, <1>3, <1>4 DEF Returns

\* One answer replaced by one that agrees with the history, and the history not smaller.
LEMMA AnswerReplaced ==
    ASSUME TypeOK, NEW r \in Requests, NEW a \in Answers,
           answer' = [answer EXCEPT ![r] = a],
           UnknownIn(a, ever), WindowIn(a, ever), ever' = ever
    PROVE  /\ answer' \in [Requests -> Answers]
           /\ UnknownWasAbsent => UnknownWasAbsent'
           /\ WindowFits => WindowFits'
<1>1. answer' \in [Requests -> Answers]
  BY DEF TypeOK
<1>2. \A q \in Requests : answer'[q] = IF q = r THEN a ELSE answer[q]
  BY DEF TypeOK
<1>3. UnknownWasAbsent => UnknownWasAbsent'
  BY <1>2 DEF UnknownWasAbsent, UnknownIn
<1>4. WindowFits => WindowFits'
  BY <1>2 DEF WindowFits, WindowIn, Reported, ReportedIn
<1> QED
  BY <1>1, <1>3, <1>4

-----------------------------------------------------------------------------
\* Where an answer is made of a catalog that is in ever, or of none, nothing is lost.
LEMMA ReturnedIsSound ==
    ASSUME TypeOK, NEW r \in Requests, NEW what \in Tags \cup {AllTags},
           NEW tags \in Catalogs, NEW ok \in BOOLEAN, ok => tags \in ever,
           ever' = ever, Returns(r, what, tags, ok)
    PROVE  /\ answer' \in [Requests -> Answers]
           /\ UnknownWasAbsent => UnknownWasAbsent'
           /\ WindowFits => WindowFits'
<1>1. PICK a \in Answers :
          /\ answer' = [answer EXCEPT ![r] = a]
          /\ UnknownIn(a, ever)
          /\ WindowIn(a, ever)
  BY ReturnedAnswer
<1> QED
  BY <1>1, AnswerReplaced

\* The empty catalog of a failure is a catalog.
LEMMA NoTagsIsACatalog == NoTags \in Catalogs
<1>1. NoTags \in [{} -> Lengths]
  BY DEF NoTags
<1> QED
  BY <1>1 DEF Catalogs

\* What r has fetched.
LEMMA ServedFetch ==
    ASSUME TypeOK, NEW r \in Requests, fetch[r].at = "served"
    PROVE  /\ fetch[r].url = "tower"
           /\ fetch[r].what \in Tags \cup {AllTags}
           /\ fetch[r].tags \in Catalogs
<1>1. fetch[r] \in Fetches
  BY DEF TypeOK
<1> QED
  BY <1>1 DEF Fetches, Idle

\* What r waits for.
LEMMA SentFetch ==
    ASSUME TypeOK, NEW r \in Requests, fetch[r].at = "sent"
    PROVE  /\ fetch[r].url \in Urls
           /\ fetch[r].what \in Tags \cup {AllTags}
<1>1. fetch[r] \in Fetches
  BY DEF TypeOK
<1> QED
  BY <1>1 DEF Fetches, Idle

LEMMA InitIInv == Init => IInv /\ UnknownWasAbsent /\ WindowFits
<1> SUFFICES ASSUME Init PROVE IInv /\ UnknownWasAbsent /\ WindowFits
  OBVIOUS
<1>1. TypeOK
  BY DEF Init, TypeOK, Fetches, Answers, Idle
<1>2. CacheIsReal /\ ServedIsReal
  BY DEF Init, CacheIsReal, ServedIsReal, Idle, Urls
<1>3. UnknownWasAbsent /\ WindowFits
  BY DEF Init, UnknownWasAbsent, WindowFits
<1> QED
  BY <1>1, <1>2, <1>3 DEF IInv, Init

\* Every step preserves the invariant and what it is for.
LEMMA NextIInv ==
    IInv /\ [Next]_vars =>
        /\ IInv'
        /\ UnknownWasAbsent => UnknownWasAbsent'
        /\ WindowFits => WindowFits'
<1> SUFFICES ASSUME IInv, [Next]_vars
             PROVE  /\ IInv'
                    /\ UnknownWasAbsent => UnknownWasAbsent'
                    /\ WindowFits => WindowFits'
  OBVIOUS
<1> USE DEF IInv
<1>1. CASE UNCHANGED vars
  BY <1>1 DEF vars, environment, TypeOK, CacheIsReal, ServedIsReal, UnknownWasAbsent, WindowFits,
         Reported
<1>2. ASSUME NEW r \in Requests, NEW what \in Tags \cup {AllTags}, Ask(r, what)
      PROVE  /\ IInv'
             /\ UnknownWasAbsent => UnknownWasAbsent'
             /\ WindowFits => WindowFits'
  <2>1. UNCHANGED <<catalog_cache, up, ssm, present, ever>>
    BY <1>2 DEF Ask, environment
  <2>2. PICK url \in PrimaryUrls :
            \/ \E tags \in catalog_cache[url] : Returns(r, what, tags, TRUE) /\ UNCHANGED fetch
            \/ /\ catalog_cache[url] = {}
               /\ fetch' = [fetch EXCEPT ![r] = [at |-> "sent", url |-> url, what |-> what]]
               /\ UNCHANGED answer
    BY <1>2 DEF Ask
  <2>3. url \in Urls
    BY DEF PrimaryUrls, Urls
  <2>4. CASE \E tags \in catalog_cache[url] : Returns(r, what, tags, TRUE) /\ UNCHANGED fetch
    <3>1. PICK tags \in catalog_cache[url] : Returns(r, what, tags, TRUE) /\ UNCHANGED fetch
      BY <2>4
    <3>2. tags \in Catalogs
      BY <2>3, <3>1 DEF TypeOK
    <3>3. tags \in ever
      BY <2>3, <3>1 DEF CacheIsReal, Urls
    <3>4. /\ answer' \in [Requests -> Answers]
          /\ UnknownWasAbsent => UnknownWasAbsent'
          /\ WindowFits => WindowFits'
      BY <2>1, <3>1, <3>2, <3>3, ReturnedIsSound
    <3> QED
      BY <2>1, <3>1, <3>4 DEF TypeOK, CacheIsReal, ServedIsReal
  <2>5. CASE /\ fetch' = [fetch EXCEPT ![r] = [at |-> "sent", url |-> url, what |-> what]]
             /\ UNCHANGED answer
    <3>1. [at |-> "sent", url |-> url, what |-> what] \in Fetches
      BY <2>3 DEF Fetches
    <3>2. \A q \in Requests : q # r => fetch'[q] = fetch[q]
      BY <2>5 DEF TypeOK
    <3>3. fetch'[r].at = "sent"
      BY <2>5 DEF TypeOK
    <3>4. TypeOK'
      BY <2>1, <2>5, <3>1 DEF TypeOK
    <3>5. ServedIsReal'
      BY <2>1, <3>2, <3>3 DEF ServedIsReal
    <3> QED
      BY <2>1, <2>5, <3>4, <3>5 DEF CacheIsReal, UnknownWasAbsent, WindowFits, Reported
  <2> QED
    BY <2>2, <2>4, <2>5
<1>3. ASSUME NEW r \in Requests, Serve(r)
      PROVE  /\ IInv'
             /\ UnknownWasAbsent => UnknownWasAbsent'
             /\ WindowFits => WindowFits'
  <2> DEFINE f == [at |-> "served", url |-> "tower", what |-> fetch[r].what, tags |-> present]
  <2>1. /\ fetch' = [fetch EXCEPT ![r] = f]
        /\ UNCHANGED <<catalog_cache, answer, up, ssm, present, ever>>
    BY <1>3 DEF Serve, environment
  <2>2. f \in Fetches
    BY <1>3, SentFetch DEF Serve, Fetches, TypeOK
  <2>3. present \in ever
    OBVIOUS
  <2>4. TypeOK'
    BY <2>1, <2>2 DEF TypeOK
  <2>5. ServedIsReal'
    BY <2>1, <2>3 DEF ServedIsReal, TypeOK
  <2> QED
    BY <2>1, <2>4, <2>5 DEF CacheIsReal, UnknownWasAbsent, WindowFits, Reported
<1>4. ASSUME NEW r \in Requests, Receive(r)
      PROVE  /\ IInv'
             /\ UnknownWasAbsent => UnknownWasAbsent'
             /\ WindowFits => WindowFits'
  <2>1. /\ fetch[r].at = "served"
        /\ catalog_cache' = [catalog_cache EXCEPT ![fetch[r].url] = {fetch[r].tags}]
        /\ Returns(r, fetch[r].what, fetch[r].tags, TRUE)
        /\ fetch' = [fetch EXCEPT ![r] = Idle]
        /\ UNCHANGED <<up, ssm, present, ever>>
    BY <1>4 DEF Receive, environment
  <2>2. /\ fetch[r].url = "tower"
        /\ fetch[r].what \in Tags \cup {AllTags}
        /\ fetch[r].tags \in Catalogs
    BY <2>1, ServedFetch
  <2>3. fetch[r].tags \in ever
    BY <2>1 DEF ServedIsReal
  <2>4. /\ answer' \in [Requests -> Answers]
        /\ UnknownWasAbsent => UnknownWasAbsent'
        /\ WindowFits => WindowFits'
    BY <2>1, <2>2, <2>3, ReturnedIsSound
  <2>5. CacheIsReal'
    BY <2>1, <2>2, <2>3 DEF CacheIsReal, TypeOK, Urls
  <2>6. ServedIsReal'
    BY <2>1 DEF ServedIsReal, TypeOK, Idle
  <2>7. TypeOK'
    BY <2>1, <2>2, <2>4 DEF TypeOK, Fetches
  <2> QED
    BY <2>1, <2>4, <2>5, <2>6, <2>7
<1>5. ASSUME NEW r \in Requests, Fail(r)
      PROVE  /\ IInv'
             /\ UnknownWasAbsent => UnknownWasAbsent'
             /\ WindowFits => WindowFits'
  <2>1. /\ fetch[r].at = "sent"
        /\ Returns(r, fetch[r].what, NoTags, FALSE)
        /\ fetch' = [fetch EXCEPT ![r] = Idle]
        /\ UNCHANGED <<catalog_cache, up, ssm, present, ever>>
    BY <1>5 DEF Fail, environment
  <2>2. fetch[r].what \in Tags \cup {AllTags}
    BY <2>1, SentFetch
  <2>3. /\ answer' \in [Requests -> Answers]
        /\ UnknownWasAbsent => UnknownWasAbsent'
        /\ WindowFits => WindowFits'
    BY <2>1, <2>2, NoTagsIsACatalog, ReturnedIsSound
  <2>4. ServedIsReal'
    BY <2>1 DEF ServedIsReal, TypeOK, Idle
  <2>5. TypeOK'
    BY <2>1, <2>3 DEF TypeOK, Fetches
  <2> QED
    BY <2>1, <2>3, <2>4, <2>5 DEF CacheIsReal
<1>6. CASE reset_catalog
  <2>1. /\ catalog_cache' = [u \in Urls |-> {}]
        /\ UNCHANGED <<fetch, answer, up, ssm, present, ever>>
    BY <1>6 DEF reset_catalog, environment
  <2> QED
    BY <2>1 DEF TypeOK, CacheIsReal, ServedIsReal, UnknownWasAbsent, WindowFits, Reported, Urls
<1>7. CASE TagsChange
  <2>1. /\ present' \in Catalogs
        /\ ever' = ever \cup {present'}
        /\ UNCHANGED <<catalog_cache, fetch, answer, up, ssm>>
    BY <1>7 DEF TagsChange
  <2>2. ever \subseteq ever'
    BY <2>1
  <2>3. TypeOK'
    BY <2>1 DEF TypeOK
  <2>4. CacheIsReal' /\ ServedIsReal'
    BY <2>1, <2>2 DEF CacheIsReal, ServedIsReal
  <2>5. UnknownWasAbsent => UnknownWasAbsent'
    BY <2>1, <2>2 DEF UnknownWasAbsent
  <2>6. WindowFits => WindowFits'
    <3>1. \A tag : Reported(tag) \subseteq Reported(tag)'
      BY <2>2 DEF Reported
    <3>2. QED
      BY <2>1, <3>1 DEF WindowFits
  <2> QED
    BY <2>1, <2>3, <2>4, <2>5, <2>6
<1>8. CASE Outage
  <2>1. /\ up' \in BOOLEAN /\ ssm' \in BOOLEAN
        /\ UNCHANGED <<catalog_cache, fetch, answer, present, ever>>
    BY <1>8, CatalogAssumption DEF Outage, CatalogAssumption
  <2> QED
    BY <2>1 DEF TypeOK, CacheIsReal, ServedIsReal, UnknownWasAbsent, WindowFits, Reported
<1> QED
  BY <1>1, <1>2, <1>3, <1>4, <1>5, <1>6, <1>7, <1>8 DEF Next

LEMMA Invariance == Spec => [](IInv /\ UnknownWasAbsent /\ WindowFits)
<1>1. Init => IInv /\ UnknownWasAbsent /\ WindowFits
  BY InitIInv
<1>2. /\ IInv /\ UnknownWasAbsent /\ WindowFits
      /\ [Next]_vars
      => (IInv /\ UnknownWasAbsent /\ WindowFits)'
  BY NextIInv
<1> QED
  BY <1>1, <1>2, PTL DEF Spec

\* The variables of the catalog have their types (the whole of app/models.py's state).
THEOREM TypeCorrect == Spec => []TypeOK
<1>1. IInv => TypeOK
  BY DEF IInv
<1> QED
  BY <1>1, Invariance, PTL

\* Whatever fetches race, fail or come back late, what is cached is a catalog the tower
\* has had, and nothing is cached for anybody else (_catalog).
THEOREM OnlyRealCatalogsAreCached == Spec => []CacheIsReal
<1>1. IInv => CacheIsReal
  BY DEF IInv
<1> QED
  BY <1>1, Invariance, PTL

\* No outage makes a tag unknown: resolve returns None only for a tag the tower has been
\* without.
THEOREM OutagesMakeNothingUnknown == Spec => []UnknownWasAbsent
BY Invariance, PTL

\* For every ceiling, headroom and reported length the window is the largest that leaves the
\* headroom free below both, and goes by the ceiling alone only where no length was to be
\* had (derive_num_ctx, resolve).
THEOREM WindowsFit == Spec => []WindowFits
BY Invariance, PTL

\* While the tower's catalog is cached no route starts to fetch it (_catalog).
THEOREM NoFetchOnceCached == Spec => CachedIsNotFetched
<1>1. ASSUME TypeOK, [Next]_vars, catalog_cache["tower"] # {}
      PROVE  Fetching' \subseteq Fetching
  <2>1. SUFFICES ASSUME NEW q \in Requests, fetch'[q] # Idle, fetch'[q].url = "tower"
                 PROVE  fetch[q] # Idle /\ fetch[q].url = "tower"
    BY DEF Fetching
  <2>2. CASE fetch'[q] = fetch[q]
    BY <2>1, <2>2
  <2>3. CASE fetch'[q] # fetch[q]
    <3>1. CASE \E r \in Requests, what \in Tags \cup {AllTags} : Ask(r, what)
      <4>1. PICK r \in Requests, what \in Tags \cup {AllTags} : Ask(r, what)
        BY <3>1
      <4>2. PICK url \in PrimaryUrls :
                /\ catalog_cache[url] = {}
                /\ fetch' = [fetch EXCEPT ![r] = [at |-> "sent", url |-> url, what |-> what]]
        BY <2>3, <4>1 DEF Ask
      <4>3. fetch'[q].url = url
        BY <2>3, <4>2 DEF TypeOK
      <4> QED
        BY <1>1, <2>1, <4>2, <4>3
    <3>2. CASE \E r \in Requests : Serve(r)
      <4>1. PICK r \in Requests : Serve(r)
        BY <3>2
      <4>2. q = r
        BY <2>3, <4>1 DEF Serve, TypeOK
      <4> QED
        BY <4>1, <4>2 DEF Serve, Idle
    <3>3. CASE \E r \in Requests : Receive(r) \/ Fail(r)
      <4>1. PICK r \in Requests : fetch' = [fetch EXCEPT ![r] = Idle]
        BY <3>3 DEF Receive, Fail
      <4> QED
        BY <1>1, <2>1, <2>3, <4>1 DEF TypeOK
    <3>4. CASE reset_catalog \/ TagsChange \/ Outage \/ UNCHANGED vars
      BY <2>3, <3>4 DEF reset_catalog, TagsChange, Outage, vars
    <3> QED
      BY <1>1, <3>1, <3>2, <3>3, <3>4 DEF Next
  <2> QED
    BY <2>2, <2>3
<1>2. TypeOK /\ [Next]_vars => [catalog_cache["tower"] # {} => Fetching' \subseteq Fetching]_vars
  BY <1>1
<1> QED
  BY <1>2, TypeCorrect, PTL DEF Spec, CachedIsNotFetched
==============================================================================
