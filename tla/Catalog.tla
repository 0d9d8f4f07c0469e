------------------------------- MODULE Catalog -------------------------------
(***************************************************************************)
(* app/models.py, with the part of app/config.py it leans on: the catalog  *)
(* of the primary backend's tags, its cache, and what resolve and          *)
(* list_tags make of it.  A route that finds the cache empty fetches       *)
(* /api/tags.  While it awaits the reply, others may find the cache empty  *)
(* too, the backend's tags may change, and the replies may arrive in any   *)
(* order.  From the reply to the answer there is no await.                 *)
(*                                                                         *)
(* The default chain is modelled, the tower alone.  Its URL is read from   *)
(* SSM on every use, and an SSM that does not answer makes it that of a    *)
(* local ollama, of which the deployment has none.                         *)
(***************************************************************************)
EXTENDS Window, FiniteSets

CONSTANTS
    Requests,    \* the routes that use the catalog at a time, each over and over
    Tags,        \* the tags anybody asks for
    Lengths,     \* the context lengths a tag may report, 0 where it reports none
    MaxCatalogs, \* the tower has no more different catalogs than this
    SsmMayFail   \* FALSE where PROXY_TOWER_BASE_URL is set and SSM not asked

ASSUME CatalogAssumption ==
    /\ Lengths \subseteq Nat
    /\ MaxCatalogs \in Nat
    /\ SsmMayFail \in BOOLEAN

\* A catalog maps the tags that are present to their context lengths.
Catalogs == UNION {[there -> Lengths] : there \in SUBSET Tags}
NoTags == [tag \in {} |-> 0]

Urls == {"tower", "local"}

VARIABLES
    catalog_cache,  \* _catalog_cache: for each URL a set of at most one catalog
    fetch,          \* fetch[r]: what r awaits, and what is on its way back to it
    answer,         \* answer[r]: what the last call of r returned
    up,             \* the tower answers /api/tags with a catalog within the timeout
    ssm,            \* SSM answers whenever it is asked, and not only now and then
    present,        \* the tower's catalog
    ever            \* history: the catalogs the tower has had

environment == <<up, ssm, present>>
vars == <<catalog_cache, fetch, answer, environment, ever>>

\* What is asked for: one tag, by resolve, or all of them, by list_tags.
AllTags == "all tags"

Idle == [at |-> "idle"]
Fetches ==
    {Idle} \cup [at : {"sent"}, url : Urls, what : Tags \cup {AllTags}]
           \cup [at : {"served"}, url : {"tower"}, what : Tags \cup {AllTags}, tags : Catalogs]

Fetching == {r \in Requests : fetch[r] # Idle /\ fetch[r].url = "tower"}

Answers ==
    [is : {"none"}] \cup [is : {"unknown"}, tag : Tags]
    \cup [is : {"model"}, tag : Tags, num_ctx : Nat, url : Urls, ok : BOOLEAN]
    \cup [is : {"list"}, tags : SUBSET Tags, ok : BOOLEAN]

TypeOK ==
    /\ catalog_cache \in [Urls -> {{}} \cup {{c} : c \in Catalogs}]
    /\ fetch \in [Requests -> Fetches]
    /\ answer \in [Requests -> Answers]
    /\ up \in BOOLEAN
    /\ ssm \in BOOLEAN
    /\ present \in Catalogs
    /\ ever \subseteq Catalogs

Init ==
    /\ catalog_cache = [u \in Urls |-> {}]
    /\ fetch = [r \in Requests |-> Idle]
    /\ answer = [r \in Requests |-> [is |-> "none"]]
    /\ up \in BOOLEAN
    /\ ssm = TRUE
    /\ present \in Catalogs
    /\ ever = {present}

-----------------------------------------------------------------------------
\* What resolved_tower_base_url may return.  _backend_specs asks it every time.
PrimaryUrls == IF ssm THEN {"tower"} ELSE Urls

\* What resolve or list_tags may return to r when _catalog returned tags, ok.  The URL of
\* the chain is asked for anew.  resolve does not return ok: that is kept as history.
Returns(r, what, tags, ok) ==
    \/ /\ what = AllTags
       /\ answer' = [answer EXCEPT ![r] = [is |-> "list", tags |-> DOMAIN tags, ok |-> ok]]
    \/ /\ what # AllTags
       /\ ok /\ what \notin DOMAIN tags
       /\ answer' = [answer EXCEPT ![r] = [is |-> "unknown", tag |-> what]]
    \/ /\ what # AllTags
       /\ ok => what \in DOMAIN tags
       /\ \E url \in PrimaryUrls :
              answer' = [answer EXCEPT ![r] =
                  [is |-> "model", tag |-> what, url |-> url, ok |-> ok,
                   num_ctx |-> derive_num_ctx(IF ok THEN tags[what] ELSE 0)]]

\* (Mutant: the cache is not looked at.)
AskWithoutCache(r, what) ==
    /\ fetch[r] = Idle
    /\ \E url \in PrimaryUrls :
           fetch' = [fetch EXCEPT ![r] = [at |-> "sent", url |-> url, what |-> what]]
    /\ UNCHANGED <<catalog_cache, answer, environment, ever>>

\* r asks: a cached catalog answers at once, otherwise a fetch goes out.
Ask(r, what) ==
    /\ fetch[r] = Idle
    /\ \E url \in PrimaryUrls :
           \/ \E tags \in catalog_cache[url] : Returns(r, what, tags, TRUE) /\ UNCHANGED fetch
           \/ /\ catalog_cache[url] = {}
              /\ fetch' = [fetch EXCEPT ![r] = [at |-> "sent", url |-> url, what |-> what]]
              /\ UNCHANGED answer
    /\ UNCHANGED <<catalog_cache, environment, ever>>

\* The tower serves a fetch with what it has.
Serve(r) ==
    /\ up
    /\ fetch[r].at = "sent"
    /\ fetch[r].url = "tower"
    /\ fetch' = [fetch EXCEPT ![r] =
           [at |-> "served", url |-> "tower", what |-> fetch[r].what, tags |-> present]]
    /\ UNCHANGED <<catalog_cache, answer, environment, ever>>

\* (Mutant: the catalog is not stored.)
ReceiveOnly(r) ==
    /\ fetch[r].at = "served"
    /\ Returns(r, fetch[r].what, fetch[r].tags, TRUE)
    /\ fetch' = [fetch EXCEPT ![r] = Idle]
    /\ UNCHANGED <<catalog_cache, environment, ever>>

\* The reply is in: it is cached, over whatever is, and answers r.
Receive(r) ==
    /\ fetch[r].at = "served"
    /\ catalog_cache' = [catalog_cache EXCEPT ![fetch[r].url] = {fetch[r].tags}]
    /\ Returns(r, fetch[r].what, fetch[r].tags, TRUE)
    /\ fetch' = [fetch EXCEPT ![r] = Idle]
    /\ UNCHANGED <<environment, ever>>

\* (Mutant: the empty catalog of a failure is cached as well.)
FailAndCache(r) ==
    /\ fetch[r].at = "sent"
    /\ fetch[r].url = "tower" => ~up
    /\ catalog_cache' = [catalog_cache EXCEPT ![fetch[r].url] = {NoTags}]
    /\ Returns(r, fetch[r].what, NoTags, FALSE)
    /\ fetch' = [fetch EXCEPT ![r] = Idle]
    /\ UNCHANGED <<environment, ever>>

\* The fetch fails in any way: nothing is cached and r goes on without a catalog.
Fail(r) ==
    /\ fetch[r].at = "sent"
    /\ fetch[r].url = "tower" => ~up
    /\ Returns(r, fetch[r].what, NoTags, FALSE)
    /\ fetch' = [fetch EXCEPT ![r] = Idle]
    /\ UNCHANGED <<catalog_cache, environment, ever>>

reset_catalog ==
    /\ catalog_cache' = [u \in Urls |-> {}]
    /\ UNCHANGED <<fetch, answer, environment, ever>>

\* Tags are pulled and removed behind the proxy's back.
TagsChange ==
    /\ present' \in Catalogs
    /\ ever' = ever \cup {present'}
    /\ Cardinality(ever') <= MaxCatalogs
    /\ UNCHANGED <<catalog_cache, fetch, answer, up, ssm>>

\* The tower comes and goes, and SSM where it is asked.
Outage ==
    /\ up' \in BOOLEAN
    /\ ssm' \in IF SsmMayFail THEN BOOLEAN ELSE {TRUE}
    /\ UNCHANGED <<catalog_cache, fetch, answer, present, ever>>

Next ==
    \/ \E r \in Requests, what \in Tags \cup {AllTags} : Ask(r, what)
    \/ \E r \in Requests : Serve(r) \/ Receive(r) \/ Fail(r)
    \/ reset_catalog
    \/ TagsChange
    \/ Outage

\* A fetch is answered, or its failure noticed, within the timeout, and the loop runs
\* the route it was for.
Fairness == \A r \in Requests : WF_vars(Serve(r) \/ Receive(r) \/ Fail(r))

Spec == Init /\ [][Next]_vars /\ Fairness

-----------------------------------------------------------------------------
\* What is cached is a catalog the tower has had, under the tower's URL: a failure never
\* is ("only successful reads are cached").
CacheIsReal == catalog_cache["tower"] \subseteq ever /\ catalog_cache["local"] = {}

\* A tag is declared unknown, and its request answered with a 404, only if the tower has
\* been without it: an outage of the tower or of SSM never makes a tag unknown.
UnknownWasAbsent ==
    \A r \in Requests : answer[r].is = "unknown" =>
        \E c \in ever : answer[r].tag \notin DOMAIN c

\* The lengths that the tower has had for a tag, 0 where it reported none.
Reported(tag) == {c[tag] : c \in {d \in ever : tag \in DOMAIN d}}

\* A window of n tokens leaves the headroom free below the ceiling, and below the length if
\* there is one, as long as it has a token to give up; and no larger one would.
LeavesHeadroom(n, length) ==
    /\ n + Headroom <= Ceiling
    /\ length > 0 => n + Headroom <= length

Fits(n, length) ==
    /\ n >= 1
    /\ n > 1 => LeavesHeadroom(n, length)
    /\ ~LeavesHeadroom(n + 1, length)

\* The window of a tag is the largest that fits a length the tower has reported for it.
\* That it goes by the ceiling alone is for a catalog that could not be read, or a tag
\* that was there without a length, and for no other (resolve, derive_num_ctx).
WindowFits ==
    \A r \in Requests : answer[r].is = "model" =>
        \E length \in (IF answer[r].ok THEN Reported(answer[r].tag) ELSE {0}) :
            Fits(answer[r].num_ctx, length)

\* Once the catalog is cached no further fetch of it goes out; those on their way are
\* all there will be until a reset.
CachedIsNotFetched ==
    [][catalog_cache["tower"] # {} => Fetching' \subseteq Fetching]_vars

\* A tower that comes up after the proxy is discovered: if it stays up, SSM with it, and
\* there is somebody asking again and again, the catalog is cached.
Discovered ==
    (<>[](up /\ ssm) /\ []<>(Fetching # {})) => <>(catalog_cache["tower"] # {})

-----------------------------------------------------------------------------
(***************************************************************************)
(* What a comment says and the code does not do.                           *)
(***************************************************************************)

\* "the FQDN resolves from SSM at boot": SSM has answered then, so the chain is the tower.
TowerResolvedAtBoot ==
    \A r \in Requests : answer[r].is = "model" => answer[r].url = "tower"
==============================================================================
