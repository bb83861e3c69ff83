---------------------------- MODULE SourceFetch ----------------------------
(****************************************************************************)
(* fetch_raw() of the five ingestion sources: a listing at a third party is *)
(* read page by page, with a request for each item between two pages, while *)
(* people go on adding, changing and deleting what it lists.                *)
(*                                                                          *)
(*   pulls     GitHub pull requests: numbered pages, latest change first    *)
(*   search    Jira issues: offsets into a search that the service counts   *)
(*   content   Confluence pages: offsets into everything in a space         *)
(*   history   Slack messages: a cursor, in the order they were posted      *)
(*   list      GitHub commits and issues, meeting transcripts: one page     *)
(*                                                                          *)
(* An item is its place in the listing and whether it changed since the     *)
(* time asked for; what is read of it, and of its reviews, replies or       *)
(* transcript, is left out. A search, a history and a plain list are asked  *)
(* for with `since`, so that they list nothing old: an old item that is     *)
(* changed is one that is added to them. Some items make no event: those a  *)
(* bot posted, pull requests among the issues, meetings without transcript. *)
(****************************************************************************)
EXTENDS Naturals, Sequences, SequencesExt

CONSTANTS MaxItems,     \* bound: items, named 1 .. MaxItems
          MaxChanges,   \* bound: changes to the listing during a fetch
          PageSize,     \* items in a page
          MaxResults    \* search: issues fetched at most

VARIABLES kind,         \* which listing
          listing,      \* the items that the service lists, in its order
          old,          \* those that have not changed since `since`
          bare,         \* those that make no event
          counted,      \* the service tells how many items there are
          fetch,        \* where fetch_raw() has got to
          got,          \* the items it has made events of
          changes,      \* how often the listing changed
          touched,      \* ghost: items changed during the fetch
          removed,      \* ghost: items deleted during the fetch
          pushed,       \* ghost: an item came to the front of the listing
          refused,      \* ghost: a request was answered, but not with success
          more          \* ghost: the last answer left some of the listing out

ghostVars == <<changes, touched, removed, pushed>>
serviceVars == <<kind, listing, old, bare, counted>>
fetchVars == <<serviceVars, fetch, got, ghostVars, refused, more>>

ASSUME FetchAssumption ==
  /\ MaxItems \in Nat /\ MaxChanges \in Nat
  /\ PageSize \in Nat \ {0} /\ MaxResults \in Nat \ {0}

Items == 1 .. MaxItems
Kinds == {"pulls", "search", "content", "history", "list"}
Recent == Items \ old

FetchTypeOK ==
  /\ kind \in Kinds
  /\ IsInjective(listing) /\ Range(listing) \subseteq Items
  /\ old \subseteq Items /\ bare \subseteq Items /\ removed \subseteq Items
  /\ counted \in BOOLEAN
  /\ fetch.at \in {"ask", "items", "done", "failed"}
  /\ Len(fetch.page) <= PageSize
  /\ kind = "search" => Len(got) <= MaxResults

(* The latest change comes first, so the old items come last, if at all.    *)
FetchInit ==
  /\ kind \in Kinds
  /\ counted \in BOOLEAN
  /\ \E n \in 0 .. MaxItems, m \in 0 .. MaxItems :
       /\ listing = [i \in 1 .. n |-> i]
       /\ old = m + 1 .. n
       /\ kind \in {"pulls", "content"} \/ old = {}
  /\ bare \in SUBSET Items
  /\ kind \in {"history", "list"} \/ bare = {}
  /\ fetch = [at |-> "ask", start |-> 0, rest |-> Items, page |-> <<>>, last |-> FALSE]
  /\ got = <<>>
  /\ changes = 0 /\ touched = {} /\ removed = {} /\ pushed = FALSE
  /\ refused = FALSE /\ more = FALSE

-----------------------------------------------------------------------------
(* The items of a sequence that are in a set, in their order.               *)
Only(seq, set) ==
  LET upTo[n \in 0 .. Len(seq)] ==
        IF n = 0 THEN <<>>
        ELSE IF seq[n] \in set THEN Append(upTo[n - 1], seq[n]) ELSE upTo[n - 1]
  IN  upTo[Len(seq)]

(* The service (external).                                                  *)
Counted == IF counted THEN Len(listing) ELSE 0

Change ==
  /\ fetch.at \in {"ask", "items"}
  /\ changes < MaxChanges
  /\ changes' = changes + 1
  /\ UNCHANGED <<kind, bare, counted, fetch, got, refused, more>>

(* Posting puts an item first. So does changing one, except in a history.   *)
AddItem ==
  /\ Change
  /\ \E i \in Items \ (Range(listing) \cup removed) :
       listing' = <<i>> \o listing /\ touched' = touched \cup {i}
  /\ pushed' = TRUE
  /\ UNCHANGED <<old, removed>>

ChangeItem ==
  /\ kind # "history"
  /\ Change
  /\ \E n \in DOMAIN listing :
       /\ listing' = <<listing[n]>> \o RemoveAt(listing, n)
       /\ touched' = touched \cup {listing[n]}
       /\ old' = old \ {listing[n]}
  /\ pushed' = TRUE
  /\ UNCHANGED removed

DeleteItem ==
  /\ Change
  /\ \E n \in DOMAIN listing :
       listing' = RemoveAt(listing, n) /\ removed' = removed \cup {listing[n]}
  /\ UNCHANGED <<old, touched, pushed>>

-----------------------------------------------------------------------------
AtMost(m, n) == IF m <= n THEN m ELSE n

(* Mutant: a search asks for a whole page, however few it still wants. *)
Batch_WholePages ==
  LET left == Only(listing, fetch.rest)
  IN  SubSeq(left, fetch.start + 1, AtMost(fetch.start + PageSize, Len(left)))

(* The page that is asked for. Slack's cursor stands for what was posted
   before the last page; Jira asks for no more than it still wants.         *)
Batch ==
  LET left == Only(listing, fetch.rest)
      size == IF kind = "search" THEN AtMost(MaxResults - Len(got), PageSize) ELSE PageSize
  IN  SubSeq(left, fetch.start + 1, AtMost(fetch.start + size, Len(left)))

Ends == [fetch EXCEPT !.at = "done", !.page = <<>>]

(* Mutant: the next page is asked for by the number of the last one. *)
AsksFrom_SamePage(start) == [fetch EXCEPT !.at = "ask", !.page = <<>>]

AsksFrom(start) == [fetch EXCEPT !.at = "ask", !.start = start, !.page = <<>>]

(* The items of a page that are left, each with a request of its own; after
   the last of them the next page, unless this was the last page.           *)
Onward(f) ==
  IF f.page # <<>> THEN [f EXCEPT !.at = "items"]
  ELSE IF f.last THEN Ends
  ELSE AsksFrom(fetch.start + (IF kind = "pulls" THEN PageSize ELSE 0))

(* _fetch_prs(): a page up to its first item that is too old, which ends it.*)
PullsAnswered ==
  /\ kind = "pulls"
  /\ LET recent == Only(Batch, Recent)
     IN  fetch' = Onward([fetch EXCEPT !.page = recent,
                            !.last = recent # Batch \/ Len(Batch) < PageSize])
  /\ UNCHANGED got

(* _search_issues() and the page loop of Confluence's fetch_raw(): no request
   for each item.                                                           *)
SearchAnswered ==
  /\ kind = "search"
  /\ got' = got \o Batch
  /\ fetch' = IF Len(got') >= Counted \/ Len(got') >= MaxResults THEN Ends
              ELSE AsksFrom(fetch.start + Len(Batch))

ContentAnswered ==
  /\ kind = "content"
  /\ got' = got \o Only(Batch, Recent)
  /\ fetch' = IF Len(Batch) < PageSize \/ fetch.start + Len(Batch) >= Counted THEN Ends
              ELSE AsksFrom(fetch.start + Len(Batch))

(* Slack's fetch_raw(): a page and the cursor of the next one.              *)
HistoryAnswered ==
  /\ kind = "history"
  /\ LET older == {i \in Range(listing) \cap fetch.rest : i \notin Range(Batch)}
     IN  fetch' = Onward([fetch EXCEPT !.page = Batch, !.rest = older, !.last = older = {}])
  /\ UNCHANGED got

(* _fetch_commits(), _fetch_issues(), _fetch_google_meet(), _fetch_zoom(),
   _fetch_teams(): there is no second page, however full this one is.       *)
ListAnswered ==
  /\ kind = "list"
  /\ fetch' = Onward([fetch EXCEPT !.page = Batch, !.last = TRUE])
  /\ UNCHANGED got

PageAnswered ==
  /\ fetch.at = "ask"
  /\ \/ PullsAnswered \/ SearchAnswered \/ ContentAnswered
     \/ HistoryAnswered \/ ListAnswered
  /\ more' = (Len(listing) > fetch.start + Len(Batch))
  /\ UNCHANGED <<serviceVars, ghostVars, refused>>

(* An answer that is not a success ends the fetch with what it has.         *)
PageRefused ==
  /\ fetch.at = "ask"
  /\ fetch' = Ends
  /\ refused' = TRUE
  /\ UNCHANGED <<serviceVars, got, ghostVars, more>>

(* An item with what its own requests add: files and reviews, replies, the
   transcript; one that makes no event is passed over (`continue`). A refusal
   costs a pull request or a message its details only, ...                  *)
ItemRead ==
  /\ fetch.at = "items"
  /\ got' = IF Head(fetch.page) \in bare THEN got ELSE Append(got, Head(fetch.page))
  /\ fetch' = Onward([fetch EXCEPT !.page = Tail(fetch.page)])
  /\ UNCHANGED <<serviceVars, ghostVars, refused, more>>

(* ... a meeting its transcript, and with it the event.                     *)
ItemRefused ==
  /\ fetch.at = "items" /\ kind = "list"
  /\ fetch' = Onward([fetch EXCEPT !.page = Tail(fetch.page)])
  /\ refused' = TRUE
  /\ UNCHANGED <<serviceVars, got, ghostVars, more>>

(* A connection error, or an answer that is not JSON, is raised to sync().  *)
RequestFails ==
  /\ fetch.at \in {"ask", "items"}
  /\ fetch' = [fetch EXCEPT !.at = "failed"]
  /\ UNCHANGED <<serviceVars, got, ghostVars, refused, more>>

FetchNext ==
  \/ AddItem \/ ChangeItem \/ DeleteItem
  \/ PageAnswered \/ PageRefused \/ ItemRead \/ ItemRefused \/ RequestFails

FetchSpec == FetchInit /\ [][FetchNext]_fetchVars

-----------------------------------------------------------------------------
(* Reading stopped at a limit of the code's own, with more in the listing than
   the service had been asked for: one page, however many of its items made
   events; MaxResults; or the first page where the code relies on a count that
   the service does not send.                                               *)
Limited ==
  /\ more
  /\ \/ kind = "list"
     \/ kind = "search" /\ Len(got) >= MaxResults
     \/ kind \in {"search", "content"} /\ ~counted

(* A fetch that came to its end, nothing refused, has an event of every recent
   item that makes one and that nobody touched while it ran, although the pages
   moved under it; a deletion moves the offsets the other way and may hide an
   item.                                                                    *)
NothingIsSkipped ==
  fetch.at = "done" /\ ~refused /\ ~Limited /\ (removed # {} => kind \in {"history", "list"}) =>
    \A i \in Range(listing) \ (old \cup bare \cup touched) : i \in Range(got)

(* An item is read twice only if something came to the front of a listing
   that is read by offsets.                                                 *)
RepeatsHaveACause ==
  ~IsInjective(got) => pushed /\ kind \in {"pulls", "search", "content"}

(* fetch_raw() of every source: no recent item is passed over but for the limits
   it reads with, and none comes twice but for what moving pages bring about.*)
FetchIsExact == NothingIsSkipped /\ RepeatsHaveACause
=============================================================================
