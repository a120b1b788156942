---------------------------- MODULE MessageFeed ----------------------------
(***************************************************************************)
(* One account's feed as one tab caches it (queries/messages.ts), against    *)
(* the paginated read of the server (crud.get_messages_for_user) and the     *)
(* announcements of the Realtime module, any of which may be lost here: the  *)
(* tab's socket is down, or the page with the socket is not mounted.  The    *)
(* query library is external: a fetch works on what the cache held when it   *)
(* started and overwrites what was written to the cache meanwhile.           *)
(***************************************************************************)
EXTENDS Naturals, Sequences, FiniteSets, SequencesExt

CONSTANTS Messages,   \* ids, in the order the database hands them out
          History,    \* how many are stored before the tab opens
          PAGE_SIZE, MAX_RETRIES,
          Clocks,     \* the timestamps the messages may have: [Messages -> Nat]
          Second,     \* ticks of the clock in one second
          NoMessage,
          MaxDue      \* bound: messages with announcements on their way

ASSUME FeedAssumption ==
    /\ Messages \subseteq Nat \ {0} /\ IsFiniteSet(Messages)
    /\ PAGE_SIZE \in Nat \ {0} /\ MAX_RETRIES \in Nat /\ Second \in Nat \ {0}
    /\ Clocks \subseteq [Messages -> Nat] /\ History \in Nat /\ MaxDue \in Nat /\ NoMessage \notin Messages

VARIABLES
    row,     \* [Messages -> RowStates]
    ts,      \* in Clocks: the start of each transaction, func.now()
    due,     \* announcements and answers on their way to this tab
    loaded,  \* the cache has data
    pages,   \* data.pages: newest page first, each in ascending order
    fetch,   \* the fetch in progress
    floor,   \* ghost: the oldest message read so far, or NoMessage when the
             \* last page read was the last there is
    missed,  \* ghost: messages whose announcement the cache may have lost
    skipped, \* ghost: messages that an older page was asked for below of
    overtaken, \* ghost: a message older than what has been read was put into
             \* the only page, since the last refetch
    crossed  \* ghost: an announcement came since the fetch in progress began

vars == <<row, ts, due, loaded, pages, fetch, floor, missed, skipped, overtaken,
          crossed>>
skips == <<skipped, overtaken>>

RowStates == {"free", "stored", "gone"}
Stored == {m \in Messages : row[m] = "stored"}
Held(ps) == UNION {ToSet(ps[i]) : i \in DOMAIN ps}
Shown == Held(pages)

(* base: what older pages are appended to; wanted: how many pages to re-read. *)
NoFetch == [kind |-> "none", base |-> <<>>, wanted |-> 0, got |-> <<>>,
            answered |-> FALSE, page |-> <<>>, failures |-> 0]

-----------------------------------------------------------------------------
(* Order, cursors and pages. *)

(* By key, then by number; and what a sort by that puts out. *)
Precedes(key, m, n) == key[m] < key[n] \/ (key[m] = key[n] /\ m < n)

InOrder(S, key) ==
    [i \in 1..Cardinality(S) |->
        CHOOSE m \in S : Cardinality({n \in S : Precedes(key, n, m)}) = i - 1]

(* The server's order. *)
Before(m, n) == Precedes(ts, m, n)

(* Mutant: the cursor is the timestamp alone. *)
MutTimestampOnly(cursor) == {m \in Stored : cursor = NoMessage \/ ts[m] < ts[cursor]}

(* The rows a keyset cursor leaves to read. *)
Selected(cursor) == {m \in Stored : cursor = NoMessage \/ Before(m, cursor)}

(* The client compares timestamps as strings, and a whole second is printed *)
(* without a fraction: it sorts behind every instant of that second.        *)
Printed(t) == IF t % Second = 0 THEN 2 * (t + Second) - 1 ELSE 2 * t
CompareKey == [m \in Messages |-> Printed(ts[m])]

(* The newest PAGE_SIZE rows before the cursor, oldest first. *)
GetMessages(cursor) ==
    LET all == InOrder(Selected(cursor), ts)
        from == IF Len(all) > PAGE_SIZE THEN Len(all) - PAGE_SIZE + 1 ELSE 1
    IN  SubSeq(all, from, Len(all))

(* Mutant: a full page is taken for the last. *)
MutFullIsLast(page) == IF Len(page) <= PAGE_SIZE THEN NoMessage ELSE page[1]

(* The cursor for the page after this one; NoMessage when there is none. *)
NextPageParams(page) == IF Len(page) < PAGE_SIZE THEN NoMessage ELSE page[1]

HasOlder == loaded /\ NextPageParams(Last(pages)) # NoMessage

(* Mutant: only the newest page is searched. *)
MutRemoveFromNewest(ps, m) ==
    <<SelectSeq(ps[1], LAMBDA n : n # m)>> \o Tail(ps)

(* What a filter leaves: the places that do not hold m, in their order. *)
Without(page, m) ==
    LET kept == InOrder({k \in DOMAIN page : page[k] # m}, [k \in DOMAIN page |-> k])
    IN  [i \in DOMAIN kept |-> page[kept[i]]]

RemoveMessage(ps, m) == [i \in DOMAIN ps |-> Without(ps[i], m)]

AppendToNewestPage(ps, m) ==
    IF m \in ToSet(ps[1]) THEN ps
    ELSE [ps EXCEPT ![1] = InOrder(ToSet(@) \cup {m}, CompareKey)]

-----------------------------------------------------------------------------
(* The database, and what the tab is told. *)

(* A timestamp is taken when a transaction starts and an id when it inserts, *)
(* and transactions overlap: commits come in any order of either.            *)
Init ==
    /\ row = [m \in Messages |-> IF m <= History THEN "stored" ELSE "free"]
    /\ ts \in Clocks
    /\ due = {} /\ loaded = FALSE /\ pages = <<>> /\ fetch = NoFetch
    /\ floor = NoMessage /\ missed = {} /\ crossed = FALSE
    /\ skipped = {} /\ overtaken = FALSE

UNCHANGEDCache == UNCHANGED <<loaded, pages, fetch, floor, missed, skips, crossed>>

(* The frame every socket gets, and the answer when this tab asked by HTTP. *)
Tell(op, m, byThisTab) ==
    due' = due \cup {[op |-> op, id |-> m, via |-> v] :
                        v \in {"frame"} \cup (IF byThisTab THEN {"answer"} ELSE {})}

Commit(m, byThisTab) ==
    /\ row[m] = "free" /\ Cardinality({d.id : d \in due} \cup {m}) <= MaxDue
    /\ row' = [row EXCEPT ![m] = "stored"]
    /\ Tell("message", m, byThisTab)
    /\ UNCHANGED ts /\ UNCHANGEDCache

(* This tab deletes what it shows; the account's other clients, anything. *)
Delete(m, byThisTab) ==
    /\ row[m] = "stored" /\ (byThisTab => m \in Shown)
    /\ Cardinality({d.id : d \in due} \cup {m}) <= MaxDue
    /\ row' = [row EXCEPT ![m] = "gone"]
    /\ Tell("message_deleted", m, byThisTab)
    /\ UNCHANGED ts /\ UNCHANGEDCache

(* Ghosts: the cache may be wrong about these, and the fetch in progress does *)
(* not settle it.                                                             *)
Fetching == fetch.kind # "none"
Doubt(S) ==
    /\ missed' = IF loaded \/ Fetching THEN missed \cup S ELSE {}
    /\ crossed' = Fetching

(* Ghost: m would become the cursor of a feed of one page. *)
BelowOnlyPage(m) ==
    loaded /\ Len(pages) = 1 /\ floor # NoMessage /\ Before(m, floor)

(* A frame or an answer is written to the cache, unless there is none yet. *)
(* In doubt: what a fetch may overwrite, and a message told of after its   *)
(* deletion (see NoGhosts of Realtime).                                    *)
UpdateFeedCache(d) ==
    /\ due' = due \ {d}
    /\ pages' = IF ~loaded THEN pages
                ELSE IF d.op = "message" THEN AppendToNewestPage(pages, d.id)
                ELSE RemoveMessage(pages, d.id)
    /\ LET ghost == d.op = "message" /\ row[d.id] = "gone"
                      /\ ~ \E e \in due : e.op = "message_deleted" /\ e.id = d.id
       IN  Doubt(IF Fetching \/ ghost THEN {d.id} ELSE {})
    /\ overtaken' = (overtaken \/ (d.op = "message" /\ BelowOnlyPage(d.id)))
    /\ UNCHANGED <<row, ts, loaded, fetch, floor, skipped>>

(* The tab's socket is down when the frame is sent, or the answer is lost. *)
Miss(d) ==
    /\ due' = due \ {d}
    /\ Doubt({d.id})
    /\ UNCHANGED <<row, ts, loaded, pages, fetch, floor, skips>>

-----------------------------------------------------------------------------
(* Fetches. *)

StartFetch(kind, base, wanted) ==
    /\ fetch' = [NoFetch EXCEPT !.kind = kind, !.base = base, !.wanted = wanted]
    /\ crossed' = FALSE
    /\ UNCHANGED <<row, ts, due, loaded, pages, floor, missed, skips>>

(* A mount or the network's return: the first page, then as many as there *)
(* were.  A fetch in progress is joined, not restarted.                    *)
Refetch ==
    /\ ~Fetching
    /\ StartFetch("all", <<>>, IF loaded THEN Len(pages) ELSE 1)

(* The button, which a fetch of an older page disables; a refetch in *)
(* progress is cancelled.                                            *)
LoadOlder == HasOlder /\ fetch.kind # "older" /\ StartFetch("older", pages, 1)

(* The cursor of the page being asked for; NoMessage asks for the newest. *)
PageParam ==
    IF fetch.kind = "older" THEN NextPageParams(Last(fetch.base))
    ELSE IF fetch.got = <<>> THEN NoMessage ELSE NextPageParams(Last(fetch.got))

ListMessages ==
    /\ Fetching /\ ~fetch.answered
    /\ fetch' = [fetch EXCEPT !.answered = TRUE, !.page = GetMessages(PageParam)]
    /\ UNCHANGED <<row, ts, due, loaded, pages, floor, missed, skips, crossed>>

(* The result replaces the cache. *)
Fetched(result) ==
    /\ pages' = result /\ loaded' = TRUE /\ fetch' = NoFetch
    /\ floor' = IF Len(fetch.page) < PAGE_SIZE THEN NoMessage ELSE fetch.page[1]
    /\ crossed' = FALSE
    /\ UNCHANGED <<row, ts, due>>

(* Ghost: an older page asked for below the floor leaves out what lies in between. *)
Skipped == {m \in Messages : floor # NoMessage /\ Before(PageParam, m) /\ Before(m, floor)}

(* A refetch that nothing crossed settles what was missed, and any refetch *)
(* what was skipped.                                                       *)
PageArrives ==
    /\ fetch.answered
    /\ LET got == Append(fetch.got, fetch.page)
       IN  IF fetch.kind = "older"
           THEN /\ Fetched(Append(fetch.base, fetch.page))
                /\ skipped' = skipped \cup Skipped
                /\ UNCHANGED <<missed, overtaken>>
           ELSE IF Len(got) = fetch.wanted \/ NextPageParams(fetch.page) = NoMessage
           THEN /\ Fetched(got)
                /\ missed' = IF crossed THEN missed ELSE {}
                /\ skipped' = {} /\ overtaken' = FALSE
           ELSE /\ fetch' = [fetch EXCEPT !.got = got, !.answered = FALSE, !.page = <<>>]
                /\ UNCHANGED <<row, ts, due, loaded, pages, floor, missed, skips,
                               crossed>>

(* Mutant: one attempt more. *)
MutOneMore(failures) == failures <= MAX_RETRIES

ShouldRetry(failures) == failures < MAX_RETRIES

(* The network or a 5xx fails the request before or after the server reads: *)
(* the same page again.                                                     *)
PageFails ==
    /\ Fetching /\ ShouldRetry(fetch.failures)
    /\ fetch' = [fetch EXCEPT !.answered = FALSE, !.page = <<>>, !.failures = @ + 1]
    /\ UNCHANGED <<row, ts, due, loaded, pages, floor, missed, skips, crossed>>

(* The last attempt fails, the answer is a 4xx, or nobody shows the feed *)
(* any more: the cache keeps what it has.                                *)
FetchFails ==
    /\ Fetching
    /\ fetch' = NoFetch /\ crossed' = FALSE
    /\ UNCHANGED <<row, ts, due, loaded, pages, floor, missed, skips>>

(* Nobody has shown the feed for a while: the library drops it. *)
Forget ==
    /\ loaded /\ ~Fetching
    /\ loaded' = FALSE /\ pages' = <<>> /\ floor' = NoMessage /\ missed' = {}
    /\ skipped' = {} /\ overtaken' = FALSE
    /\ UNCHANGED <<row, ts, due, fetch, crossed>>

Next ==
    \/ \E m \in Messages, own \in BOOLEAN : Commit(m, own) \/ Delete(m, own)
    \/ \E d \in due : UpdateFeedCache(d) \/ Miss(d)
    \/ Refetch \/ LoadOlder \/ ListMessages \/ PageArrives
    \/ PageFails \/ FetchFails \/ Forget

Spec == Init /\ [][Next]_vars

(* A request is answered or fails, and the library goes on with that. *)
FairSpec == Spec /\ WF_vars(ListMessages \/ PageArrives \/ PageFails \/ FetchFails)

-----------------------------------------------------------------------------
(* Every variable has its type, and no fetch fails more often than the *)
(* retry policy allows.                                                *)
TypeOK ==
    /\ row \in [Messages -> RowStates] /\ ts \in Clocks
    /\ due \subseteq [op : {"message", "message_deleted"}, id : Messages,
                      via : {"frame", "answer"}]
    /\ loaded \in BOOLEAN /\ (loaded <=> pages # <<>>)
    /\ pages \in Seq(Seq(Messages))
    /\ fetch \in [kind : {"none", "all", "older"}, base : Seq(Seq(Messages)),
                  wanted : Nat, got : Seq(Seq(Messages)), answered : BOOLEAN,
                  page : Seq(Messages), failures : 0..MAX_RETRIES]
    /\ floor \in Messages \cup {NoMessage}
    /\ missed \subseteq Messages /\ skipped \subseteq Messages
    /\ overtaken \in BOOLEAN /\ crossed \in BOOLEAN

Heard(m) == m \notin missed /\ ~ \E d \in due : d.id = m
Quiet(m) == Heard(m) /\ m \notin skipped
InReach(m) == floor = NoMessage \/ ~Before(m, floor)

(* Once a message has no announcement on its way, the feed is right about    *)
(* it: it is shown only if it is stored, and if it is stored and no older     *)
(* than what has been read, it is shown.  Excepted are the messages the code  *)
(* can lose track of: announced to a dead socket, announced while a fetch was *)
(* in progress, announced after their deletion (all until a refetch that      *)
(* nothing crosses), and skipped by a cursor (until a refetch).               *)
(* queries/messages.ts: appendToNewestPage, removeMessage, the refetch.       *)
FeedAccurate ==
    loaded => \A m \in Messages : Quiet(m) =>
        /\ m \in Shown => row[m] = "stored"
        /\ row[m] = "stored" /\ InReach(m) => m \in Shown

Unskipped ==
    loaded /\ ~HasOlder /\ (\A m \in Messages : row[m] # "gone") =>
        \A m \in Stored : Heard(m) => m \in Shown

(* "Load older messages" is offered until the whole history is shown: pages   *)
(* that share a timestamp across their boundary, retries, refetches, frames   *)
(* sorted into any page and late commits into a feed of several pages         *)
(* included.  Two things are excepted, that the code does not keep: where     *)
(* messages have been deleted (OlderExist), and where a message dated before  *)
(* what had been read got into a feed of one page, whose cursor it becomes    *)
(* (CursorUndisturbed); and the messages the tab was not told of (Heard).     *)
(* nextPageParams, appendToNewestPage, crud.py get_messages_for_user.         *)
HistoryReachable == ~overtaken => Unskipped

(* A refetch that nothing crosses repairs whatever the feed had lost: ghosts, *)
(* messages missed, overwritten or skipped, and a button that deletions had   *)
(* hidden.  The feed then shows what is stored; what is stored and not shown  *)
(* is older than all of its last page, and older messages are offered.  Of    *)
(* messages with an announcement still to come it says nothing.               *)
(* queries/messages.ts: the infinite query's refetch and nextPageParams.      *)
RefetchRepairs ==
    [][PageArrives /\ fetch.kind = "all" /\ ~Fetching' /\ ~crossed =>
          \A m \in Messages : (\A d \in due : d.id # m) =>
             /\ m \in Shown' => row[m] = "stored"
             /\ row[m] = "stored" /\ m \notin Shown' =>
                   HasOlder' /\ \A n \in ToSet(Last(pages')) : Before(m, n)]_vars

-----------------------------------------------------------------------------
(* The inductive invariants behind FeedAccurate and HistoryReachable.       *)

DueInv ==
    \A d \in due : IF d.op = "message" THEN row[d.id] # "free" ELSE row[d.id] = "gone"

(* A page holds a message once, and one that has lost nothing stays as long *)
(* as it came.                                                             *)
PagesInv ==
    /\ \A ps \in {pages, fetch.base, fetch.got} : \A i \in DOMAIN ps : IsInjective(ps[i])
    /\ IsInjective(fetch.page)
    /\ floor # NoMessage /\ (\A m \in Messages : row[m] # "gone") =>
          loaded /\ NextPageParams(Last(pages)) # NoMessage

(* What ps says of m is so, if m is not older than `lowest`. *)
RightAbout(m, ps, lowest) ==
    /\ m \in Held(ps) => row[m] = "stored"
    /\ row[m] = "stored" /\ (lowest = NoMessage \/ ~Before(m, lowest)) => m \in Held(ps)

(* Nothing was heard, nor is to be heard, of m since the fetch began. *)
Steady(m) == (crossed => m \notin missed) /\ ~ \E d \in due : d.id = m

(* What a fetch has, or starts from, is right about the steady messages. *)
FetchInv ==
    /\ fetch.kind = "older" =>
          /\ loaded /\ fetch.base # <<>> /\ PageParam # NoMessage
          /\ \A m \in Messages : Quiet(m) => RightAbout(m, fetch.base, floor)
    /\ fetch.kind = "all" /\ fetch.got # <<>> =>
          /\ PageParam # NoMessage
          /\ \A m \in Messages : Steady(m) => RightAbout(m, fetch.got, PageParam)
    /\ fetch.answered =>
          /\ Fetching
          /\ \A m \in Messages : Steady(m) =>
                /\ m \in ToSet(fetch.page) => row[m] = "stored"
                /\ /\ row[m] = "stored" /\ (PageParam = NoMessage \/ Before(m, PageParam))
                   /\ Len(fetch.page) < PAGE_SIZE \/ ~Before(m, fetch.page[1])
                   => m \in ToSet(fetch.page)

(* Nothing on the last page is older than what has been read, so that an     *)
(* older page begins there at the lowest, and skips nothing.                 *)
CursorInv ==
    /\ fetch.answered /\ NextPageParams(fetch.page) # NoMessage =>
          \A m \in ToSet(fetch.page) : ~Before(m, fetch.page[1])
    /\ ~overtaken =>
          /\ skipped = {}
          /\ floor # NoMessage =>
                /\ loaded /\ \A m \in ToSet(Last(pages)) : ~Before(m, floor)
                /\ fetch.kind = "older" =>
                      \A m \in ToSet(Last(fetch.base)) : ~Before(m, floor)

FeedInv == DueInv /\ PagesInv /\ FetchInv /\ FeedAccurate

-----------------------------------------------------------------------------
(* What the comments say and the code does not keep (see the README). *)

(* queries/messages.ts, useMessageFeed: "whether older messages exist is the *)
(* library's hasNextPage".  Deleting a message of the last page refutes it.  *)
OlderExist ==
    loaded /\ ~Fetching /\ (\E m \in Stored : Quiet(m) /\ m \notin Shown) => HasOlder

(* queries/messages.ts, appendToNewestPage: "growing the first page cannot   *)
(* disturb the pagination cursor, which is read from the last page".  So     *)
(* nothing is skipped, and the history is shown to its start.                *)
CursorUndisturbed == Unskipped

(* docs/gaps_and_improvements.md on useSendMessage and the socket callback:  *)
(* they write the feed directly, since "the response (or the socket echo,     *)
(* de-duplicated by `id`) is the authoritative row".  What was written to the *)
(* feed, with nothing more to come, stays in it while it is stored and in     *)
(* reach.                                                                     *)
WritesStay ==
    [][loaded /\ loaded' =>
          \A m \in Shown :
             row'[m] = "stored" /\ InReach(m)' /\ (\A d \in due' : d.id # m)
             => m \in Shown']_vars
=============================================================================
