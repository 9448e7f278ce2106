------------------------------ MODULE FeedScroll ------------------------------
(***************************************************************************)
(* Browsing: the platform tools of an agent (platform_tools/registry.py),  *)
(* the cursor with which it scrolls (langgraph/tools/support/              *)
(* shared_platform.py inside, external_access/cursor.py outside) and the   *)
(* pages the platform serves (domains/feed/queries.py,                     *)
(* domains/comment/application.py, domains/search/application.py).         *)
(*                                                                         *)
(* A view is read in requests of their own while others write, delete and  *)
(* like; the cursor remembers an offset and nothing of what was shown.     *)
(* Tools that change something read it back afterwards, and either request *)
(* may fail.                                                               *)
(*                                                                         *)
(* Abstractions: an item is its identity; contents, authors and the marks  *)
(* of the reader are left out; an interaction is one that changes no list. *)
(* The list is the one the agent looks at, whatever it is of: one size of  *)
(* the pool and one weight of the jitter stand for those of posts and those *)
(* of comments.                                                            *)
(***************************************************************************)
EXTENDS Integers, Sequences, FiniteSets

CONSTANTS
  MaxItem,    \* bound: posts, comments or messages
  PageSize,   \* PAGED_FETCH_SIZE
  FirstCount, \* what a view shows when it is opened
  MaxCount,   \* bound of normalize_count
  Pool,       \* MIN_RECOMMENDATION_POOL_SIZE, MIN_COMMENT_POOL_SIZE
  Weight,     \* places the jitter can move an item: 0.3 * (Pool - 1) / 0.7 for
              \* posts, 0.2 * (Pool - 1) / 0.8 for comments
  MaxActs,    \* bound: interactions tried
  MaxMoves    \* bound: changes of the list

ASSUME FeedAssumption ==
  /\ PageSize \in Nat \ {0} /\ FirstCount \in Nat \ {0}
  /\ {MaxItem, MaxCount, Pool, Weight, MaxActs, MaxMoves} \subseteq Nat

VARIABLES
  list,     \* the items of the view in the platform's order
  jitter,   \* seeded_jitter of each item, the same throughout for one seed
  view,     \* what the agent has open: kind, and the cursor if there is more
  start,    \* history: the items there were when the view was opened
  shown,    \* history: how often an item was shown since
  fetch,    \* a scroll in progress
  disturbed,\* history: what has happened to the list since the view was opened
  changed,  \* changes of the list so far
  acting,   \* an interaction in progress
  acts,     \* interactions the platform has carried out
  answers   \* what the agent was told of them

feedVars == <<list, jitter, view, start, shown, fetch, disturbed, changed, acting, acts, answers>>

Items == 1..MaxItem

\* What a view shows: the recommended and followed posts; what a search finds;
\* the latest posts or those of a user; comments and replies as they are ranked;
\* the latest comments or messages.
Kinds == {"ranked", "searched", "paged", "threads", "counted"}

\* Read by pages, the others by an offset and a limit; reordered in a pool;
\* ordered by heat, followers or likeness to what is searched for, the others by
\* time.
Paged == {"ranked", "searched", "paged"}
Pooled == {"ranked", "threads"}
Moving == {"ranked", "threads", "searched"}

NoView == [kind |-> "none", offset |-> 0, more |-> FALSE, ended |-> FALSE]
NoFetch == [page |-> 0, count |-> 0, items |-> <<>>]
NoAnswers == [done |-> 0, failed |-> 0]

Least(a, b) == IF a < b THEN a ELSE b
Greatest(a, b) == IF a < b THEN b ELSE a

-----------------------------------------------------------------------------
(* The platform                                                            *)

\* The first items by heat, which are reordered.
PoolSize(l) == Least(Len(l), Pool)

\* recommendation_rank, in places: the place in the pool and the jitter.
Rank(l, i) == PoolSize(l) - i + Weight * jitter[l[i]]

\* sorted(reverse=True), which keeps equal ranks in order.
Candidates(l) ==
  LET P == 1..PoolSize(l)
      Before(i, j) == Rank(l, i) > Rank(l, j) \/ (Rank(l, i) = Rank(l, j) /\ i < j)
  IN [k \in P |-> l[CHOOSE i \in P : Cardinality({j \in P : Before(j, i)}) = k - 1]]

\* Mutation of TailOffset: what the pool has shown is counted again.
TailFromOffset(offset, pool) == offset

TailOffset(offset, pool) == Greatest(offset, pool)

\* get_posts_for_feed, _get_comments_for_tree: a window of the pool, and behind
\* it of the list.
PooledWindow(l, offset, size) ==
  LET head == SubSeq(Candidates(l), offset + 1, Least(offset + size, PoolSize(l)))
      tail == TailOffset(offset, PoolSize(l))
  IN IF Len(head) < size /\ offset + size > PoolSize(l)
     THEN head \o SubSeq(l, tail + 1, Least(tail + size - Len(head), Len(l)))
     ELSE head

PlainWindow(l, offset, size) == SubSeq(l, offset + 1, Least(offset + size, Len(l)))

Window(kind, offset, size) ==
  IF kind \in Pooled THEN PooledWindow(list, offset, size)
                     ELSE PlainWindow(list, offset, size)

\* get_feed, get_user_feed, search_content
PageOf(kind, page, size) == Window(kind, (page - 1) * size, size)

\* calculate_pagination
HasNext(page, size) == page < (Len(list) + size - 1) \div size

\* Others write, delete, or move an item by liking or answering it.
Insert(x, i) ==
  /\ changed < MaxMoves /\ x \notin {list[j] : j \in 1..Len(list)} /\ i \in 0..Len(list)
  /\ list' = SubSeq(list, 1, i) \o <<x>> \o SubSeq(list, i + 1, Len(list))
  /\ disturbed' = disturbed \cup {"grown"} /\ changed' = changed + 1
  /\ UNCHANGED <<jitter, view, start, shown, fetch, acting, acts, answers>>

Remove(i) ==
  /\ changed < MaxMoves /\ i \in 1..Len(list)
  /\ list' = SubSeq(list, 1, i - 1) \o SubSeq(list, i + 1, Len(list))
  /\ disturbed' = disturbed \cup {"shrunk"} /\ changed' = changed + 1
  /\ UNCHANGED <<jitter, view, start, shown, fetch, acting, acts, answers>>

Reheat(i) ==
  /\ changed < MaxMoves /\ view.kind \in Moving /\ i \in 1..(Len(list) - 1)
  /\ list' = [list EXCEPT ![i] = list[i + 1], ![i + 1] = list[i]]
  /\ disturbed' = disturbed \cup {"moved"} /\ changed' = changed + 1
  /\ UNCHANGED <<jitter, view, start, shown, fetch, acting, acts, answers>>

-----------------------------------------------------------------------------
(* Reading                                                                 *)

Counting(count, items) ==
  [x \in Items |-> count[x] + Cardinality({i \in 1..Len(items) : items[i] = x})]

\* run_shared_tool: the result's cursor replaces the one kept; external clients
\* get it signed instead (execute_tool).
Keep(kind, offset, more) ==
  view' = [kind |-> kind, offset |-> offset, more |-> more, ended |-> ~more]

\* get_global_feed, get_user_profile, search_platform: the first page.
OpenPaged(kind) ==
  LET items == PageOf(kind, 1, FirstCount) IN
  /\ kind \in Paged
  /\ Keep(kind, Len(items), HasNext(1, FirstCount))
  /\ shown' = Counting([x \in Items |-> 0], items)

\* view_post_comments, expand_comment, view_notifications
OpenCounted(kind) ==
  LET items == Window(kind, 0, FirstCount) IN
  /\ kind \notin Paged
  /\ Keep(kind, Len(items), Len(items) < Len(list))
  /\ shown' = Counting([x \in Items |-> 0], items)

OpenView(kind) ==
  /\ view = NoView /\ fetch = NoFetch /\ acting = "no"
  /\ OpenCounted(kind) \/ OpenPaged(kind)
  /\ start' = {list[i] : i \in 1..Len(list)} /\ disturbed' = {}
  /\ UNCHANGED <<list, jitter, fetch, changed, acting, acts, answers>>

\* A tool without a list of its own - expand_post, view_notification_origin,
\* view_full_hot_topics, logout - clears the cursor.
Leave ==
  /\ view # NoView /\ fetch = NoFetch /\ acting = "no"
  /\ view' = NoView
  /\ start' = {} /\ shown' = [x \in Items |-> 0] /\ disturbed' = {}
  /\ UNCHANGED <<list, jitter, fetch, changed, acting, acts, answers>>

\* decode_cursor accepts a cursor until it expires, also one that has been used:
\* an external client may go back to any place in the view.  A bound: once.
Rewind(offset) ==
  /\ view # NoView /\ fetch = NoFetch /\ acting = "no" /\ "rewound" \notin disturbed
  /\ offset \in FirstCount..(view.offset - 1)
  /\ view' = [view EXCEPT !.offset = offset, !.more = TRUE, !.ended = FALSE]
  /\ disturbed' = disturbed \cup {"rewound"}
  /\ UNCHANGED <<list, jitter, start, shown, fetch, changed, acting, acts, answers>>

\* scroll of comments, replies and messages
ScrollCounted(count) ==
  LET items == Window(view.kind, view.offset, count)
      next == view.offset + Len(items)
  IN /\ view.kind \in Kinds \ Paged /\ view.more /\ acting = "no"
     /\ Keep(view.kind, next, next < Len(list))
     /\ shown' = Counting(shown, items)
     /\ UNCHANGED <<list, jitter, start, fetch, disturbed, changed, acting, acts, answers>>

\* scroll of posts and of users: _fetch_paged_items_after_offset, one request per page.
StartScroll(count) ==
  /\ view.kind \in Paged /\ view.more /\ fetch = NoFetch /\ acting = "no"
  /\ fetch' = [page |-> view.offset \div PageSize + 1, count |-> count, items |-> <<>>]
  /\ UNCHANGED <<list, jitter, view, start, shown, disturbed, changed, acting, acts, answers>>

\* Mutation of Slice: a page is taken from its first item.
SliceFromStart(items, page, from, to) ==
  SubSeq(items, 1, Least(to - (page - 1) * PageSize, Len(items)))

\* The part of a page that lies in the window.
Slice(items, page, from, to) ==
  LET first == (page - 1) * PageSize
  IN SubSeq(items, Greatest(from - first, 0) + 1, Least(to - first, Len(items)))

\* Mutation of MoreAfter: the last page that was read decides.
MoreByPage(next, page) == HasNext(page, PageSize)

\* What has been read against the total the last page came with.
MoreAfter(next, page) == next < Len(list)

\* A page arrives; the last one ends the scroll.
FetchPage ==
  LET end == view.offset + fetch.count
      items == fetch.items \o Slice(PageOf(view.kind, fetch.page, PageSize), fetch.page,
                                    view.offset, end)
      next == view.offset + Len(items)
      last == fetch.page = (end - 1) \div PageSize + 1 \/ ~HasNext(fetch.page, PageSize)
  IN /\ fetch # NoFetch
     /\ IF last
        THEN /\ fetch' = NoFetch
             /\ Keep(view.kind, next, MoreAfter(next, fetch.page))
             /\ shown' = Counting(shown, items)
        ELSE /\ fetch' = [fetch EXCEPT !.page = @ + 1, !.items = items]
             /\ UNCHANGED <<view, shown>>
     /\ UNCHANGED <<list, jitter, start, disturbed, changed, acting, acts, answers>>

\* A request fails or times out: the cursor stays.
FailScroll ==
  /\ fetch # NoFetch /\ fetch' = NoFetch
  /\ UNCHANGED <<list, jitter, view, start, shown, disturbed, changed, acting, acts, answers>>

-----------------------------------------------------------------------------
(* Interactions                                                            *)

\* create_post, create_comment, toggle_like, vote, follow, repost, report,
\* delete_content: the request that changes something.  The cursor is kept.  A
\* bound: before the list changes, with which it has nothing to do.
Interact ==
  /\ acting = "no" /\ fetch = NoFetch
  /\ acts + answers.failed < MaxActs /\ changed = 0
  /\ acting' = "asked"
  /\ UNCHANGED <<list, jitter, view, start, shown, fetch, disturbed, changed, acts, answers>>

\* The platform carries it out; the answer arrives and what was changed is read
\* back, or the answer is lost.
CarryOut ==
  /\ acting = "asked" /\ acts' = acts + 1
  /\ acting' \in {"reading", "lost"}
  /\ UNCHANGED <<list, jitter, view, start, shown, fetch, disturbed, changed, answers>>

\* Mutation of Told: a failed request is told as done.
ToldDone(stage) == [answers EXCEPT !.done = @ + 1]

\* run_shared_tool, _platform_error_response: done once everything was read
\* back; an error otherwise, whatever the platform has carried out.
Told(stage) == IF stage = "reading" THEN [answers EXCEPT !.done = @ + 1]
                                    ELSE [answers EXCEPT !.failed = @ + 1]

Answer ==
  /\ acting # "no" /\ acting' = "no"
  /\ answers' \in {Told(acting), Told("lost")}
  /\ UNCHANGED <<list, jitter, view, start, shown, fetch, disturbed, changed, acts>>

FeedInit ==
  /\ list = [i \in 1..(MaxItem - 1) |-> i]
  /\ jitter \in [Items -> 0..1]
  /\ view = NoView /\ start = {} /\ shown = [x \in Items |-> 0]
  /\ fetch = NoFetch /\ disturbed = {} /\ changed = 0
  /\ acting = "no" /\ acts = 0 /\ answers = NoAnswers

Browse ==
  \/ \E kind \in Kinds : OpenView(kind)
  \/ Leave
  \/ \E offset \in 1..MaxItem : Rewind(offset)
  \/ \E count \in 1..MaxCount : ScrollCounted(count) \/ StartScroll(count)
  \/ FetchPage \/ FailScroll

FeedNext ==
  \/ Browse
  \/ \E x \in Items, i \in 0..Len(list) : Insert(x, i)
  \/ \E i \in 1..Len(list) : Remove(i) \/ Reheat(i)
  \/ Interact \/ CarryOut \/ Answer

FeedSpec == FeedInit /\ [][FeedNext]_feedVars

-----------------------------------------------------------------------------
(* Properties                                                              *)

\* The values every variable can take.
FeedTypeOK ==
  /\ Len(list) <= MaxItem /\ {list[i] : i \in 1..Len(list)} \subseteq Items
  /\ jitter \in [Items -> 0..1]
  /\ view \in [kind : Kinds \cup {"none"}, offset : 0..MaxItem, more : BOOLEAN,
               ended : BOOLEAN]
  /\ start \subseteq Items /\ shown \in [Items -> Nat]
  /\ fetch.page \in Nat /\ fetch.count \in 0..MaxCount
  /\ disturbed \subseteq {"grown", "shrunk", "moved", "rewound"} /\ changed \in 0..MaxMoves
  /\ acting \in {"no", "asked", "reading", "lost"}
  /\ acts \in 0..MaxActs /\ answers \in [done : 0..MaxActs, failed : 0..MaxActs]

\* A view that has been scrolled to its end has shown every item that was there
\* all along, whatever counts were asked for, across pages of another size, the
\* seam of the pool and the end of the list - unless an item was removed or
\* moved, or one was added where a pool is reordered, which shifts what the
\* offset stands for (registry.py:57-104, 234-384, feed/queries.py:405-460,
\* comment/application.py:138-164).
ScrollSeesAll ==
  view.ended /\ (disturbed \cap {"shrunk", "moved"} = {})
  /\ (view.kind \in Pooled => "grown" \notin disturbed)
  => \A i \in 1..Len(list) : list[i] \in start => shown[list[i]] > 0

\* Nothing is shown twice, unless something was added in front or moved, or one
\* was removed where a pool is reordered, or the client went back
\* (registry.py:57-104, 234-384, feed/queries.py:405-460,
\* comment/application.py:138-164).
ScrollShowsOnce ==
  disturbed \cap {"grown", "moved", "rewound"} = {}
  /\ (view.kind \in Pooled => "shrunk" \notin disturbed)
  => \A x \in Items : shown[x] <= 1

\* What an agent is told is done has been done, once; what it is told has
\* failed may have been done all the same, so that it is done again when the
\* agent repeats it (registry.py:584-785, platform_access/client.py:86-140).
DoneIsDone ==
  LET inProgress == IF acting \in {"reading", "lost"} THEN 1 ELSE 0
  IN /\ answers.done <= acts
     /\ acts <= answers.done + answers.failed + inProgress

\* What an agent learns from its tools is right: everything there was to see,
\* nothing twice, and what has been done.
ToldRight == ScrollSeesAll /\ ScrollShowsOnce /\ DoneIsDone
=============================================================================
