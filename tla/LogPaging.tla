------------------------------- MODULE LogPaging -------------------------------
(***************************************************************************)
(* Reading a container's log page by page: the query's validation          *)
(* (daemon_api.rs), the collector's request through the gateway and its    *)
(* window (docker_collector.rs), the page (logs.rs) and the reader who     *)
(* merges pages by entry id (Logs.tsx).  The log grows meanwhile.          *)
(*                                                                         *)
(* A line has the millisecond Docker stamped it with and a text: "hit" and *)
(* "miss" differ in whether a query finds them, "bare" is a continuation or*)
(* blank line, which has no entry.  A line's place in the log is what the  *)
(* properties tell lines by; the code never sees it.                       *)
(***************************************************************************)
EXTENDS DockerGateway, Sequences, FiniteSets

CONSTANTS MillisPerSecond,
          PageSize,        \* the limit a reader asks for
          MaxPageSize,     \* MAX_LOG_PAGE_SIZE
          MaxUntil,        \* the largest second a request can name
          MaxMillis, MaxLines

ASSUME PagingAssumption == /\ MillisPerSecond \in Nat \ {0} /\ LogTail \in Nat \ {0}
                           /\ MaxPageSize \in Nat /\ PageSize \in 1..MaxPageSize
                           /\ MaxUntil \in Nat /\ MaxMillis \in Nat /\ MaxLines \in Nat

\* The log's times lie before the largest second a request can name.
ASSUME ClockAssumption == MaxMillis < MaxUntil * MillisPerSecond

VARIABLES label,      \* the label both sides are configured with
          log,        \* the container's lines, oldest first
          reader,     \* what the screen shows
          page,       \* the response on its way
          forwarded   \* the request Docker is answering

readsVars == <<label, log, reader, page, forwarded>>

NoCursor == [ms |-> 0, offset |-> 0]
NoPage == [kind |-> "none"]
NoRequest == [method |-> "none"]
EmptyReader == [shown |-> <<>>, cursor |-> NoCursor, exhausted |-> FALSE, loaded |-> FALSE,
                query |-> FALSE, since |-> 0, failed |-> FALSE]

ReadsInit == /\ label \in {t \in LabelTexts : CollectorConnects(t) /\ GatewayServes(t)}
        /\ log = <<>> /\ reader = EmptyReader /\ page = NoPage /\ forwarded = NoRequest

LineTexts == {"hit", "miss", "bare"}

\* Docker appends lines in the order of their times.
Append1(ms, text) ==
    /\ Len(log) < MaxLines
    /\ \A k \in DOMAIN log : log[k].ms <= ms
    /\ log' = Append(log, [ms |-> ms, text |-> text])
    /\ UNCHANGED <<label, reader, page, forwarded>>

-----------------------------------------------------------------------------
(* One page *)

UntilExclusive(cursor) ==                                         \* mutant: rounds down
    IF cursor = NoCursor THEN 0 ELSE cursor.ms \div MillisPerSecond

\* log_until_seconds: the whole second of the cursor is asked for; 0 asks for everything.
Until(cursor) ==
    IF cursor = NoCursor THEN 0
    ELSE LET second == cursor.ms \div MillisPerSecond + 1
         IN  IF second > MaxUntil THEN MaxUntil ELSE second

\* Docker: the last lines of the whole log, those before the second that was named.
Window(until) ==
    {i \in DOMAIN log : i > Len(log) - LogTail
                          /\ (until = 0 \/ log[i].ms < until * MillisPerSecond)}

\* collect_logs: an entry for every line with a time and a text, and an id that counts the
\* entries of its millisecond before it.
Entries(window) ==
    LET lines == {i \in window : log[i].text # "bare"}
        Ordinal(i) == Cardinality({j \in lines : j < i /\ log[j].ms = log[i].ms})
        Entry(i) == [line |-> i, ms |-> log[i].ms, id |-> <<log[i].ms, Ordinal(i)>>]
    IN {Entry(i) : i \in lines}

\* Newest first; entries of one millisecond stay in the order of the stream.
NewestFirst(entries) ==
    LET Before(a, b) == a.ms > b.ms \/ (a.ms = b.ms /\ a.line < b.line)
        Place(e) == Cardinality({x \in entries : Before(x, e)}) + 1
    IN [k \in 1..Cardinality(entries) |-> CHOOSE e \in entries : Place(e) = k]

\* The entries of the cursor's millisecond it counts, and all newer ones, were given before.
BehindCursor(entries, cursor) ==
    LET Given(e) == Cardinality({x \in entries : x.ms = e.ms /\ x.line < e.line}) < cursor.offset
    IN IF cursor = NoCursor THEN entries
       ELSE {e \in entries : e.ms < cursor.ms \/ (e.ms = cursor.ms /\ ~Given(e))}

\* The cursor after a full page: the oldest entry's millisecond, and how many of its entries
\* this and earlier pages gave.
CursorAfter(sorted, cursor, limit) ==
    LET ms == sorted[limit].ms
        here == Cardinality({k \in 1..limit : sorted[k].ms = ms})
        before == IF cursor # NoCursor /\ cursor.ms = ms THEN cursor.offset ELSE 0
    IN [ms |-> ms, offset |-> before + here]

\* page_log_entries: the query's entries, behind the cursor, newest first, cut to the limit.
PageLogEntries(entries, query, cursor, limit) ==
    LET size == IF limit > MaxPageSize THEN MaxPageSize ELSE limit
        found == {e \in entries : query => log[e.line].text = "hit"}
        sorted == NewestFirst(BehindCursor(found, cursor))
    IN [entries |-> SubSeq(sorted, 1, IF Len(sorted) > size THEN size ELSE Len(sorted)),
        next |-> IF Len(sorted) > size THEN CursorAfter(sorted, cursor, size) ELSE NoCursor]

-----------------------------------------------------------------------------
(* Requests *)

\* A request the gateway refuses reaches the reader as an error.
Ask(kind, query, cursor) ==
    LET request == LogsRequest("web", Until(cursor))
        answer == PageLogEntries(Entries(Window(Until(cursor))), query, cursor, PageSize)
    IN IF Handle(label, request, TRUE) = "forwarded"
       THEN /\ forwarded' = request
            /\ page' = [kind |-> kind, entries |-> answer.entries, next |-> answer.next,
                         query |-> query, since |-> Len(log)]
            /\ UNCHANGED <<label, log, reader>>
       ELSE /\ reader' = [reader EXCEPT !.failed = TRUE]
            /\ UNCHANGED <<label, log, page, forwarded>>

\* A new request aborts the one before it.
AskFirst(query) == Ask("first", query, NoCursor)
AskOlder == reader.loaded /\ reader.cursor # NoCursor /\ Ask("older", reader.query, reader.cursor)
AskLive == reader.loaded /\ Ask("live", reader.query, NoCursor)

\* Another client of the gateway's socket, or the collector's inventory.
SendRequest(r) ==
    /\ page = NoPage /\ forwarded = NoRequest
    /\ Handle(label, r, TRUE) = "forwarded"
    /\ forwarded' = r
    /\ UNCHANGED <<label, log, reader, page>>

-----------------------------------------------------------------------------
(* The reader *)

Known(shown) == {shown[k].id : k \in DOMAIN shown}

\* The entries at the positions in `keep`, in their order.
Kept(entries, keep) ==
    LET Place(k) == Cardinality({j \in keep : j <= k})
    IN [n \in 1..Cardinality(keep) |-> entries[CHOOSE k \in keep : Place(k) = n]]

\* The positions of the entries that are not on the screen.
Unknown(entries) == {k \in DOMAIN entries : entries[k].id \notin Known(reader.shown)}

\* loadFirstPage: everything is replaced.
LandFirst ==
    /\ page.kind = "first"
    /\ reader' = [reader EXCEPT !.shown = page.entries, !.cursor = page.next, !.exhausted = FALSE,
                                !.loaded = TRUE, !.query = page.query, !.since = page.since]
    /\ page' = NoPage /\ forwarded' = NoRequest /\ UNCHANGED <<label, log>>

LandOlderAll ==                                                   \* mutant: trusts the cursor
    /\ page.kind = "older"
    /\ reader' = [reader EXCEPT !.shown = @ \o page.entries, !.cursor = page.next,
                                !.exhausted = page.next = NoCursor]
    /\ page' = NoPage /\ forwarded' = NoRequest /\ UNCHANGED <<label, log>>

\* loadOlder: what is not known yet goes below.
LandOlder ==
    /\ page.kind = "older"
    /\ reader' = [reader EXCEPT !.shown = @ \o Kept(page.entries, Unknown(page.entries)),
                                !.cursor = page.next, !.exhausted = page.next = NoCursor]
    /\ page' = NoPage /\ forwarded' = NoRequest /\ UNCHANGED <<label, log>>

\* refreshLive: what is not older than the top and not known goes above; the cursor is
\* adopted only by a reader who has none and has not come to the end.  One log source is
\* modelled: the reset on a change of source is left out.
LandLive ==
    LET shown == reader.shown
        fresh == IF shown = <<>> THEN page.entries
                 ELSE Kept(page.entries, {k \in Unknown(page.entries) :
                                            page.entries[k].ms >= shown[1].ms})
    IN /\ page.kind = "live"
       /\ reader' = [reader EXCEPT !.shown = fresh \o @,
                         !.cursor = IF @ = NoCursor /\ ~reader.exhausted THEN page.next ELSE @]
       /\ page' = NoPage /\ forwarded' = NoRequest /\ UNCHANGED <<label, log>>

Landing == LandFirst \/ LandOlder \/ LandLive

Answered == /\ page = NoPage /\ forwarded # NoRequest
            /\ forwarded' = NoRequest /\ UNCHANGED <<label, log, reader, page>>

\* What a client of the gateway's socket might send: the collector's requests, and each of
\* them with one thing changed.
Probes ==
    LET usual == ListRequests(label) \cup {LogsRequest("web", 0)}
        Changed(r) == {[r EXCEPT !.method = "POST"], [r EXCEPT !.originForm = FALSE],
                       [r EXCEPT !.framing = TRUE], [r EXCEPT !.body = TRUE],
                       [r EXCEPT !.plain = FALSE], [r EXCEPT !.path = "exec"],
                       [r EXCEPT !.label = NoLabel], [r EXCEPT !.name = "-odd"],
                       [r EXCEPT !.tail = LogTail + 1]}
    IN usual \cup UNION {Changed(r) : r \in usual}

ReadsNext == \/ \E ms \in 1..MaxMillis, text \in LineTexts : Append1(ms, text)
        \/ \E query \in BOOLEAN : AskFirst(query)
        \/ AskOlder \/ AskLive \/ Landing
        \/ (\E r \in Probes : SendRequest(r)) \/ Answered

ReadsSpec == ReadsInit /\ [][ReadsNext]_readsVars

-----------------------------------------------------------------------------
(* Properties *)

\* Pages hold at most the limit, a cursor is of a line of the log, and a request names a
\* second that the clamp allows (logs.rs, log_until_seconds).
ReadsTypeOK ==
    /\ label \in LabelTexts
    /\ log \in Seq([ms : 1..MaxMillis, text : LineTexts]) /\ Len(log) <= MaxLines
    /\ \A k \in DOMAIN reader.shown : reader.shown[k].line \in DOMAIN log
    /\ reader.cursor = NoCursor \/ reader.cursor.offset \in 1..Len(log)
    /\ page # NoPage => Len(page.entries) <= PageSize
    /\ forwarded # NoRequest => forwarded.until <= MaxUntil

Wanted(i) == log[i].text = "hit" \/ (log[i].text = "miss" /\ ~reader.query)

ShownLines == {reader.shown[k].line : k \in DOMAIN reader.shown}

\* A reader who has come to the end has seen every line that was there when it started, lines
\* of one millisecond or one second on two pages included, however the log grew in between
\* (log_until_seconds, page_log_entries' offset).  As long as the window holds the log.
NothingLost ==
    (reader.loaded /\ reader.cursor = NoCursor /\ Len(log) <= LogTail)
        => \A i \in 1..reader.since : Wanted(i) => i \in ShownLines

\* No line is on the screen twice and no two lines share an id, over first, older and live
\* pages (log_entry_id's ordinals, the screens' merge by id).  As long as the window holds the
\* log: an id counts the entries of its millisecond within the window, so the same line gets
\* another id once the window has slid past one of them, and a live page shows it again.
ShownOnce ==
    Len(log) <= LogTail =>
        \A j, k \in DOMAIN reader.shown :
            j # k => /\ reader.shown[j].line # reader.shown[k].line
                     /\ reader.shown[j].id # reader.shown[k].id

\* A gateway and a collector configured with the same text agree on what may be asked: the
\* collector's requests are served, padded and empty labels included, and Docker only ever gets
\* plain bodiless GETs like them, with the configured filter on a list and the fixed tail on a
\* log (parse_docker_label_filter, Policy::new, Policy::allow, handle).
GatewayAgrees ==
    /\ ~reader.failed
    /\ \A r \in ListRequests(label) : Handle(label, r, TRUE) = "forwarded"
    /\ LET r == forwarded
       IN  r = NoRequest \/
           /\ r.method = "GET" /\ r.originForm /\ r.plain /\ ~r.framing /\ ~r.body
           /\ \/ r.path \in InventoryPaths /\ r.label = TrimmedLabel[label]
              \/ r.path = "logs" /\ r.tail = LogTail /\ r.name = "web"
=============================================================================
