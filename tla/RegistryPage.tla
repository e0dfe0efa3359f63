------------------------------ MODULE RegistryPage -----------------------------
(***************************************************************************)
(* The registry page: the live board and the static coverage entries, put  *)
(* together for the params of an address (dashboard/app/registry/page.tsx, *)
(* app/lib/registry-query.ts, app/lib/coverage.ts), and the pages its rows *)
(* lead to (app/protocol/[id]/page.tsx, app/coverage/[id]/page.tsx).  Each *)
(* request renders what it fetched; protocols are registered and scored in *)
(* between.                                                                *)
(*                                                                         *)
(* An id is its entry's alphabetical place.  A query is the set of ids it  *)
(* matches, which is all that folding names comes to.                      *)
(***************************************************************************)
EXTENDS Sorting, SequencesExt

CONSTANTS
    Ids,
    Categories,     \* category names, in alphabetical order
    CategoryOf,     \* the category of each protocol's adapter
    StatusOrder,    \* COVERAGE_STATUS_ORDER
    Notes,          \* COVERAGE: a status for each id it has an entry for
    Grades,         \* safety scores
    Queries         \* what may be searched for; Ids is the empty query

ASSUME RegistryAssumption ==
    /\ Ids \subseteq Nat /\ IsFiniteSet(Ids)
    /\ DOMAIN Notes \subseteq Ids
    /\ \A id \in DOMAIN Notes : \E i \in DOMAIN StatusOrder : StatusOrder[i] = Notes[id]
    /\ {Categories, StatusOrder} \subseteq Seq(STRING)
    /\ \A list \in {Categories, StatusOrder} : \A i, j \in DOMAIN list :
          list[i] = list[j] => i = j
    /\ CategoryOf \in [Ids -> {Categories[i] : i \in DOMAIN Categories}]
    /\ Grades \subseteq Nat
    /\ Queries \subseteq SUBSET Ids /\ Ids \in Queries

VARIABLES
    board,      \* the registered protocols: category and score
    view,       \* the registry page on screen, if it is
    opened      \* the page of one entry on screen, if it is

registryVars == <<board, view, opened>>

Unscored == -1
NoView == [rows |-> <<>>]
NoPage == [shows |-> "nothing"]

CategorySet == {Categories[i] : i \in DOMAIN Categories}
StatusSet == {StatusOrder[i] : i \in DOMAIN StatusOrder}
Sorts == {"score-desc", "score-asc", "name"}

\* What an address may hold: the values the controls offer, and stale ones.
RawAddresses == [q : Queries, status : {"all", "scored", "not-scored", "stale"} \cup StatusSet,
                 category : {"all", "stale"} \cup CategorySet, sort : Sorts \cup {"stale"}]

RegistryInit == board = <<>> /\ view = NoView /\ opened = NoPage

--------------------------------------------------------------------------------

ByName(ids) == {r \in ids \X ids : r[1] < r[2]}

\* Mutant of CoverageToPublish: as the file itself believes.
CoverageToPublishAll(ids) == DOMAIN Notes

\* The notes about what the fetched board does not hold.
CoverageToPublish(ids) == DOMAIN Notes \ ids

\* parseRegistryParams: only what is present in the data can be selected.
ParseParams(raw, published, fetched) ==
    LET statuses   == {"all", "scored", "not-scored"} \cup {Notes[id] : id \in published}
        categories == {fetched[id].category : id \in DOMAIN fetched}
    IN  [q        |-> raw.q,
         status   |-> IF raw.status \in statuses THEN raw.status ELSE "all",
         category |-> IF raw.category \in categories THEN raw.category ELSE "all",
         sort     |-> IF raw.sort \in Sorts THEN raw.sort ELSE "score-desc"]

\* The comparison of sortRanked: ties break by name in either direction.
RankedBefore(ids, fetched, sort) ==
    LET score(r, n) == fetched[r[n]].score
        higher == {r \in ids \X ids : score(r, 1) > score(r, 2)}
        lower  == {r \in ids \X ids : score(r, 1) < score(r, 2)}
        tied   == {r \in ByName(ids) : score(r, 1) = score(r, 2)}
    IN  CASE sort = "name" -> ByName(ids)
          [] sort = "score-asc" -> lower \cup tied
          [] sort = "score-desc" -> higher \cup tied

SortRanked(ids, fetched, sort) == InOrder(ids, RankedBefore(ids, fetched, sort))

\* Mutant of RankedGroups: one sequence.
RankedGroupsFlat(ids, fetched, sort) ==
    IF ids = {} THEN <<>> ELSE <<SortRanked(ids, fetched, sort)>>

\* Categories that have a member, each ordered on its own.
RankedGroups(ids, fetched, sort) ==
    LET inCategory(c) == {id \in ids : fetched[id].category = c}
        held == Filtered(Categories, {i \in DOMAIN Categories : inCategory(Categories[i]) # {}})
    IN  [i \in DOMAIN held |-> SortRanked(inCategory(held[i]), fetched, sort)]

GroupCoverage(ids) ==
    LET under(s) == {id \in ids : Notes[id] = s}
        held == Filtered(StatusOrder, {i \in DOMAIN StatusOrder : under(StatusOrder[i]) # {}})
    IN  [i \in DOMAIN held |-> InOrder(under(held[i]), ByName(under(held[i])))]

\* What params select of the board and of the published notes.
MatchedProtocols(params, fetched) ==
    {id \in DOMAIN fetched : /\ params.status \in {"all", "scored"}
                             /\ id \in params.q
                             /\ params.category \in {"all", fetched[id].category}}
MatchedCoverage(params, published) ==
    {id \in published : /\ params.status # "scored" /\ params.category = "all"
                        /\ id \in params.q
                        /\ params.status \in {"all", "not-scored", Notes[id]}}

\* buildRegistryView.
BuildRegistryView(params, fetched, published) ==
    LET matched == MatchedProtocols(params, fetched)
        ranked  == {id \in matched : fetched[id].score # Unscored}
    IN  [sort     |-> params.sort,
         groups   |-> RankedGroups(ranked, fetched, params.sort),
         pending  |-> InOrder(matched \ ranked, ByName(matched \ ranked)),
         coverage |-> MatchedCoverage(params, published)]

\* ProtocolRow and CoverageRow, as far as they tell what an entry is.
ProtocolRow(id, rank) == [id |-> id, kind |-> "scored", rank |-> rank]
CoverageRow(id) == [id |-> id, kind |-> "coverage", rank |-> 0]

\* A category's block: numerals only where they run from the best score down.
RankedBlock(ids, sort) ==
    [i \in DOMAIN ids |-> ProtocolRow(ids[i], IF sort = "score-desc" THEN i ELSE 0)]

PendingBlock(ids) == [i \in DOMAIN ids |-> ProtocolRow(ids[i], 0)]

CoverageSection(ids) ==
    LET listed == FlattenSeq(GroupCoverage(ids))
    IN  [i \in DOMAIN listed |-> CoverageRow(listed[i])]

\* RankedView: the blocks one under the other.
RankedView(v) ==
    FlattenSeq([i \in DOMAIN v.groups |-> RankedBlock(v.groups[i], v.sort)])
        \o PendingBlock(v.pending) \o CoverageSection(v.coverage)

\* view.merged and AlphabeticalList: one list of all of them, without numerals.
AlphabeticalList(v) ==
    LET notes == InOrder(v.coverage, ByName(v.coverage))
        merged == PendingBlock(FlattenSeq(v.groups) \o v.pending)
                      \o [i \in DOMAIN notes |-> CoverageRow(notes[i])]
    IN  Sorted(merged, [i \in DOMAIN merged |-> merged[i].id])

Rows(v) == IF v.sort = "name" THEN AlphabeticalList(v) ELSE RankedView(v)

--------------------------------------------------------------------------------

\* A request: getProtocols answers with the board, or fails and leaves nothing.
Visit(raw, answered) ==
    /\ view = NoView /\ opened = NoPage
    /\ LET fetched   == IF answered THEN board ELSE <<>>
           published == CoverageToPublish(DOMAIN fetched)
           params    == ParseParams(raw, published, fetched)
       IN  view' = [rows    |-> Rows(BuildRegistryView(params, fetched, published)),
                    params  |-> params,
                    fetched |-> fetched]
    /\ UNCHANGED <<board, opened>>

\* ProtocolDetailPage: getProtocolDetail throws, finds the entry, or is a 404.
ProtocolDetailPage(id, answered) ==
    IF ~answered THEN "error" ELSE IF id \in DOMAIN board THEN "detail" ELSE "not found"

\* CoveragePage: a note gives way to the entry that its own read of the board lists; a
\* read that fails lists none.
CoveragePage(id, answered) ==
    IF id \notin DOMAIN Notes THEN "not found"
    ELSE IF answered /\ id \in DOMAIN board THEN "redirect" ELSE "note"

\* A row of the page on screen is followed to where it links.
Follow(row, answered) ==
    /\ view # NoView
    /\ row \in {view.rows[i] : i \in DOMAIN view.rows}
    /\ opened' = [id |-> row.id, row |-> row.kind, answered |-> answered,
                shows |-> IF row.kind = "scored" THEN ProtocolDetailPage(row.id, answered)
                          ELSE CoveragePage(row.id, answered)]
    /\ view' = NoView
    /\ UNCHANGED board

\* The browser follows the redirect with a request of its own.
Redirected(answered) ==
    /\ opened.shows = "redirect"
    /\ opened' = [opened EXCEPT !.shows = ProtocolDetailPage(opened.id, answered),
                               !.answered = answered]
    /\ UNCHANGED <<board, view>>

LeavePage ==
    /\ view # NoView \/ opened.shows \notin {"nothing", "redirect"}
    /\ view' = NoView /\ opened' = NoPage
    /\ UNCHANGED board

\* The indexer upserts a protocol, or records a good run of one.
BoardGains(id) ==
    /\ id \notin DOMAIN board
    /\ board' = [other \in DOMAIN board \cup {id} |->
                    IF other = id THEN [category |-> CategoryOf[id], score |-> Unscored]
                    ELSE board[other]]
    /\ UNCHANGED <<view, opened>>

BoardScores(id, score) ==
    /\ id \in DOMAIN board
    /\ board' = [board EXCEPT ![id].score = score]
    /\ UNCHANGED <<view, opened>>

RegistryNext ==
    \/ \E raw \in RawAddresses, answered \in BOOLEAN : Visit(raw, answered)
    \/ \E id \in Ids, kind \in {"scored", "coverage"}, rank \in 0 .. Cardinality(Ids),
          answered \in BOOLEAN :
          Follow([id |-> id, kind |-> kind, rank |-> rank], answered)
    \/ \E answered \in BOOLEAN : Redirected(answered)
    \/ LeavePage
    \/ \E id \in Ids : BoardGains(id)
    \/ \E id \in Ids, score \in Grades : BoardScores(id, score)

--------------------------------------------------------------------------------

\* Each entry that the params select is listed once, as scored or as not scored.
ListedOnce ==
    view # NoView =>
        LET params == view.params  fetched == view.fetched
            listed == {view.rows[i].id : i \in DOMAIN view.rows}
        IN  /\ Len(view.rows) = Cardinality(listed)
            /\ params.status = "all" /\ params.category = "all"
                    => listed = (DOMAIN fetched \cup DOMAIN Notes) \cap params.q
            /\ \A i \in DOMAIN view.rows :
                  (view.rows[i].kind = "scored") = (view.rows[i].id \in DOMAIN fetched)

\* A row leads to its entry: to the score if it was listed as scored, and from a note to
\* the score that has replaced it meanwhile; a page that cannot read the board never says
\* that there is no such entry.
RowsLead ==
    opened # NoPage =>
        /\ opened.shows # "not found"
        /\ opened.row = "scored" /\ opened.answered => opened.shows = "detail"

\* No layout loses or repeats an entry: whatever blocks it is split into, the page lists
\* each entry its params select once, as scored or as not scored and never as both
\* (coverage.ts:516-534, registry-query.ts:397-463); with no filter that is all of them.
\* The row then leads to that entry, however long the page was left open
\* (coverage/[id]/page.tsx:66-82).
EveryEntryOnce == ListedOnce /\ RowsLead

\* A numeral is a place among the listed entries of its own category, the highest score
\* first: only scored entries have one, and each category counts from 1 whatever else the
\* page lists (registry-query.ts:296-309, 374-384).
RanksMeanScores ==
    view # NoView /\ view.params.sort = "score-desc" =>
        LET scored == {i \in DOMAIN view.rows :
                          /\ view.rows[i].kind = "scored"
                          /\ view.fetched[view.rows[i].id].score # Unscored}
            entry(i) == view.fetched[view.rows[i].id]
            better(i) == {j \in scored : /\ entry(j).category = entry(i).category
                                         /\ entry(j).score > entry(i).score}
            same(i) == {j \in scored : entry(j).category = entry(i).category}
        IN  /\ \A i \in DOMAIN view.rows : view.rows[i].rank # 0 <=> i \in scored
            /\ \A i \in scored :
                  /\ {view.rows[j].rank : j \in same(i)} = 1 .. Cardinality(same(i))
                  /\ \A j \in better(i) : view.rows[j].rank < view.rows[i].rank
================================================================================
