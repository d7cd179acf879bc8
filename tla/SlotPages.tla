----------------------------- MODULE SlotPages -------------------------------
(***************************************************************************)
(* The ranking of the charts in the best slots of a rating band, read page *)
(* by page.  A page is made of three statements without a transaction: the *)
(* number of players, the statistics of the band, and the charts of live   *)
(* songs.  The server keeps nothing between pages: the cursor carries the  *)
(* place of the last chart shown, and is checked when it comes back.       *)
(* Meanwhile a batch may publish new statistics, and songs are deleted and *)
(* restored.                                                               *)
(*                                                                         *)
(* Left out: titles and constants, the mean score, and the other bands,    *)
(* whose cursors are refused by their label.                               *)
(***************************************************************************)
EXTENDS Integers, Sequences, FiniteSets, SequencesExt

CONSTANTS
  SlotChart,   \* charts: [song |-> number of the song's display id, level |-> difficulty]
  Players,     \* numbers of players in the band
  PageLimit,   \* limits a client asks for
  MaxPublished, MaxShelved   \* bound the changes explored

ASSUME SlotPagesAssumption ==
  /\ SlotChart \subseteq [song : Nat, level : Nat]
  /\ Players \subseteq Nat \ {0} /\ PageLimit \subseteq Nat \ {0}
  /\ MaxPublished \in Nat /\ MaxShelved \in Nat

VARIABLES
  slots,     \* table chart_best_slot_stats_by_rating_band of the band
  hidden,    \* deleted songs
  page,      \* the page being made
  shown,     \* the items of the pages so far
  cursor,    \* next_cursor of the last page
  still,     \* charts whose row and song have not changed since the first page
  budget     \* changes left

slotPagesVars == <<slots, hidden, page, shown, cursor, still, budget>>

NoCursor == [pct |-> -1]
Songs == {c.song : c \in SlotChart}
Row(count, players) == [count |-> count, pct |-> (count * 100) \div players]

\* The rows of a publication: some of the players have the chart in a best slot.
Published ==
  UNION {{[players |-> n, rows |-> [c \in SlotChart |-> Row(counts[c], n)]] :
            counts \in [SlotChart -> 0 .. n]} : n \in Players}

Steps == {"idle", "counted", "listed", "done", "refused"}

SlotPagesTypeOK ==
  /\ slots \in Published
  /\ hidden \subseteq Songs
  /\ page.at \in Steps /\ still \subseteq SlotChart
  /\ budget.published \in 0 .. MaxPublished /\ budget.hidden \in 0 .. MaxShelved

SlotPagesInit ==
  /\ slots \in Published
  /\ hidden = {}
  /\ page = [at |-> "idle", players |-> 0, rows |-> slots.rows]
  /\ shown = <<>>
  /\ cursor = NoCursor
  /\ still = SlotChart
  /\ budget = [published |-> MaxPublished, hidden |-> MaxShelved]

-----------------------------------------------------------------------------
Item(c, row) == [song |-> c.song, level |-> c.level, count |-> row.count, pct |-> row.pct]

\* Mutants: the difficulty does not count; the item of the cursor is kept.
Comes_WithoutLevel(a, b) ==
  \/ a.pct > b.pct
  \/ a.pct = b.pct /\ a.count > b.count
  \/ a.pct = b.pct /\ a.count = b.count /\ a.song < b.song
\* compareBestSlotRankingItems
Comes(a, b) ==
  \/ a.pct > b.pct
  \/ a.pct = b.pct /\ a.count > b.count
  \/ a.pct = b.pct /\ a.count = b.count /\ a.song < b.song
  \/ a.pct = b.pct /\ a.count = b.count /\ a.song = b.song /\ a.level < b.level

\* findBestSlotRankingRows, joined with the charts of live songs.
Items(rows, gone) ==
  {Item(c, rows[c]) : c \in {x \in SlotChart : rows[x].count > 0 /\ x.song \notin gone}}

\* Every item has its rank in the whole ranking.
Ranking(items) ==
  LET order == SetToSortSeq(items, Comes)
  IN [i \in DOMAIN order |-> [rank |-> i, item |-> order[i]]]

\* compareBestSlotRankingItemToCursor: what comes after the cursor is left.
After(ranking, cur) ==
  IF cur = NoCursor THEN ranking ELSE SelectSeq(ranking, LAMBDA r : Comes(cur, r.item))

Cut(rest, limit) == IF Len(rest) > limit THEN SubSeq(rest, 1, limit) ELSE rest

\* decodeBestSlotRankingCursor
ValidCursor(cur) == cur = NoCursor \/ (cur.pct \in 0 .. 100 /\ cur.count >= 0)

-----------------------------------------------------------------------------
CountPlayers ==
  /\ page.at = "idle"
  /\ page' = IF ValidCursor(cursor)
             THEN [page EXCEPT !.at = "counted", !.players = slots.players]
             ELSE [page EXCEPT !.at = "refused"]
  /\ UNCHANGED <<slots, hidden, shown, cursor, still, budget>>

ListRows ==
  /\ page.at = "counted"
  /\ page' = [page EXCEPT !.at = "listed", !.rows = slots.rows]
  /\ UNCHANGED <<slots, hidden, shown, cursor, still, budget>>

ListCharts ==
  /\ page.at = "listed"
  /\ \E limit \in PageLimit :
       LET rest == After(Ranking(Items(page.rows, hidden)), cursor)
           cut == Cut(rest, limit)
           more == Len(rest) > limit
       IN /\ shown' = shown \o cut
          /\ cursor' = IF more THEN cut[Len(cut)].item ELSE cursor
          /\ page' = [page EXCEPT !.at = IF more THEN "idle" ELSE "done"]
  /\ UNCHANGED <<slots, hidden, still, budget>>

-----------------------------------------------------------------------------
\* The batch replaces all rows in one transaction.
Publishes ==
  /\ budget.published > 0
  /\ slots' \in Published \ {slots}
  /\ still' = {c \in still : slots'.rows[c] = slots.rows[c]}
  /\ budget' = [budget EXCEPT !.published = @ - 1]
  /\ UNCHANGED <<hidden, page, shown, cursor>>

\* A song is deleted or restored.
Hides(s) ==
  /\ budget.hidden > 0
  /\ hidden' = IF s \in hidden THEN hidden \ {s} ELSE hidden \cup {s}
  /\ still' = {c \in still : c.song # s}
  /\ budget' = [budget EXCEPT !.hidden = @ - 1]
  /\ UNCHANGED <<slots, page, shown, cursor>>

SlotPagesNext ==
  \/ CountPlayers \/ ListRows \/ ListCharts
  \/ Publishes \/ \E s \in Songs : Hides(s)

SlotPagesSpec == SlotPagesInit /\ [][SlotPagesNext]_slotPagesVars

-----------------------------------------------------------------------------
ShownAs(c) == {i \in DOMAIN shown : shown[i].item.song = c.song /\ shown[i].item.level = c.level}

\* The pages put one after the other are in order, whatever happens meanwhile: nothing is
\* shown at or before a place that has been passed.
PagesInOrder ==
  \A i, j \in DOMAIN shown : i < j => Comes(shown[i].item, shown[j].item)

\* A chart whose row and song stay as they are while the pages are read is shown exactly
\* once, if it is in a best slot, whatever happens to the others; and when nothing
\* happens the ranks count up.
PagesTellAll ==
  page.at = "done" =>
    /\ \A c \in still :
         Cardinality(ShownAs(c)) = IF slots.rows[c].count > 0 THEN 1 ELSE 0
    /\ still = SlotChart => \A i \in DOMAIN shown : shown[i].rank = i

\* A cursor that the server gave out is never refused.
PagesSound == PagesInOrder /\ PagesTellAll /\ page.at # "refused"
=============================================================================
