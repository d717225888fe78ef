------------------------------- MODULE Script -------------------------------
(***************************************************************************)
(* The script of layout.html, with which the fragments that answer a       *)
(* toggle bring a page that is already displayed up to date: the new       *)
(* statistics replace the old ones, the row is removed wherever it is and  *)
(* inserted, at the end if the row it belongs before is not there.         *)
(***************************************************************************)
EXTENDS Dashboard, SequencesExt

Without(rows, i, due) ==
  IF Places(rows, i, due) = {} THEN rows ELSE RemoveAt(rows, FirstPlace(rows, i, due))

Inserted(rows, row, before) ==
  InsertAt(rows, IF before = NULL \/ Places(rows, before.task, before.due) = {}
                 THEN Len(rows) + 1 ELSE FirstPlace(rows, before.task, before.due), row)

PatchToday(page, fragment, i, due) ==
  LET rest == [page EXCEPT !.pending = Without(@, i, due), !.done = Without(@, i, due)]
  IN  CASE fragment = NULL -> rest
        [] fragment # NULL /\ fragment.list = "pending" ->
             [rest EXCEPT !.pending = Inserted(@, fragment.row, fragment.before)]
        [] fragment # NULL /\ fragment.list = "done" ->
             [rest EXCEPT !.done = Inserted(@, fragment.row, fragment.before)]

PatchMissed(page, row, i, due) ==
  [page EXCEPT !.missed[due] =
     IF row = NULL THEN Without(@, i, due)
     ELSE ReplaceAt(@, FirstPlace(@, i, due), row)]

\* The page after the toggle of a row it displays; inner was built since.
Patched(page, inner, i, due) ==
  LET toggled == IF due = today
                 THEN PatchToday(page, renderTodayToggleFragments(inner, i, due), i, due)
                 ELSE PatchMissed(page, renderMissedFragment(inner, i, due), i, due)
  IN  [toggled EXCEPT !.stats = inner.stats]

\* The rows of a page that have a button.
Buttons(page) ==
  LET rowsOf(rows) == {rows[n] : n \in DOMAIN rows}
  IN  {r \in rowsOf(page.pending) \cup rowsOf(page.done)
               \cup UNION {rowsOf(page.missed[d]) : d \in DOMAIN page.missed} :
         r.status # "exempt"}
=============================================================================
