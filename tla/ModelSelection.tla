--------------------------- MODULE ModelSelection ---------------------------
(***************************************************************************)
(* The choice of a channel's models (src/internal/logic/channel/models.go):*)
(* which rows of channel_models a submitted list of mappings leaves.  The  *)
(* rows are read once, in the order of their ids, inside the transaction   *)
(* that writes them; a mapping keeps its row, or takes over a row of its   *)
(* upstream model, so that tests and health scores are not lost.           *)
(*                                                                         *)
(* A row is [upstream, public, enabled, window]; a submitted item is       *)
(* [upstream, public, window], where public holds the comma separated      *)
(* pieces and window is Unset when the field is missing.                   *)
(***************************************************************************)
EXTENDS Integers, Sequences, FiniteSets, SequencesExt

CONSTANTS
    Unset,       \* the closing windows were not submitted
    Cleared,     \* no closing window
    MaxModels    \* how many mappings a channel may have

Refused == <<Unset>>

\* Empty and repeated pieces are dropped, the order stays.
SplitPublicModelNames(pieces) ==
    FoldLeft(LAMBDA names, piece : IF piece = "" \/ piece \in Range(names) THEN names
                                   ELSE Append(names, piece), << >>, pieces)

ResolvePublicModelNames(item) ==
    LET names == SplitPublicModelNames(item.public)
    IN  IF names = << >> THEN <<item.upstream>> ELSE names

\* One mapping for each public name of an item.
Mappings(item) ==
    LET names == ResolvePublicModelNames(item)
    IN  [i \in DOMAIN names |-> <<item.upstream, names[i]>>]

\* Items without an upstream model are skipped; a mapping given twice is refused.
NormalizeModelMappings(items) ==
    LET named == SelectSeq(items, LAMBDA item : item.upstream # "")
        all == FoldLeft(LAMBDA done, item : done \o Mappings(item), << >>, named)
    IN  IF Len(all) > MaxModels \/ ~IsInjective(all) THEN Refused ELSE all

\* The windows of the mappings that came with the field, the first item first.
NormalizeModelClosedWindows(items) ==
    LET with == SelectSeq(items, LAMBDA item : item.upstream # "" /\ item.window # Unset)
        Of(mapping) == {i \in DOMAIN with : mapping \in Range(Mappings(with[i]))}
    IN  [mapping \in UNION {Range(Mappings(with[i])) : i \in DOMAIN with} |->
            with[CHOOSE i \in Of(mapping) : \A j \in Of(mapping) : i <= j].window]

KeyOf(row) == <<row.upstream, row.public>>

\* The row a mapping goes to: its own, whoever has taken it since, else the first one of
\* its upstream model that nobody has taken, else 0.
RowFor(existing, used, mapping) ==
    LET own == {i \in DOMAIN existing : KeyOf(existing[i]) = mapping}
        free == {i \in DOMAIN existing \ used : existing[i].upstream = mapping[1]}
    IN  CASE own # {}               -> CHOOSE i \in own : \A j \in own : j <= i
          [] own = {} /\ free # {}  -> CHOOSE i \in free : \A j \in free : i <= j
          [] OTHER                  -> 0

\* A row is written if it was read with another name, disabled, or with other windows.
SaveMapping(existing, windows, done, mapping) ==
    LET i == RowFor(existing, done.used, mapping)
        submitted == mapping \in DOMAIN windows
        fresh == [upstream |-> mapping[1], public |-> mapping[2], enabled |-> TRUE,
                  window |-> IF submitted THEN windows[mapping] ELSE Cleared]
        moved == submitted /\ existing[i].window # windows[mapping]
        changed == [done.rows[i] EXCEPT !.public = mapping[2], !.enabled = TRUE,
                                        !.window = IF moved THEN windows[mapping] ELSE @]
    IN  CASE i = 0 -> [done EXCEPT !.rows = Append(@, fresh)]
          [] i # 0 /\ (~existing[i].enabled \/ existing[i].public # mapping[2] \/ moved) ->
                [rows |-> [done.rows EXCEPT ![i] = changed], used |-> done.used \cup {i}]
          [] OTHER -> [done EXCEPT !.used = @ \cup {i}]

\* Afterwards the rows that no mapping has taken are disabled.
SelectModels(existing, items) ==
    LET mappings == NormalizeModelMappings(items)
        windows == NormalizeModelClosedWindows(items)
        done == FoldLeft(LAMBDA d, mapping : SaveMapping(existing, windows, d, mapping),
                         [rows |-> existing, used |-> {}], mappings)
    IN  IF mappings = Refused THEN existing
        ELSE [i \in DOMAIN done.rows |->
                IF i \in DOMAIN existing \ done.used /\ existing[i].enabled
                THEN [done.rows[i] EXCEPT !.enabled = FALSE] ELSE done.rows[i]]

Enabled(rows) == {KeyOf(rows[i]) : i \in {j \in DOMAIN rows : rows[j].enabled}}

\* No mapping that has a row comes after a new one of the same upstream model, which
\* would have taken that row over.
KeepsRows(existing, mappings) ==
    LET there == {KeyOf(existing[i]) : i \in DOMAIN existing}
    IN  \A i, j \in DOMAIN mappings :
            i < j /\ mappings[i][1] = mappings[j][1] /\ mappings[j] \in there => mappings[i] \in there
=============================================================================
