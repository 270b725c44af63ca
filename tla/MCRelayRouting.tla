--------------------------- MODULE MCRelayRouting ---------------------------
(* Two channels: one of the key's user that closes on Monday night, one of  *)
(* another user that is shared through a group.                             *)
EXTENDS RelayRouting, ModelSelection, TLC

CONSTANTS r1, r2, c1, c2, g1, alice, bob

MCRank == c1 :> 2 @@ c2 :> 1
MCPublicName == c1 :> "large" @@ c2 :> "large"
MCTalk == [r \in RoutedRequests |-> [session |-> "s", user |-> "", first |-> "hello"]]
MCOwner == c1 :> alice @@ c2 :> bob
MCWindow == c1 :> {[weekdays |-> {1}, ranges |-> {<<1, 0>>}], [weekdays |-> {}, ranges |-> {}]}
            @@ c2 :> {}
MCWrites == {<<c1, [on |-> FALSE, keys |-> TRUE, groups |-> {g1}]>>,
             <<c1, [on |-> TRUE, keys |-> FALSE, groups |-> {g1}]>>,
             <<c2, [on |-> TRUE, keys |-> TRUE, groups |-> {}]>>}
Symmetry == Permutations(RoutedRequests)

\* relay/routing.go:98: the lottery among candidates of one priority leaves every one of
\* them a chance and never draws one more often for a worse score.
ASSUME EveryCandidateIsDrawn ==
    \A weight \in 0 .. 4, score \in -1 .. 9, threshold \in 1 .. 8 :
        LET drawn == CandidateWeight(weight, score, threshold)
        IN drawn \in 1 .. (IF weight < 1 THEN 1 ELSE weight)
           /\ drawn <= CandidateWeight(weight, score + 1, threshold)

MCRow(public, enabled, window) ==
    [upstream |-> "a", public |-> public, enabled |-> enabled, window |-> window]
MCTables == {<< >>} \cup {<<MCRow(x, e, "w")>> : x \in {"a", "b"}, e \in BOOLEAN}
            \cup {<<MCRow("a", e, Cleared), MCRow("b", f, "w")>> : e, f \in BOOLEAN}
MCItem(upstream, public, window) == [upstream |-> upstream, public |-> public, window |-> window]
MCItems == {MCItem("a", names, w) : names \in {<<"">>, <<"b", "", "c">>, <<"a", "b", "a">>, <<"c", "d">>},
                                    w \in {Unset, "w", "v"}}
           \cup {MCItem("", <<"a">>, "w"), MCItem("z", <<"b">>, Cleared)}

\* channel/models.go:19: after a selection is saved the enabled rows of the channel are
\* the mappings that were submitted, each with its windows, the submitted ones or those
\* its row had, and no row is lost; as long as no new mapping takes the row of
\* a later one over.
ASSUME SelectionIsSaved ==
    \A existing \in MCTables, first, second \in MCItems :
        LET items == <<first, second>>
            mappings == NormalizeModelMappings(items)
            windows == NormalizeModelClosedWindows(items)
            after == SelectModels(existing, items)
        IN  mappings # Refused /\ KeepsRows(existing, mappings) =>
              /\ Enabled(after) = Range(mappings)
              /\ Len(after) >= Len(existing)
              /\ \A i \in DOMAIN after : after[i].enabled =>
                    after[i].window = IF KeyOf(after[i]) \in DOMAIN windows THEN windows[KeyOf(after[i])]
                                      ELSE IF i \in DOMAIN existing THEN existing[i].window ELSE Cleared
=============================================================================
