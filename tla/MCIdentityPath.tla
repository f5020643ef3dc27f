--------------------------- MODULE MCIdentityPath ---------------------------
(***************************************************************************)
(* A small instance of IdentityPath: identities of eight bits in four      *)
(* fields of two, lookup tables of three digits (so that the last one is   *)
(* cut off), thirteen views, in one of which more is proposed than the     *)
(* decoder keeps.  The generator of each seed also yields a matrix without *)
(* full rank.                                                              *)
(***************************************************************************)
EXTENDS IdentityPath

MCTurns == {<<1, 0>>, <<1, 1>>, <<2, 1>>}
MCSeeds == {"s1", "s2"}
Matrix(row0, row1) == [r \in 0..1 |-> IF r = 0 THEN row0 ELSE row1]
MCDraws ==
    [s1 |-> <<Matrix({0, 3, 6}, {1, 4, 7}), Matrix({0, 2, 5}, {3, 4, 7}),
              Matrix({1, 2, 6}, {1, 2, 6}), Matrix({1, 2, 7}, {0, 5, 6}),
              Matrix({0, 1, 4, 6}, {2, 3, 5}), Matrix({3, 5, 7}, {0, 2, 4, 6}),
              Matrix({1, 5, 6, 7}, {0, 3, 4})>>,
     s2 |-> <<Matrix({}, {1, 4, 7}), Matrix({2, 3, 4}, {0, 1, 7}),
              Matrix({1, 2, 6}, {3, 5, 6}), Matrix({1, 3, 7}, {0, 4, 6}),
              Matrix({0, 1, 4, 6}, {2, 7}), Matrix({5, 7}, {0, 1, 2}),
              Matrix({1, 2, 6, 7}, {0, 3, 5})>>]

MCOrderings == {"gray", "binary", "random"}
MCRandomOrders == {[j \in 0..3 |-> <<{1}, {}, {0, 1}, {0}>>[j + 1]]}

At(marked, here, elsewhere) == [v \in 0..12 |-> IF v \in marked THEN here ELSE elsewhere]
MCScenes ==
    {[target |-> {0, 3, 5, 6}, others |-> {{1, 2, 7}},
      faint |-> At({}, {}, {}), clutter |-> At({}, {}, {}),
      spatial |-> [target |-> "marginal", other |-> "high"]],
     [target |-> {2, 4}, others |-> {{0, 1, 2, 5}},
      faint |-> At({6, 9}, {{0, 1, 2, 5}}, {}),
      clutter |-> [At({0, 2, 4, 8, 11}, {{0}}, {{1}}) EXCEPT ![12] = {{}, {0}, {1}}],
      spatial |-> [target |-> "high", other |-> "high"]]}
=============================================================================
