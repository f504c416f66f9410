-------------------------------- MODULE MCBoard --------------------------------
(* An instance of Board for TLC.  Each menu is what the clients of one kind *)
(* of behaviour ask for; the tables are shared by all of them.             *)
EXTENDS Board, TLC

CONSTANTS s1, s2, ann, root, bot, p1, p2, g1, x1, x2, c1, c2, c3, o1, o2, b1,
          f1, f2, t1, t2, k1, k2, text1, text2

Menu(ops, ids) == [ops |-> ops, ids |-> ids \cup {text1}]

MCMenus ==
    {Menu({"create_problem", "transition_status", "claim_problem"}, {ann, root, p1}),
     Menu({"create_problem", "pin_problem"}, {root, p1, p2}),
     Menu({"create_problem", "set_watch", "remove_watch", "transition_status"}, {ann, root, p1}),
     Menu({"create_problem", "toggle_upstar", "remove_watch", "delete_problem"},
          {ann, root, p1}),
     Menu({"create_problem", "update_problem", "create_edit_suggestion",
           "accept_edit_suggestion", "reject_edit_suggestion"}, {ann, root, p1, g1, text2}),
     Menu({"create_problem", "create_solution", "create_version", "toggle_upvote"},
          {ann, root, p1, x1}),
     Menu({"create_problem", "create_solution", "update_solution_status", "delete_solution"},
          {root, p1, x1, x2}),
     Menu({"create_problem", "create_solution", "create_comment", "edit_comment",
           "delete_comment"}, {root, p1, x1, c1, c2, c3}),
     Menu({"create_post", "toggle_vote"}, {ann, root, bot, o1}),
     Menu({"create_bounty", "claim", "unclaim", "award", "withdraw"}, {ann, root, bot, b1}),
     Menu({"create_problem", "remove_watch", "delete_problem", "create_bounty"},
          {root, p1, b1}),
     Menu({"create_attachment", "delete_attachment"}, {ann, root, f1, f2}),
     Menu({"create_problem", "rename_tag", "delete_tag", "merge_tags"},
          {root, p1, t1, t2}),
     Menu({"create_problem", "create_category", "update_category", "reorder_categories",
           "soft_delete_category"}, {root, p1, k1, k2})}

Symmetry == Permutations({s1, s2})
=============================================================================
