------------------------------ MODULE MCWorkspace ------------------------------
(* An instance of Workspace for TLC.  Each menu is what the clients of one     *)
(* kind of behaviour ask for; "address" is the first administrator's.          *)
EXTENDS Workspace, TLC

CONSTANTS s1, s2, ann, kim, root, bot, p1, p2, x1, x2, t1, t2, c1, l1, f1, k1, m1, m2,
          e1, e2, base, keyA, keyB

Menu(ops, ids) == [ops |-> ops, ids |-> ids \cup {root}, admin |-> root, address |-> e1]

MCMenus ==
    {Menu({"create_project", "create_ticket", "delete_ticket", "delete_project"}, {p1, p2, t1, t2}),
     Menu({"create_project", "update_project", "archive_project", "provision_user"},
          {p1, ann}),
     Menu({"create_project", "add_member", "update_member_role", "remove_member",
           "delete_project", "create_lesson"}, {p1, k1}),
     Menu({"create_project", "create_component", "update_component", "delete_component",
           "create_ticket", "delete_project"}, {p1, c1, t1}),
     Menu({"create_project", "create_sprint", "start_sprint", "close_sprint",
           "delete_sprint"}, {p1, x1, x2}),
     Menu({"create_project", "create_sprint", "start_sprint", "close_sprint", "delete_sprint",
           "create_ticket", "add_ticket", "remove_ticket", "transition"}, {p1, x1, t1}),
     Menu({"create_project", "create_ticket", "link", "delete_ticket"}, {p1, t1, t2}),
     Menu({"create_project", "create_ticket", "add_watcher", "remove_watcher", "delete_ticket"},
          {p1, t1, bot}),
     Menu({"create_project", "create_ticket", "upload_attachment",
           "delete_ticket_attachment", "delete_ticket"}, {p1, t1, f1}),
     Menu({"send_magic_link", "verify_magic_link", "expire", "provision_user"},
          {m1, m2, ann, kim}),
     Menu({"provision_user", "update_handle", "update_user_role", "update_user_status"}, {ann}),
     Menu({"create_account", "revoke", "update_handle", "add_comment",
           "emit_body_mentions"}, {bot, l1})}

MCBaseOf == [x \in {e1, e2, bot} |-> base]

Symmetry == Permutations({s1, s2})
=============================================================================
