-------------------------- MODULE MCApprovalSystem --------------------------
(* Instances of ApprovalSystem for TLC.                                    *)
EXTENDS ApprovalSystem

File(path) == [path |-> path, diff |-> TRUE, new_content |-> TRUE]
Change(files, plans) ==
    [branch |-> "feature", files |-> files, test_plan |-> plans,
     rollback_plan |-> plans]

(* Harmless files, risky files with plans and without them, in an order    *)
(* that tempts the loop to forget the risk, and requests to be blocked.    *)
MCPayloads ==
    {Change(<<File("low"), File("other")>>, FALSE),
     Change(<<File("critical"), File("low")>>, TRUE),
     Change(<<File("high"), File("other")>>, FALSE),
     Change(<<File("low"), File("blocked")>>, TRUE),
     Change(<< >>, TRUE),
     Change(<<[File("other") EXCEPT !.diff = FALSE]>>, TRUE),
     [Change(<<File("low")>>, TRUE) EXCEPT !.branch = "protected"],
     Change(<<[File("other") EXCEPT !.new_content = FALSE]>>, TRUE)}
(* The names of server and tool may make the path a blocked one; no step   *)
(* of the runner or of the gateway depends on the class.                   *)
MCToolCalls == {Change(<<File("blocked")>>, TRUE)}
=============================================================================
