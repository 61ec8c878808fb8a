------------------------------ MODULE MCDbActor ------------------------------
(* DbActor over one file with a class and its method.                      *)
EXTENDS DbActor

MethodInClass == [class |-> NoParent, method |-> "class"]
=============================================================================
