----------------------------- MODULE MCAiLayer -----------------------------
(* Small instances of AiLayer; the model values are in the .cfg files. *)
EXTENDS AiLayer

AllKinds == JobKinds

(* A chat request does what each of these does when its query answers it. *)
AiKinds == JobKinds \ {"chat"}
=============================================================================
