------------------------------- MODULE MCLeases -------------------------------
(* Jobs of one image file, captured in several versions: one document. *)
EXTENDS ResourceLeases

MCSourceClass == [j \in Jobs |-> "media_ocr"]

MCDocument == [j \in Jobs |-> 1]
=============================================================================
