------------------------------ MODULE MCChnNet -------------------------------
(***************************************************************************)
(* An instance of ChnNet: an answer that fits the buffer and one that does *)
(* not, with a number in its body. Since servers hang up when they like,   *)
(* answers without a body, an end of their first line, or anything at all  *)
(* are among them.                                                         *)
(***************************************************************************)
EXTENDS ChnNet

Line == <<"version", "digit", "nl">>
MCReplies == {Line \o <<"blank", "body">>, Line \o <<"header", "blank", "digit", "body">>}
=============================================================================
