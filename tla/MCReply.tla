------------------------------- MODULE MCReply -------------------------------
(* Reply with shorter tags of the shape of <think> and </think>: they share *)
(* their first character and their last, and neither overlaps itself.      *)
EXTENDS Reply

MCChars == {"<", "/", "t"}
MCOpenTag == <<"<", "t", "t">>
MCCloseTag == <<"<", "/", "t", "t">>
=============================================================================
