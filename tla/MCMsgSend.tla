----------------------------- MODULE MCMsgSend -----------------------------
(* Model-checking instance of MsgSend: three messages of one or two mbufs, *)
(* spec scenario 4 scaled down.                                             *)
EXTENDS MsgSend

SendOut == << << <<"a", "b">>, <<"c">> >>,
              << <<"d">> >>,
              << <<"e", "f">>, <<"g">> >> >>
\* A one-byte message, then a message with mlen 0 in a single empty mbuf.
SendOutEmpty == << << <<"a">> >>, << << >> >> >>
=============================================================================
