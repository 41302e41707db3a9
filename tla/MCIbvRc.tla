------------------------------ MODULE MCIbvRc ------------------------------
(***************************************************************************)
(* IbvRc for TLC: values of the constants that a .cfg file cannot write.   *)
(***************************************************************************)
EXTENDS IbvRc

\* What the tests `< 0' and `== -1' of ibv-rc.c expect of a failing verb, and
\* what libibverbs documents (EINVAL).
MinusOne == {-1}
Errno    == {22}
EitherWay == MinusOne \cup Errno
=============================================================================
