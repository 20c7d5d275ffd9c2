------------------------ MODULE MCAsyncStateMachine ------------------------
(***************************************************************************)
(* Two ends with up to two records to write each, records of two bytes and *)
(* a wire that holds three: a record fits, a second one does not.          *)
(***************************************************************************)
EXTENDS AsyncStateMachine

CONSTANT MaxWrites   \* records that an application writes unasked

Writers == [writes : 0..MaxWrites, answers : BOOLEAN, closes : BOOLEAN]

MCApplications == [Ends -> Writers]
=============================================================================
