------------------------ MODULE MCConversationStore ------------------------
(* Small instances of ConversationStore. *)
EXTENDS ConversationStoreRefines, TLC

\* A creation is the longest record and a status the shortest, so that a record may be
\* shorter than the torn tail it takes the place of.
RecordSizes == [create |-> {3}, delta |-> {2, 3}, status |-> {2}]

\* Stores are interchangeable: no definition names one.
StoreSymmetry == Permutations(Stores)

=============================================================================
