------------------------- MODULE MCFirestoreClient -------------------------
EXTENDS FirestoreClient
=============================================================================
