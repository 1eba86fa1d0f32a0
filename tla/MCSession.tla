----------------------------- MODULE MCSession -----------------------------
EXTENDS Session

Orderly == {{}, {"offline"}}
Careless == {{"password"}}
=============================================================================
