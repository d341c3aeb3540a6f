----------------------------- MODULE MCDetRand -----------------------------
EXTENDS DetRand

=============================================================================
