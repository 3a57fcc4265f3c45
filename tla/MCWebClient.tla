---------------------------- MODULE MCWebClient ----------------------------
EXTENDS WebClient

CONSTANTS ada, bob

TwoUsers == {ada, bob}
OneAdmin == {ada}
Nobody   == {}

=============================================================================
