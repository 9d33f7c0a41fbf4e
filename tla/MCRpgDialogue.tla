---- MODULE MCRpgDialogue ----
EXTENDS RpgDialogue
====
