-------------------------- MODULE MCIsolateServer --------------------------
EXTENDS IsolateServer

\* Two downloads of one file by one browser.
MCKeyOf == [d \in Downloads |-> "file"]
=============================================================================
