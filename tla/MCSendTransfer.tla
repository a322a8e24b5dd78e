---- MODULE MCSendTransfer ----
\* A program that sends two files at most twice.
EXTENDS SendTransfer
====
