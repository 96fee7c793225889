---------------------------- MODULE MCPortableSmoke ----------------------------
EXTENDS PortableSmoke
================================================================================
