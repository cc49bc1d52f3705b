----------------------------- MODULE MCAssistant -----------------------------
EXTENDS Assistant, TLC

CONSTANTS clinic, hospital, practice

\* The medical facilities, nearest first.
MCNearby == <<clinic, hospital, practice>>
==============================================================================
