---------------------------- MODULE MCExperiments ----------------------------
EXTENDS ExperimentRun

AllScripts == DOMAIN Plans
=============================================================================
