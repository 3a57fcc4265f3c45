---------------------------- MODULE MCPanelViews ----------------------------
EXTENDS PanelViews

MCFilters == {{"seen"}, {"seen", "other"}}
MCFirstRows == <<<<"seen", "other", "seen", "seen">>, <<"seen">>>>
=============================================================================
