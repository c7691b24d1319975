SPECIFICATION WifiSpec
\* Two good configurations, one without address, one with a wrong channel,
\* one of an unknown mode, one with WPA3.
CONSTANTS
    Cfgs = {"a", "b", "noip", "chan", "mode", "wpa3"}
    ChanOk = {"a", "b", "noip", "mode", "wpa3"}
    IpOk = {"a", "b", "chan", "mode", "wpa3"}
    Known = {"a", "b", "noip", "chan", "wpa3"}
    Wpa3 = {"wpa3"}
INVARIANTS CallsDoAsAsked AnswersTruthful DhcpMatchesAp
