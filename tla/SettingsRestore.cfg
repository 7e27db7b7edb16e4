SPECIFICATION SettingsSpec
CONSTANTS
    Nil = Nil
    Torn = Torn
    Binds = {b1, b2}
    WgBinds = {b1}
    RemoteIds = {i1, i2}
    CustomIds = {i2}
    Codes = {c1}
    Servers = {s1}
    WgKeys = {w1}
    BodyCerts = {"none"}
    CertKeys <- Keys
    MaxFaults = 0
PROPERTY OldServiceKept
VIEW SettingsView
CHECK_DEADLOCK FALSE
