---- MODULE MCJoypad ----
EXTENDS Joypad
Places1 == [UP |-> {"UP"}, edge |-> {"UP", "LEFT"}, origin |-> {}]
====
